------------------------------ MODULE AddStop ------------------------------
(***************************************************************************)
(* The add-line page (AddLinePage.swift): the user chooses a line, a       *)
(* station of it and a direction, and adds the stop.  Three services fill  *)
(* the form behind the user's back, each late and in any order: Firestore  *)
(* looks up the naptanID of a station's name, TfL lists the trains of a    *)
(* line at a naptanID (once for their platforms, once for the stop to      *)
(* save), and the spinner is put up and taken down by blocks of the main   *)
(* queue.  Firebase Auth may sign the user out meanwhile.  A station's     *)
(* naptanID is written as the station itself.                              *)
(***************************************************************************)
EXTENDS Integers, Sequences, FiniteSets, SequencesExt

CONSTANTS
    Line,           \* the lines of the grid
    Station,        \* names the picker can show
    PickALine,      \* the one it shows before a line is chosen
    Supported,      \* names that have a naptanID document
    StationsOf,     \* the names the picker shows for each line
    Platform,       \* names of platforms, which serve as directions
    PlatformsOf,    \* those TfL has trains at, for a line and a naptanID
    Unavailable,    \* what a failed lookup gives for a naptanID
    None,           \* nil
    MaxTrains,      \* bound: trains in an answer of TfL
    MaxAsked,       \* bound: lookups and platform requests under way when a row
                    \* is picked
    MaxTaps,        \* bound: taps on Add Station
    MaxBacklog,     \* bound: blocks that wait when a touch comes
    MaxUnread       \* bound: answers that wait in blocks when another comes

ASSUME StationAssumption ==
    /\ PickALine \in Station \ Supported
    /\ Supported \subseteq Station
    /\ StationsOf \in [Line -> SUBSET Station]
ASSUME PlatformAssumption ==
    PlatformsOf \in [Line -> [Supported -> SUBSET Platform]]
ASSUME NilAssumption ==
    /\ None \notin Line \cup Station \cup Platform
    /\ Unavailable \notin Station
ASSUME BoundsAssumption ==
    /\ MaxTrains \in Nat /\ MaxAsked \in Nat
    /\ MaxTaps \in Nat /\ MaxBacklog \in Nat /\ MaxUnread \in Nat

VARIABLES
    \* the form
    line,              \* chosen line
    naptan,            \* station whose naptanID was found last
    is1Selected, is2Selected,
    title1, title2,    \* titles of the two direction buttons
    \* what covers it
    alert,             \* an alert is on the screen
    vSpinner,          \* the global: the spinner shown last, or 0
    overlays,          \* spinner views that cover the page
    page,              \* "open", "closed" (popped), or "trapped" with the app
    \* what is under way
    mainQueue,         \* blocks the main queue has yet to run
    lookups,           \* stations whose naptanID Firestore was asked for
    platformRequests,  \* lines and naptanIDs whose platforms TfL was asked for,
                       \* both in the order they were asked
    stopRequests,      \* stops to save, whose first train TfL was asked for
    taps,              \* taps on Add Station
    \* the account
    signedIn,          \* Firebase Auth has a current user
    saved,             \* the stops written, each with a refresh of the home page
    \* history: taps whose completion never runs, as the user was signed out or
    \* the request failed
    stranded

form     == <<line, naptan, is1Selected, is2Selected, title1, title2>>
cover    == <<alert, vSpinner, overlays>>
asked    == <<lookups, platformRequests, stopRequests>>
account  == <<signedIn, saved>>
vars     == <<form, cover, page, mainQueue, asked, taps, account, stranded>>

-----------------------------------------------------------------------------
(* Helpers.  A definition named _Bug is a mistake the properties below     *)
(* must notice in the definition that follows it.                          *)

Placeholder == "Choose a Direction"

\* what the picker shows
Stations == IF line = None THEN {PickALine} ELSE StationsOf[line]

\* the platforms that TfL has trains at
Platforms(l, n) == IF n = Unavailable THEN {} ELSE PlatformsOf[l][n]

\* what TfL may answer: the platforms of some trains, or nil where one lacks the
\* name, and for the stop to save no train, or some, or two and one that lacks its
\* time to the station
PlatformLists(r) ==
    LET here == Platforms(r.line, r.naptan) IN
    BoundedSeq(IF here = {} THEN {} ELSE here \cup {None}, MaxTrains)
Arrivals(r) ==
    IF Platforms(r.line, r.station) = {} THEN {"none"} ELSE {"none", "some", "untimed"}

\* the places of s whose value no place before has, and the n-th of places P
FirstPlaces(s) == {i \in DOMAIN s : \A j \in 1 .. i - 1 : s[j] # s[i]}
Nth(P, n)      == CHOOSE i \in P : Cardinality({j \in P : j <= i}) = n

FirstValues(s) == [n \in 1 .. Cardinality(FirstPlaces(s)) |-> s[Nth(FirstPlaces(s), n)]]

RemoveDuplicates(s) == FirstValues(s)

\* s[optional: i - 1], and the titles of the two buttons
Title(s, i)   == IF i \in DOMAIN s THEN s[i] ELSE None
Titles_Bug(s) == IF 2 \in DOMAIN s THEN <<s[1], s[2]>> ELSE <<Title(s, 1), title2>>
Titles(s)     == <<Title(s, 1), Title(s, 2)>>

\* the checks of addStop
Incomplete == line = None \/ naptan = None \/ ~(is1Selected \/ is2Selected)
SelectedTitle == IF is1Selected THEN title1 ELSE title2

\* what removeSpinner posts after a check has failed
Uncover_Bug == <<>>
Uncover     == <<[kind |-> "detach"]>>

\* what getNaptanIDFromName has for a name: the naptanID of its document, or nil if
\* the document lacks the field; an error answers like a missing document
Found(s) == {Unavailable} \cup IF s \in Supported THEN {s, None} ELSE {}

\* the naptanID that the completion of didSelectRow keeps
Kept_Bug(n) == n
Kept(n)     == IF n = Unavailable THEN naptan ELSE n

\* the line and station of the first train, which is what addStop saves
Saved_Bug(r, trains) == [line |-> r.line, station |-> r.station]
Saved(r, trains)     == IF trains = "none" THEN [line |-> None, station |-> None]
                                           ELSE [line |-> r.line, station |-> r.station]

\* both buttons after a tap on the first, and after a tap on the second
Flags1_Bug == <<~is1Selected, is2Selected>>
Flags1     == <<~is1Selected, is2Selected /\ is1Selected>>
Flags2     == <<is1Selected /\ is2Selected, ~is2Selected>>

-----------------------------------------------------------------------------
Init ==
    /\ line = None /\ naptan = None
    /\ is1Selected = FALSE /\ is2Selected = FALSE
    /\ title1 = Placeholder /\ title2 = Placeholder
    /\ alert = FALSE
    /\ vSpinner = 0
    /\ overlays = {}
    /\ page = "open"
    /\ mainQueue = <<>>
    /\ lookups = <<>> /\ platformRequests = <<>> /\ stopRequests = {}
    /\ taps = 0
    /\ signedIn = TRUE
    /\ saved = {}
    /\ stranded = {}

-----------------------------------------------------------------------------
(* Touches.  An alert takes them all, a spinner those on the page.         *)

Touchable == page = "open" /\ ~alert /\ overlays = {}

\* a line of the grid; the station found for another line stays
DidSelectItem(l) ==
    /\ Touchable
    /\ line' = l
    /\ UNCHANGED <<naptan, is1Selected, is2Selected, title1, title2, cover, page,
                   mainQueue, asked, taps, account, stranded>>

\* a row of the picker
DidSelectRow(s) ==
    /\ Touchable
    /\ s \in Stations
    /\ Len(lookups) + Len(platformRequests) < MaxAsked
    /\ lookups' = Append(lookups, s)
    /\ UNCHANGED <<form, cover, page, mainQueue, platformRequests, stopRequests, taps,
                   account, stranded>>

Direction(flags) ==
    /\ Touchable
    /\ is1Selected' = flags[1] /\ is2Selected' = flags[2]
    /\ UNCHANGED <<line, naptan, title1, title2, cover, page, mainQueue, asked, taps,
                   account, stranded>>
Direction1 == Direction(Flags1)
Direction2 == Direction(Flags2)

\* Add Station: the spinner is shown before the form and the user are checked
AddStop ==
    /\ Touchable
    /\ taps < MaxTaps
    /\ taps' = taps + 1
    /\ vSpinner' = taps'
    /\ LET attach == Append(mainQueue, [kind |-> "attach", spinner |-> taps']) IN
       \/ /\ Incomplete
          /\ alert' = TRUE
          /\ mainQueue' = attach \o Uncover
          /\ UNCHANGED <<page, stopRequests, stranded>>
       \/ /\ ~Incomplete
          /\ SelectedTitle = None          \* titleLabel!.text! is nil
          /\ page' = "trapped"
          /\ UNCHANGED <<alert, mainQueue, stopRequests, stranded>>
       \/ /\ ~Incomplete
          /\ SelectedTitle # None
          /\ IF signedIn
             THEN /\ stopRequests' = stopRequests \cup
                        {[id |-> taps', line |-> line, station |-> naptan,
                          direction |-> SelectedTitle]}
                  /\ UNCHANGED stranded
             ELSE /\ stranded' = stranded \cup {taps'}
                  /\ UNCHANGED stopRequests
          /\ mainQueue' = attach
          /\ UNCHANGED <<alert, page>>
    /\ UNCHANGED <<form, overlays, lookups, platformRequests, account>>

\* the navigation bar's, which no spinner covers
Back ==
    /\ page = "open" /\ ~alert
    /\ page' = "closed"
    /\ UNCHANGED <<form, cover, mainQueue, asked, taps, account, stranded>>

\* The alert comes up over several turns of the run loop, which run the blocks
\* posted with it.
DismissAlert ==
    /\ alert /\ page # "trapped"
    /\ \A i \in DOMAIN mainQueue : mainQueue[i].kind \notin {"attach", "detach"}
    /\ alert' = FALSE
    /\ UNCHANGED <<form, vSpinner, overlays, page, mainQueue, asked, taps, account,
                   stranded>>

-----------------------------------------------------------------------------
(* Answers.  Each posts the block of its completion.                       *)

\* the lookup of getNaptanIDFromName
LookupAnswered(i) ==
    /\ page # "trapped"
    /\ lookups' = RemoveAt(lookups, i)
    /\ \E n \in Found(lookups[i]) :
          mainQueue' = Append(mainQueue, [kind |-> "found", naptan |-> n])
    /\ UNCHANGED <<form, cover, page, platformRequests, stopRequests, taps, account,
                   stranded>>

\* getDirections; no data, no completion
PlatformsAnswered(i) ==
    /\ page # "trapped"
    /\ platformRequests' = RemoveAt(platformRequests, i)
    /\ \/ \E s \in PlatformLists(platformRequests[i]) :
             mainQueue' = Append(mainQueue, [kind |-> "platforms", platforms |-> s])
       \/ mainQueue' = mainQueue
    /\ UNCHANGED <<form, cover, page, lookups, stopRequests, taps, account, stranded>>

\* getLineData; without a URL or data, no completion
StopAnswered(r) ==
    /\ page # "trapped"
    /\ stopRequests' = stopRequests \ {r}
    /\ \/ /\ \E t \in Arrivals(r) :
                mainQueue' = Append(mainQueue, [kind |-> "stop", request |-> r, trains |-> t])
          /\ UNCHANGED stranded
       \/ /\ stranded' = stranded \cup {r.id}
          /\ UNCHANGED mainQueue
    /\ UNCHANGED <<form, cover, page, lookups, platformRequests, taps, account>>

\* Firebase Auth signs out a user whose token the backend does not accept.
UserSignedOut ==
    /\ page # "trapped"
    /\ signedIn
    /\ signedIn' = FALSE
    /\ UNCHANGED <<form, cover, page, mainQueue, asked, taps, saved, stranded>>

-----------------------------------------------------------------------------
(* Blocks of the main queue.                                               *)

Running(kind) ==
    /\ page # "trapped"
    /\ mainQueue # <<>>
    /\ Head(mainQueue).kind = kind

\* the block of showSpinner
Attach ==
    /\ Running("attach")
    /\ overlays' = overlays \cup {Head(mainQueue).spinner}
    /\ mainQueue' = Tail(mainQueue)
    /\ UNCHANGED <<form, alert, vSpinner, page, asked, taps, account, stranded>>

\* the block of removeSpinner: it removes the spinner shown last
Detach ==
    /\ Running("detach")
    /\ overlays' = overlays \ {vSpinner}
    /\ vSpinner' = 0
    /\ mainQueue' = Tail(mainQueue)
    /\ UNCHANGED <<form, alert, page, asked, taps, account, stranded>>

\* a page that was popped presents nothing
ShowAlert ==
    /\ Running("alert")
    /\ alert' = (alert \/ page = "open")
    /\ mainQueue' = Tail(mainQueue)
    /\ UNCHANGED <<form, vSpinner, overlays, page, asked, taps, account, stranded>>

\* The callback of getNaptanIDFromName casts what it found, and traps on nil;
\* then the completion of didSelectRow.
NaptanFound ==
    /\ Running("found")
    /\ mainQueue' = Tail(mainQueue) \o
          (IF Head(mainQueue).naptan = Unavailable /\ line # None
           THEN <<[kind |-> "alert"]>> ELSE <<>>)
    /\ LET n == Head(mainQueue).naptan IN
       \/ /\ n = None
          /\ page' = "trapped"
          /\ UNCHANGED <<naptan, platformRequests>>
       \/ /\ n # None /\ line = None
          /\ UNCHANGED <<naptan, platformRequests, page>>
       \/ /\ n # None /\ line # None
          /\ platformRequests' = Append(platformRequests, [line |-> line, naptan |-> n])
          /\ naptan' = Kept(n)
          /\ UNCHANGED page
    /\ UNCHANGED <<line, is1Selected, is2Selected, title1, title2, cover, lookups,
                   stopRequests, taps, account, stranded>>

\* the completion of getDirections
DirectionsFound ==
    /\ Running("platforms")
    /\ LET titles == Titles(RemoveDuplicates(Head(mainQueue).platforms)) IN
       /\ title1' = titles[1]
       /\ title2' = titles[2]
    /\ mainQueue' = Tail(mainQueue)
    /\ UNCHANGED <<line, naptan, is1Selected, is2Selected, cover, page, asked, taps,
                   account, stranded>>

\* the block of getLineData sorts the trains, which traps if two cannot be
\* compared; its completion writes, refreshes, takes the spinner down and pops
StopFound ==
    /\ Running("stop")
    /\ LET b == Head(mainQueue) IN
       \/ /\ b.trains = "untimed"
          /\ page' = "trapped"
          /\ mainQueue' = Tail(mainQueue)
          /\ UNCHANGED saved
       \/ /\ b.trains # "untimed"
          /\ page' = "closed"
          /\ mainQueue' = Append(Tail(mainQueue), [kind |-> "detach"])
          /\ saved' = saved \cup {[id |-> b.request.id,
                                   fields |-> Saved(b.request, b.trains),
                                   direction |-> b.request.direction]}
    /\ UNCHANGED <<form, cover, asked, taps, signedIn, stranded>>

MainStep ==
    \/ Attach \/ Detach \/ ShowAlert
    \/ NaptanFound \/ DirectionsFound \/ StopFound

-----------------------------------------------------------------------------
UserStep ==
    /\ Len(mainQueue) <= MaxBacklog
    /\ \/ \E l \in Line : DidSelectItem(l)
       \/ \E s \in Station : DidSelectRow(s)
       \/ Direction1 \/ Direction2
       \/ AddStop
       \/ Back \/ DismissAlert

Unread == SelectSeq(mainQueue, LAMBDA b : b.kind \in {"found", "platforms", "stop"})

NetworkStep ==
    /\ Len(Unread) <= MaxUnread
    /\ \/ \E i \in DOMAIN lookups : LookupAnswered(i)
       \/ \E i \in DOMAIN platformRequests : PlatformsAnswered(i)
       \/ \E r \in stopRequests : StopAnswered(r)
       \/ UserSignedOut

Next == MainStep \/ UserStep \/ NetworkStep

Spec == Init /\ [][Next]_vars

\* The run loop drains the main queue; nobody else need do anything.
FairSpec == Spec /\ WF_vars(MainStep)

-----------------------------------------------------------------------------
(* Properties.                                                             *)

Stop     == [line : Line, station : Supported]
Request  == [id : 1 .. taps, line : Line, station : Supported,
             direction : Platform \cup {Placeholder}]
PlatformRequest == [line : Line, naptan : Supported \cup {Unavailable}]
Document == [id : 1 .. taps, fields : Stop \cup {[line |-> None, station |-> None]},
             direction : Platform \cup {Placeholder}]

Block ==
    [kind : {"attach"}, spinner : 1 .. taps]
    \cup [kind : {"detach", "alert"}]
    \cup [kind : {"found"}, naptan : Supported \cup {Unavailable, None}]
    \cup [kind : {"platforms"}, platforms : Seq(Platform \cup {None})]
    \cup [kind : {"stop"}, request : Request, trains : {"none", "some", "untimed"}]

\* Type invariant: the form's fields, the requests and the blocks keep their types.
TypeOK ==
    /\ line \in Line \cup {None}
    /\ naptan \in Supported \cup {None}
    /\ {is1Selected, is2Selected, alert, signedIn} \subseteq BOOLEAN
    /\ {title1, title2} \subseteq Platform \cup {Placeholder, None}
    /\ vSpinner \in 0 .. taps
    /\ overlays \subseteq 1 .. taps
    /\ page \in {"open", "closed", "trapped"}
    /\ lookups \in Seq(Station)
    /\ platformRequests \in Seq(PlatformRequest)
    /\ stopRequests \subseteq Request
    /\ mainQueue \in Seq(Block)
    /\ taps \in 0 .. MaxTaps
    /\ saved \subseteq Document
    /\ stranded \subseteq 1 .. taps

\* Two Boolean flags stand for one choice.
OneDirection == ~(is1Selected /\ is2Selected)

\* Stations are picked one after the other, each answer sets both titles, and one
\* may name fewer platforms than the one before: still the two buttons never show
\* platforms of different lines or stations, nor one platform twice.
TitlesOfOneAnswer ==
    \/ title1 = Placeholder /\ title2 = Placeholder
    \/ title1 = None /\ title2 = None
    \/ /\ title1 # title2
       /\ \E l \in Line, s \in Supported :
             {title1, title2} \subseteq PlatformsOf[l][s] \cup {None}

\* The form may pair a line with a station of another line, and change while
\* the answer is awaited.  A stop saved with its fields is one that TfL has
\* trains at all the same, since the fields are those of a train.
CompleteStopsAreServed ==
    \A s \in saved : s.fields.line # None =>
        PlatformsOf[s.fields.line][s.fields.station] # {}

\* Each tap puts a spinner up in a block of its own, only the last one is
\* remembered, and addStop may end in five ways.  Once the blocks have run, a
\* spinner that covers the page is that of a tap whose answer is awaited, or of
\* one that had no user or whose request failed, and never of a form refused.
CoveredOnlyWhileAwaiting ==
    page = "open" /\ mainQueue = <<>> =>
        \A k \in overlays : k \in stranded \/ \E r \in stopRequests : r.id = k

=============================================================================
