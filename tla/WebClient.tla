----------------------------- MODULE WebClient -----------------------------
(***************************************************************************)
(* The pages of the web client (frontend/src) and the service behind them. *)
(* A page load is a session (App.tsx).  A page has a thread of questions   *)
(* (Chat.tsx), a panel to ingest documents (IngestPanel.tsx) and a badge   *)
(* that asks /health again and again (HealthBadge.tsx).                    *)
(*                                                                         *)
(* The service is ChatContract's, which the pipeline implements, in one    *)
(* process that may stop and start again with what it keeps in memory      *)
(* gone.  A connection may break at any time: the page then shows an       *)
(* error, whether or not the service has done, or still does, its work.    *)
(*                                                                         *)
(* ask is fixed from the start: request r is sent by the page of           *)
(* ask[r].session when its user has typed ask[r].query.                    *)
(***************************************************************************)
EXTENDS ChatContract, FiniteSets

CONSTANTS
    Documents,
    MaxChecks, \* bound on the health checks of a page under way at once, for TLC only
    MaxStops,  \* bound on the stops of the service, for TLC only
    Nothing    \* an empty text box, an idle panel

ASSUME WebAssumption ==
    /\ Keep \in Nat \ {0} /\ MaxChecks \in Nat /\ MaxStops \in Nat
    /\ Requests \cap Jobs = {}
    /\ Nothing \notin Jobs \cup Documents
    /\ "none" \notin Jobs
    /\ Questions \subseteq [query : DOMAIN Topic, session : Sessions]

Pages == Sessions

VARIABLES
    thread,    \* page -> its questions, in the order of its message list
    shown,     \* request -> what its message shows
    busy,      \* page -> whether its chat waits for a reply
    box,       \* page -> the text of its ingest panel
    panel,     \* page -> the ingestion it waits for
    note,      \* page -> the ingestion its panel says is "Ingested"
    error,     \* page -> whether its panel shows an error, beside the note or alone
    badge,     \* page -> status
    asked,     \* page -> its health checks under way that will be answered
    cut,       \* page -> those that have lost their connection, or got none
    up,        \* whether the service runs
    stops,
    wire,      \* the requests and ingestions whose connection to the service lives
    text,      \* ingestion -> the document it carries
    typed,     \* history: page -> the documents typed into its panel
    learned,   \* history: the ingestions the service has ever carried out
    given,     \* history: ingestion -> the requests answered when it was submitted
    noted      \* history: request -> the ingestions its page had confirmed when it was sent

chatVars == <<thread, shown, busy, noted>>
panelVars == <<box, panel, note, error, text, typed, given>>
badgeVars == <<badge, asked, cut>>
serviceVars == <<up, stops, wire, learned>>
vars == <<contractVars, chatVars, panelVars, badgeVars, serviceVars>>

Answered == {r \in Requests : outcome[r].kind # "none"}

WebInit ==
    /\ Init
    /\ thread = [p \in Pages |-> <<>>]
    /\ shown = [r \in Requests |-> "unsent"]
    /\ busy = [p \in Pages |-> FALSE]
    /\ box = [p \in Pages |-> Nothing]
    /\ panel = [p \in Pages |-> Nothing]
    /\ note = [p \in Pages |-> "none"]
    /\ error = [p \in Pages |-> FALSE]
    /\ badge = [p \in Pages |-> "loading"]
    /\ asked = [p \in Pages |-> 0]
    /\ cut = [p \in Pages |-> 0]
    /\ up = TRUE
    /\ stops = 0
    /\ wire = {}
    /\ text = [i \in Jobs |-> Nothing]
    /\ typed = [p \in Pages |-> {}]
    /\ learned = {}
    /\ given = [i \in Jobs |-> {}]
    /\ noted = [r \in Requests |-> {}]

\* fetch: the call is on its way to a service that runs, else its connection is refused.
Call(x) == wire' = IF up THEN wire \cup {x} ELSE wire

-----------------------------------------------------------------------------
(* The chat of a page. *)

\* The ingestion page p says is done, if any; an error beside the note does not hide it.
Confirmed(p) == {i \in Jobs : note[p] = i}

\* Faulty: the guard on busy is missing.
SendAgain(p, r) ==
    /\ ask[r].session = p
    /\ shown[r] = "unsent"
    /\ thread' = [thread EXCEPT ![p] = Append(@, r)]
    /\ shown' = [shown EXCEPT ![r] = "pending"]
    /\ busy' = [busy EXCEPT ![p] = TRUE]
    /\ noted' = [noted EXCEPT ![r] = Confirmed(p)]
    /\ Call(r)
    /\ UNCHANGED <<contractVars, panelVars, badgeVars, up, stops, learned>>

\* send: the question and a pending message join the list.
Send(p, r) ==
    /\ ask[r].session = p
    /\ shown[r] = "unsent"
    /\ ~busy[p]
    /\ thread' = [thread EXCEPT ![p] = Append(@, r)]
    /\ shown' = [shown EXCEPT ![r] = "pending"]
    /\ busy' = [busy EXCEPT ![p] = TRUE]
    /\ noted' = [noted EXCEPT ![r] = Confirmed(p)]
    /\ Call(r)
    /\ UNCHANGED <<contractVars, panelVars, badgeVars, up, stops, learned>>

\* The pending message of r becomes its reply, or the error.
Becomes(p, r, what) ==
    /\ shown[r] = "pending" /\ ask[r].session = p
    /\ shown' = [shown EXCEPT ![r] = what]
    /\ UNCHANGED <<thread, noted>>

\* A reply with status 200 arrives, blocked or not; any other status is an error.
Show(p, r) ==
    /\ r \in wire /\ r \in Answered
    /\ Becomes(p, r, IF outcome[r].kind = "error" THEN "error" ELSE "answer")
    /\ busy' = [busy EXCEPT ![p] = FALSE]
    /\ UNCHANGED <<contractVars, panelVars, badgeVars, serviceVars>>

\* Faulty: busy is reset with the reply only.
FailBusy(p, r) ==
    /\ Becomes(p, r, "error")
    /\ UNCHANGED <<contractVars, busy, panelVars, badgeVars, serviceVars>>

\* fetch throws: the connection was refused or has broken.
Fail(p, r) ==
    /\ Becomes(p, r, "error")
    /\ busy' = [busy EXCEPT ![p] = FALSE]
    /\ UNCHANGED <<contractVars, panelVars, badgeVars, serviceVars>>

-----------------------------------------------------------------------------
(* The ingest panel of a page. *)

\* The user types a document; the box is disabled while the panel waits.
Type(p, d) ==
    /\ panel[p] = Nothing /\ box[p] = Nothing
    /\ \A q \in Pages : d \notin typed[q]
    /\ box' = [box EXCEPT ![p] = d]
    /\ typed' = [typed EXCEPT ![p] = @ \cup {d}]
    /\ UNCHANGED <<contractVars, chatVars, panel, note, error, text, given, badgeVars, serviceVars>>

\* submit, with the button enabled.
Submit(p, i) ==
    /\ panel[p] = Nothing /\ box[p] # Nothing
    /\ text[i] = Nothing
    /\ panel' = [panel EXCEPT ![p] = i]
    /\ note' = [note EXCEPT ![p] = "none"]
    /\ error' = [error EXCEPT ![p] = FALSE]
    /\ text' = [text EXCEPT ![i] = box[p]]
    /\ given' = [given EXCEPT ![i] = Answered]
    /\ Call(i)
    /\ UNCHANGED <<contractVars, chatVars, box, typed, badgeVars, up, stops, learned>>

\* submit with an empty box: an error, and what the panel said before stays.
SubmitNothing(p) ==
    /\ panel[p] = Nothing /\ box[p] = Nothing
    /\ error' = [error EXCEPT ![p] = TRUE]
    /\ UNCHANGED <<contractVars, chatVars, box, panel, note, text, typed, given,
                   badgeVars, serviceVars>>

\* The reply arrives: the text goes.
Ingested(p, i) ==
    /\ panel[p] = i /\ i \in wire /\ i \in known
    /\ note' = [note EXCEPT ![p] = i]
    /\ box' = [box EXCEPT ![p] = Nothing]
    /\ panel' = [panel EXCEPT ![p] = Nothing]
    /\ UNCHANGED <<contractVars, chatVars, error, text, typed, given, badgeVars, serviceVars>>

\* Faulty: the text goes whatever came of it.
IngestFailsClearing(p, i) ==
    /\ panel[p] = i
    /\ error' = [error EXCEPT ![p] = TRUE]
    /\ box' = [box EXCEPT ![p] = Nothing]
    /\ panel' = [panel EXCEPT ![p] = Nothing]
    /\ UNCHANGED <<contractVars, chatVars, note, text, typed, given, badgeVars, serviceVars>>

\* An error status, or no connection: the text stays, and may be submitted again.
IngestFails(p, i) ==
    /\ panel[p] = i
    /\ error' = [error EXCEPT ![p] = TRUE]
    /\ panel' = [panel EXCEPT ![p] = Nothing]
    /\ UNCHANGED <<contractVars, chatVars, box, note, text, typed, given, badgeVars, serviceVars>>

-----------------------------------------------------------------------------
(* The badge of a page. *)

\* Faulty: nobody checks any more once a check has failed.
CheckUntilDown(p) ==
    /\ badge[p] # "down"
    /\ asked[p] + cut[p] < MaxChecks
    /\ IF up THEN asked' = [asked EXCEPT ![p] = @ + 1] /\ UNCHANGED cut
             ELSE cut' = [cut EXCEPT ![p] = @ + 1] /\ UNCHANGED asked
    /\ UNCHANGED <<contractVars, chatVars, panelVars, badge, serviceVars>>

\* The interval fires, whether or not the checks before have ended.
Check(p) ==
    /\ asked[p] + cut[p] < MaxChecks
    /\ IF up THEN asked' = [asked EXCEPT ![p] = @ + 1] /\ UNCHANGED cut
             ELSE cut' = [cut EXCEPT ![p] = @ + 1] /\ UNCHANGED asked
    /\ UNCHANGED <<contractVars, chatVars, panelVars, badge, serviceVars>>

CheckAnswered(p) ==
    /\ asked[p] > 0
    /\ asked' = [asked EXCEPT ![p] = @ - 1]
    /\ badge' = [badge EXCEPT ![p] = "ok"]
    /\ UNCHANGED <<contractVars, chatVars, panelVars, cut, serviceVars>>

CheckFails(p) ==
    /\ cut[p] > 0
    /\ cut' = [cut EXCEPT ![p] = @ - 1]
    /\ badge' = [badge EXCEPT ![p] = "down"]
    /\ UNCHANGED <<contractVars, chatVars, panelVars, asked, serviceVars>>

-----------------------------------------------------------------------------
(* The service. *)

\* A request that has reached the service comes to its outcome there.
Serve(r) ==
    /\ up /\ r \in wire
    /\ \/ \E words \in Texts : Generate(r, words)
       \/ \E e \in Requests : Reuse(r, e)
       \/ Refuse(r)
    /\ UNCHANGED <<chatVars, panelVars, badgeVars, serviceVars>>

\* The documents of an ingestion are stored and the cached answers dropped.
Store(i) ==
    /\ up /\ i \in wire
    /\ Learn(i)
    /\ learned' = learned \cup {i}
    /\ UNCHANGED <<chatVars, panelVars, badgeVars, up, stops, wire>>

Expire ==
    /\ up
    /\ Forget
    /\ UNCHANGED <<chatVars, panelVars, badgeVars, serviceVars>>

\* The process stops: its sessions and its cache are gone, its connections break.
Stop ==
    /\ up /\ stops < MaxStops
    /\ up' = FALSE
    /\ stops' = stops + 1
    /\ wire' = {}
    /\ log' = [s \in Sessions |-> <<>>]
    /\ pool' = {}
    /\ asked' = [p \in Pages |-> 0]
    /\ cut' = [p \in Pages |-> cut[p] + asked[p]]
    /\ UNCHANGED <<ask, outcome, known, chatVars, panelVars, badge, learned>>

Start ==
    /\ ~up
    /\ up' = TRUE
    /\ UNCHANGED <<contractVars, chatVars, panelVars, badgeVars, stops, wire, learned>>

-----------------------------------------------------------------------------
Ends(p, r) == Show(p, r) \/ Fail(p, r)

PanelEnds(p, i) == Ingested(p, i) \/ IngestFails(p, i)

PageStep(p) ==
    \/ \E r \in Requests : Send(p, r) \/ Ends(p, r)
    \/ \E d \in Documents : Type(p, d)
    \/ \E i \in Jobs : Submit(p, i) \/ PanelEnds(p, i)
    \/ SubmitNothing(p)
    \/ Check(p) \/ CheckAnswered(p) \/ CheckFails(p)

ServiceStep ==
    \/ \E r \in Requests : Serve(r)
    \/ \E i \in Jobs : Store(i)
    \/ Expire \/ Stop \/ Start

WebNext == (\E p \in Pages : PageStep(p)) \/ ServiceStep

\* A connection is answered or breaks, and the interval of a badge goes on.
WebFairness ==
    \A p \in Pages :
        /\ \A r \in Requests : WF_vars(Ends(p, r))
        /\ WF_vars(Check(p)) /\ WF_vars(CheckAnswered(p)) /\ WF_vars(CheckFails(p))

WebSpec == WebInit /\ [][WebNext]_vars /\ WebFairness

-----------------------------------------------------------------------------
Pending(p) == {r \in Requests : shown[r] = "pending" /\ ask[r].session = p}

WebTypes ==
    /\ ask \in [Requests -> Questions]
    /\ thread \in [Pages -> Seq(Requests)]
    /\ shown \in [Requests -> {"unsent", "pending", "answer", "error"}]
    /\ busy \in [Pages -> BOOLEAN]
    /\ box \in [Pages -> Documents \cup {Nothing}]
    /\ panel \in [Pages -> Jobs \cup {Nothing}]
    /\ note \in [Pages -> Jobs \cup {"none"}]
    /\ error \in [Pages -> BOOLEAN]
    /\ badge \in [Pages -> {"loading", "ok", "down"}]
    /\ asked \in [Pages -> Nat] /\ cut \in [Pages -> Nat]
    /\ \A p \in Pages : asked[p] + cut[p] <= MaxChecks
    /\ up \in BOOLEAN /\ stops \in 0..MaxStops
    /\ wire \subseteq Requests \cup Jobs
    /\ text \in [Jobs -> Documents \cup {Nothing}]

\* Types, and the state of the chat: busy when one message is pending, never more.
WebTypeOK ==
    /\ WebTypes
    /\ \A p \in Pages : Cardinality(Pending(p)) = IF busy[p] THEN 1 ELSE 0

\* r's message shows an answer made for r.
Seen(r) == shown[r] = "answer" /\ outcome[r].kind = "fresh"

\* The places of r's turn in the memory of its session.
PlacesOf(r) == {n \in DOMAIN log[ask[r].session] : log[ask[r].session][n].by = r}

\* The answers a page shows are remembered in the order of its message list, also when
\* replies were lost, questions repeated and the service restarted in between: what is
\* forgotten is the older part, never an answer from the middle.
PageFollowsMemory ==
    \A p \in Pages : \A i, j \in DOMAIN thread[p] :
        LET a == thread[p][i]
            b == thread[p][j]
        IN  i < j /\ Seen(a) /\ Seen(b) /\ PlacesOf(a) # {} =>
                /\ PlacesOf(b) # {}
                /\ \A m \in PlacesOf(a), n \in PlacesOf(b) : m < n

\* A question sent while its page's panel says "Ingested" - also beside the error of a
\* submit without text (IngestPanel.tsx:19-22, 69) - is never answered with an answer
\* given, to whatever page, before those documents were submitted.  It is about the
\* answers that are reused: whether the documents outlive a restart is not followed.
IngestedIsSeen ==
    \A r \in Requests : outcome[r].kind = "hit" =>
        \A i \in noted[r] : outcome[r].by \notin given[i]

\* A document typed into the panel is in its box until the service has stored it, however
\* often its submission failed or its reply was lost.
NothingTypedIsLost ==
    \A p \in Pages : \A d \in typed[p] :
        box[p] = d \/ \E i \in learned : text[i] = d

\* The chat does not stay disabled: each send ends, whatever becomes of its connection.
BusyEnds == \A p \in Pages : busy[p] ~> ~busy[p]

\* When the service no longer starts or stops, the badge comes to say how it is, though
\* late failures of older checks may pass newer replies.
BadgeSettles ==
    \A p \in Pages :
        /\ <>[]up => <>[](badge[p] = "ok")
        /\ <>[]~up => <>[](badge[p] = "down")
=============================================================================
