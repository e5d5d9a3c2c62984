------------------------------- MODULE Cards --------------------------------
(***************************************************************************)
(* What an agent asks people through cards: the questions of               *)
(* ask_user_question, whose caller waits in the container for an answer,   *)
(* and the requests to change its own container (install_packages,         *)
(* add_mcp_server), which an admin approves or rejects.                    *)
(*                                                                         *)
(* Both are rows of outbound.db.  The host delivers a row's card after it  *)
(* has written a pending row in the central database, and a click looks    *)
(* the pending row up and deletes it.  A question keeps its id when its    *)
(* delivery is repeated; a request gets a new one.  The host runs each     *)
(* click's handler to its end before anything else, the image build        *)
(* included, which blocks it; only the posting and the editing of a card   *)
(* are awaited (and the opening of a DM, before anything is written).      *)
(***************************************************************************)
EXTENDS Naturals, FiniteSets

CONSTANTS
    Questions,     \* ask_user_question calls of one session's container
    Requests,      \* its install_packages and add_mcp_server requests
    MaxAttempts,   \* MAX_DELIVERY_ATTEMPTS
    MaxFaults      \* bound on crashes, lost answers, failed calls, dead containers

Items    == Questions \cup Requests
CardIds  == Items \X (1..1 + MaxFaults)
Values   == {"yes", "no", "raw"}    \* approve, reject; an index nobody resolved
Clicks   == [card : CardIds, value : Values]
Nothing  == "nothing"

ASSUME ItemsAssumption  == Questions \cap Requests = {} /\ Nothing \notin Items
ASSUME BoundsAssumption == MaxAttempts \in Nat \ {0} /\ MaxFaults \in Nat

VARIABLES
    kind,          \* what a request asks for
    record,        \* a row of outbound.db and its outcome
    attempts,      \* deliveryAttempts, in the host's memory
    sending,       \* the row being delivered: one at a time
    stage,         \* "posting" or "posted" while one is
    cards,         \* the cards on the platform: open, with their buttons, or edited
    clicks,        \* clicks whose card is being edited
    pending,       \* pending_questions and pending_approvals
    call,          \* the tool calls of ask_user_question
    answers,       \* question_response rows of inbound.db
    taken,         \* those with an acknowledgement
    told,          \* what the agent has been told of a request
    config,        \* container.json: how often a request's packages or server are listed
    image,         \* the requests whose packages the agent's image has
    (* history *)
    shown,         \* the number of deliveries begun
    acted,         \* the number of clicks that found a pending row
    hit,           \* items a fault has met
    faults

rowVars  == <<kind, record, attempts, sending, stage, shown>>
cardVars == <<cards, clicks, pending>>
callVars == <<call, answers, taken>>
cfgVars  == <<told, config, image>>
vars     == <<rowVars, cardVars, callVars, cfgVars, acted, hit, faults>>

TypeOK ==
    /\ kind \in [Requests -> {"none", "install", "server"}]
    /\ record \in [Items -> {"none", "open", "delivered", "failed"}]
    /\ attempts \in [Items -> 0..MaxAttempts - 1]
    /\ sending \in Items \cup {Nothing}
    /\ stage \in {"idle", "posting", "posted"}
    /\ stage = "idle" <=> sending = Nothing
    /\ cards \in [CardIds -> {"none", "open", "edited"}]
    /\ clicks \in SUBSET Clicks
    /\ pending \in SUBSET (Items \X (0..1 + MaxFaults))
    /\ call \in [Questions -> {"none", "waiting", "answered", "timedout", "dead"}]
    /\ answers \in SUBSET (Questions \X Values \X Nat)
    /\ taken \in SUBSET answers
    /\ told \in [Requests -> SUBSET {"unasked", "rejected", "applied", "broken"}]
    /\ config \in [Requests -> 0..1 + MaxFaults]
    /\ image \in SUBSET Requests
    /\ shown \in [Items -> 0..1 + MaxFaults]
    /\ acted \in [Items -> Nat]
    /\ hit \in SUBSET Items
    /\ faults \in 0..MaxFaults

Init ==
    /\ kind = [r \in Requests |-> "none"]
    /\ record = [i \in Items |-> "none"] /\ attempts = [i \in Items |-> 0]
    /\ sending = Nothing /\ stage = "idle"
    /\ cards = [c \in CardIds |-> "none"] /\ clicks = {} /\ pending = {}
    /\ call = [q \in Questions |-> "none"] /\ answers = {} /\ taken = {}
    /\ told = [r \in Requests |-> {}] /\ config = [r \in Requests |-> 0] /\ image = {}
    /\ shown = [i \in Items |-> 0] /\ acted = [i \in Items |-> 0]
    /\ hit = {} /\ faults = 0

FaultOn(is) == faults < MaxFaults /\ faults' = faults + 1 /\ hit' = hit \cup is
Tell(r, what) == told' = [told EXCEPT ![r] = @ \cup {what}]

\* The key of a card's pending row.
Key(c) == IF c[1] \in Questions THEN <<c[1], 0>> ELSE c
Card(i) == <<i, shown[i]>>

-----------------------------------------------------------------------------
(* The container.                                                          *)

\* ask_user_question writes the card's row and waits.
Ask(q) ==
    /\ record[q] = "none"
    /\ record' = [record EXCEPT ![q] = "open"]
    /\ call' = [call EXCEPT ![q] = "waiting"]
    /\ UNCHANGED <<kind, attempts, sending, stage, shown, cardVars, answers, taken, cfgVars,
                   acted, hit, faults>>

\* install_packages and add_mcp_server write a row and return.
Request(r) ==
    /\ record[r] = "none"
    /\ record' = [record EXCEPT ![r] = "open"]
    /\ \E what \in {"install", "server"} : kind' = [kind EXCEPT ![r] = what]
    /\ UNCHANGED <<attempts, sending, stage, shown, cardVars, callVars, cfgVars,
                   acted, hit, faults>>

\* findQuestionResponse returns the first row of the question, unless it has
\* been acknowledged.
TakeAnswer(q) ==
    /\ call[q] = "waiting"
    /\ \E a \in answers :
          /\ a[1] = q /\ a \notin taken
          /\ \A b \in answers : b[1] = q => a[3] <= b[3]
          /\ taken' = taken \cup {a}
    /\ call' = [call EXCEPT ![q] = "answered"]
    /\ UNCHANGED <<rowVars, cardVars, answers, cfgVars, acted, hit, faults>>

\* The deadline of a call passes; it may pass before anything else happens.
TimesOut(q) ==
    /\ call[q] = "waiting"
    /\ call' = [call EXCEPT ![q] = "timedout"]
    /\ UNCHANGED <<rowVars, cardVars, answers, taken, cfgVars, acted, hit, faults>>

Dead == [q \in Questions |-> IF call[q] = "waiting" THEN "dead" ELSE call[q]]

ContainerDies ==
    /\ FaultOn({})
    /\ call' = Dead
    /\ UNCHANGED <<rowVars, cardVars, answers, taken, cfgVars, acted>>

-----------------------------------------------------------------------------
(* Delivery.                                                               *)

Settle(i, outcome) ==
    /\ record' = [record EXCEPT ![i] = outcome]
    /\ attempts' = [attempts EXCEPT ![i] = 0]
    /\ sending' = Nothing /\ stage' = "idle"

\* drainSession takes up a row; its pending row is written before its card is posted.
TakeUp(i) ==
    /\ sending = Nothing /\ record[i] = "open"
    /\ sending' = i /\ stage' = "posting"
    /\ shown' = [shown EXCEPT ![i] = @ + 1]
    /\ pending' = pending \cup {Key(<<i, shown[i] + 1>>)}
    /\ UNCHANGED <<kind, record, attempts, cards, clicks, callVars, cfgVars, acted, hit, faults>>

\* deliverMessage: the pending row of a question may be there already.
DeliverQuestion(q) == q \in Questions /\ TakeUp(q)

\* handleInstallPackages and handleAddMcpServer: a valid request is put to an
\* approver, with a pending row of its own.
DeliverRequest(r) == r \in Requests /\ TakeUp(r)

\* requestApproval finds no approver, or none that can be reached by DM.
NoApprover(r) ==
    /\ sending = Nothing /\ record[r] = "open"
    /\ Tell(r, "unasked")
    /\ Settle(r, "delivered")
    /\ UNCHANGED <<kind, shown, cardVars, callVars, config, image, acted, hit, faults>>

\* The platform shows the card; its buttons work from now on.
Posted ==
    /\ stage = "posting"
    /\ cards' = [cards EXCEPT ![Card(sending)] = "open"]
    /\ stage' = "posted"
    /\ UNCHANGED <<kind, record, attempts, sending, shown, clicks, pending, callVars, cfgVars,
                   acted, hit, faults>>

\* The call returns; where the channel has no adapter it returns as well, and
\* nothing has been posted.
Delivered ==
    /\ \/ stage = "posted" /\ UNCHANGED <<hit, faults>>
       \/ stage = "posting" /\ FaultOn({sending})
    /\ Settle(sending, "delivered")
    /\ UNCHANGED <<kind, shown, cardVars, callVars, cfgVars, acted>>

\* The call fails, with the card posted or not.  A question is tried again, up to
\* MAX_DELIVERY_ATTEMPTS; a request is over, and the agent told it was not asked.
PostFails ==
    /\ stage \in {"posting", "posted"}
    /\ FaultOn({sending})
    /\ IF sending \in Requests
       THEN Tell(sending, "unasked") /\ Settle(sending, "delivered")
       ELSE /\ UNCHANGED told
            /\ IF attempts[sending] + 1 >= MaxAttempts
               THEN Settle(sending, "failed")
               ELSE /\ attempts' = [attempts EXCEPT ![sending] = @ + 1]
                    /\ sending' = Nothing /\ stage' = "idle"
                    /\ UNCHANGED record
    /\ UNCHANGED <<kind, shown, cardVars, callVars, config, image, acted>>

-----------------------------------------------------------------------------
(* Clicks.                                                                 *)

\* A button is clicked.  Its value is looked up before the card is edited, and
\* is the bare index of the option where no pending row is found.
Click(c, v) ==
    /\ cards[c] = "open" /\ v # "raw"
    /\ Cardinality({k \in clicks : k.card = c}) < 2
    /\ clicks' = clicks \cup {[card |-> c, value |-> IF Key(c) \in pending THEN v ELSE "raw"]}
    /\ UNCHANGED <<rowVars, cards, pending, callVars, cfgVars, acted, hit, faults>>

\* The card's buttons are removed, or the edit has failed; then the click goes
\* to the response handlers.
Edited(k) ==
    \/ cards' = [cards EXCEPT ![k.card] = "edited"] /\ UNCHANGED <<hit, faults>>
    \/ FaultOn({}) /\ UNCHANGED cards

\* Mutation: the pending row of a question is left in place.
ConsumeApprovals(k) ==
    /\ pending' = pending \ (IF k.card[1] \in Requests THEN {Key(k.card)} ELSE {})
    /\ acted' = [acted EXCEPT ![k.card[1]] = @ + 1]
    /\ clicks' = clicks \ {k}

\* The handler that finds a pending row has deleted it when it ends.
Consume(k) ==
    /\ pending' = pending \ {Key(k.card)}
    /\ acted' = [acted EXCEPT ![k.card[1]] = @ + 1]
    /\ clicks' = clicks \ {k}

Response(k) == <<k.card[1], k.value, Cardinality(answers) + 1>>

\* No handler claims the click.
Unclaimed(k) ==
    /\ Key(k.card) \notin pending
    /\ Edited(k)
    /\ clicks' = clicks \ {k}
    /\ UNCHANGED <<rowVars, pending, callVars, cfgVars, acted>>

\* handleInteractiveResponse: the answer becomes a system row of the session.
Answer(k) ==
    /\ k.card[1] \in Questions /\ Key(k.card) \in pending
    /\ Edited(k)
    /\ answers' = answers \cup {Response(k)}
    /\ Consume(k)
    /\ UNCHANGED <<rowVars, call, taken, cfgVars>>

\* Mutation: a rejection is not reported.
RejectSilently(k) ==
    /\ k.card[1] \in Requests /\ Key(k.card) \in pending /\ k.value = "no"
    /\ Edited(k)
    /\ Consume(k)
    /\ UNCHANGED <<rowVars, callVars, told, config, image>>

\* handleRegisteredApproval, anything but approve.
Reject(k) ==
    /\ k.card[1] \in Requests /\ Key(k.card) \in pending /\ k.value = "no"
    /\ Edited(k)
    /\ Tell(k.card[1], "rejected")
    /\ Consume(k)
    /\ UNCHANGED <<rowVars, callVars, config, image>>

Listed(r) == config' = [config EXCEPT ![r] = IF kind[r] = "server" THEN 1 ELSE @ + 1]

\* Mutation: the image is built from the request's own packages.
BuiltAlone(r) == {r}

\* The image is built from all packages in container.json.
Built(r) == {x \in Requests : kind[x] = "install" /\ config'[x] > 0}

\* applyInstallPackages: the packages are listed and the image is built; then the
\* session's container is killed, with the calls that wait in it.  When the build
\* fails the packages stay listed.
ApproveInstall(k) ==
    LET r == k.card[1]
    IN  /\ r \in Requests /\ Key(k.card) \in pending /\ k.value = "yes"
        /\ kind[r] = "install"
        /\ Listed(r)
        /\ \/ Edited(k) /\ image' = Built(r) /\ call' = Dead /\ Tell(r, "applied")
           \/ /\ FaultOn({}) /\ cards' = [cards EXCEPT ![k.card] = "edited"]
              /\ UNCHANGED <<image, call>> /\ Tell(r, "broken")
        /\ Consume(k)
        /\ UNCHANGED <<rowVars, answers, taken>>

\* applyAddMcpServer.
ApproveServer(k) ==
    LET r == k.card[1]
    IN  /\ r \in Requests /\ Key(k.card) \in pending /\ k.value = "yes"
        /\ kind[r] = "server"
        /\ Edited(k)
        /\ Listed(r)
        /\ call' = Dead
        /\ Tell(r, "applied")
        /\ Consume(k)
        /\ UNCHANGED <<rowVars, answers, taken, image>>

\* The host dies: what is being sent, edited or counted is gone.
Restarted ==
    /\ sending' = Nothing /\ stage' = "idle"
    /\ attempts' = [i \in Items |-> 0]
    /\ clicks' = {}

HostRestart ==
    /\ FaultOn({k.card[1] : k \in clicks} \cup ({sending} \ {Nothing}))
    /\ Restarted
    /\ call' = Dead
    /\ UNCHANGED <<kind, record, shown, cards, pending, answers, taken, cfgVars, acted>>

\* It dies inside a click's handler, with the first of its changes made and the
\* pending row still there.
DiesInHandler(k) ==
    LET i == k.card[1]
    IN  /\ Key(k.card) \in pending
        /\ FaultOn({i} \cup {x.card[1] : x \in clicks} \cup ({sending} \ {Nothing}))
        /\ cards' = [cards EXCEPT ![k.card] = "edited"]
        /\ acted' = [acted EXCEPT ![i] = @ + 1]
        /\ Restarted
        /\ call' = Dead
        /\ answers' = IF i \in Questions THEN answers \cup {Response(k)} ELSE answers
        /\ IF i \in Requests /\ k.value = "yes"
           THEN /\ Listed(i)
                /\ image' \in {image} \cup (IF kind[i] = "install" THEN {Built(i)} ELSE {})
           ELSE UNCHANGED <<config, image>>
        /\ IF i \in Requests /\ k.value = "no" THEN Tell(i, "rejected") ELSE UNCHANGED told
        /\ UNCHANGED <<kind, record, shown, pending, taken>>

-----------------------------------------------------------------------------
Next ==
    \/ \E q \in Questions : Ask(q) \/ TakeAnswer(q) \/ TimesOut(q)
    \/ \E r \in Requests : Request(r) \/ NoApprover(r)
    \/ \E i \in Items : DeliverQuestion(i) \/ DeliverRequest(i)
    \/ Posted \/ Delivered \/ PostFails
    \/ \E c \in CardIds, v \in Values : Click(c, v)
    \/ \E k \in clicks :
          \/ Unclaimed(k) \/ Answer(k) \/ Reject(k)
          \/ ApproveInstall(k) \/ ApproveServer(k)
          \/ DiesInHandler(k)
    \/ ContainerDies \/ HostRestart

Spec == Init /\ [][Next]_vars

-----------------------------------------------------------------------------
(* Properties.                                                             *)

\* A card is decided once: however often it is clicked before its buttons go,
\* and whichever of two clicks comes first, one of them finds the pending row
\* (response-handler.ts, interactive/index.ts).  Only a fault in the row's
\* delivery or in the handler can make it two.
DecidedOnce == \A i \in Items : acted[i] > 1 => i \in hit

\* A request is not forgotten: once its row is delivered the agent has been told
\* how it ended, or there is a card an admin can still decide (primitive.ts:
\* requestApproval reports every way in which it cannot ask).
NoRequestIsForgotten ==
    \A r \in Requests :
        record[r] = "delivered" /\ r \notin hit =>
            \/ told[r] # {}
            \/ \E c \in pending : /\ c[1] = r /\ cards[c] # "none"
                                  /\ cards[c] = "open" \/ \E k \in clicks : k.card = c

\* What the agent has been told is installed is installed, and a later build
\* keeps it (apply.ts, container-runner.ts buildAgentGroupImage).
InstalledStays ==
    \A r \in Requests : kind[r] = "install" /\ "applied" \in told[r] => r \in image

=============================================================================
