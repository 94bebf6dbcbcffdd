------------------------- MODULE ByzantineGenerals --------------------------
(***************************************************************************)
(* P4-ByzantineConsensus: the server that keeps every general's messages   *)
(* (server/main.go) and the one client that plays all the generals         *)
(* (client/main.go).  The client registers the generals, sends the         *)
(* commander's order to each lieutenant, exchanges messages between all    *)
(* pairs of generals in rounds 2 to t+1, and asks for the decisions.       *)
(*                                                                         *)
(* The calls of a round are made by goroutines of their own; the client    *)
(* waits for all of them before the next round.  A traitor's messages are  *)
(* altered at random, by the client or by the server: here, either way.    *)
(***************************************************************************)
EXTENDS Integers, FiniteSets

CONSTANTS
    Generals,
    Commander,
    MaxTraitors,        \* flag -t
    Simulations,        \* flags -decision and -commander-traitor of the runs considered
    MaxFailures         \* bound on calls that fail

ASSUME GeneralsAssumption ==
    /\ IsFiniteSet(Generals)
    /\ Commander \in Generals
    /\ MaxTraitors \in Nat /\ MaxFailures \in Nat
    /\ Cardinality(Generals) > 3 * MaxTraitors
    /\ MaxTraitors < 4
    /\ Simulations \subseteq [order : {"ATTACK", "RETREAT"}, commanderTraitor : BOOLEAN]
    /\ \A f \in Simulations : f.commanderTraitor => MaxTraitors > 0

VARIABLES
    order,          \* the commander's initial order
    traitors,       \* the generals drawn as traitors, at most MaxTraitors
    phase,          \* what the client is doing
    round,          \* the round whose calls the client makes
    calls,          \* calls <<from, to>> of the round that are under way
    failures,       \* calls that have failed
    registered,     \* the server's Generals
    maxRounds,      \* the server's MaxRounds
    currentRound,   \* the server's CurrentRound
    messages,       \* the logs of all generals
    response        \* the answers to GetConsensus

vars == <<order, traitors, phase, round, calls, failures, registered, maxRounds,
          currentRound, messages, response>>
clientVars == <<order, traitors, phase, round>>

Decisions   == {"ATTACK", "RETREAT"}
Lieutenants == Generals \ {Commander}
Loyal       == Generals \ traitors

\* A message from one general to another, in the log of general "at": a
\* commander keeps a copy of every order it sends.
Message == [round : Nat, from : Generals, to : Generals, at : Generals, value : Decisions]

NoResponse == [decision |-> "none", reached |-> FALSE, attacks |-> 0]
Response   == [decision : Decisions, reached : BOOLEAN, attacks : Nat]

TypeOK ==
    /\ order \in Decisions
    /\ traitors \in SUBSET Generals
    /\ phase \in {"register", "rounds", "consensus", "done"}
    /\ round \in Nat
    /\ calls \in SUBSET (Generals \X Generals)
    /\ failures \in Nat
    /\ registered \in SUBSET Generals
    /\ maxRounds \in Nat
    /\ currentRound \in Nat
    /\ messages \in SUBSET Message
    /\ response \in [Generals -> Response \cup {NoResponse}]

\* The draw of the traitors among the lieutenants.
Init ==
    /\ \E f \in Simulations :
           /\ order = f.order
           /\ traitors \in {T \in SUBSET Generals : /\ Cardinality(T) <= MaxTraitors
                                                    /\ Commander \in T <=> f.commanderTraitor}
    /\ phase = "register"
    /\ round = 0
    /\ calls = {}
    /\ failures = 0
    /\ registered = {}
    /\ maxRounds = 0
    /\ currentRound = 0
    /\ messages = {}
    /\ response = [g \in Generals |-> NoResponse]

-----------------------------------------------------------------------------
(* Calls served by the server.                                             *)

\* The commander first, then the lieutenants; each traitor adds a round.
RegisterGeneral(g) ==
    /\ phase = "register"
    /\ g \notin registered
    /\ g = Commander \/ Commander \in registered
    /\ registered' = registered \cup {g}
    /\ maxRounds' = Cardinality(registered' \cap traitors) + 1
    /\ UNCHANGED <<clientVars, calls, failures, currentRound, messages, response>>

\* Whose messages may be altered.
MayAlter(g) == g \in traitors

\* What arrives of a value sent by g.
Delivered(g) == {order} \cup IF MayAlter(g) THEN Decisions ELSE {}

SendOrder(l) ==
    /\ phase = "rounds" /\ round = 1
    /\ <<Commander, l>> \in calls
    /\ \E value \in Delivered(Commander) :
           messages' = messages \cup
               {[round |-> 1, from |-> Commander, to |-> l, at |-> Commander, value |-> order],
                [round |-> 1, from |-> Commander, to |-> l, at |-> l, value |-> value]}
    /\ currentRound' = IF currentRound = 0 THEN 1 ELSE currentRound
    /\ calls' = calls \ {<<Commander, l>>}
    /\ UNCHANGED <<clientVars, failures, registered, maxRounds, response>>

\* The client passes on the initial order, not what the sender was told.  A
\* message of an earlier round than the server's is refused.
ExchangeMessage(from, to) ==
    /\ phase = "rounds" /\ round > 1
    /\ <<from, to>> \in calls
    /\ IF round < currentRound
       THEN UNCHANGED <<currentRound, messages>>
       ELSE /\ currentRound' = round
            /\ \E value \in Delivered(from) :
                   messages' = messages \cup
                       {[round |-> round, from |-> from, to |-> to, at |-> to, value |-> value]}
    /\ calls' = calls \ {<<from, to>>}
    /\ UNCHANGED <<clientVars, failures, registered, maxRounds, response>>

\* A call that fails is logged, and the client goes on without it.
CallFails(from, to) ==
    /\ failures < MaxFailures
    /\ <<from, to>> \in calls
    /\ calls' = calls \ {<<from, to>>}
    /\ failures' = failures + 1
    /\ UNCHANGED <<clientVars, registered, maxRounds, currentRound, messages, response>>

\* Mutant of Votes: the last round is left out.
VotesBeforeLast(g, value) ==
    {m \in messages : m.at = g /\ m.round < maxRounds /\ m.value = value}
\* What a general has been told in the rounds the server deems necessary.
Votes(g, value) ==
    {m \in messages : m.at = g /\ m.round <= maxRounds /\ m.value = value}

\* Mutant of Majority: a tie is an attack.
MajorityTieAttacks(attacks, retreats) == IF attacks >= retreats THEN "ATTACK" ELSE "RETREAT"
\* A tie is a retreat.
Majority(attacks, retreats) == IF attacks > retreats THEN "ATTACK" ELSE "RETREAT"

\* makeDecision: a loyal general follows the majority of what it was told; a
\* traitor decides at random.
LoyalDecision(g) == Majority(Cardinality(Votes(g, "ATTACK")), Cardinality(Votes(g, "RETREAT")))
MakeDecision(g)  == IF g \in traitors THEN Decisions ELSE {LoyalDecision(g)}

\* Mutant of LoyalFor: the traitors are counted.
AllFor(decision) == {g \in registered : LoyalDecision(g) = decision}
LoyalFor(decision) == {g \in registered \ traitors : LoyalDecision(g) = decision}

\* The vote counts include a fresh random decision of every traitor.
GetConsensus(g) ==
    LET loyalAttacks == Cardinality(LoyalFor("ATTACK"))
        consensus    == Majority(loyalAttacks, Cardinality(LoyalFor("RETREAT")))
    IN /\ phase = "consensus"
       /\ response[g] = NoResponse
       /\ \E decision \in MakeDecision(g), betrayals \in 0 .. Cardinality(traitors) :
              response' = [response EXCEPT ![g] =
                  [decision |-> decision,
                   reached  |-> LoyalFor(consensus) = registered \ traitors,
                   attacks  |-> loyalAttacks + betrayals]]
       /\ UNCHANGED <<clientVars, calls, failures, registered, maxRounds, currentRound, messages>>

-----------------------------------------------------------------------------
(* The client.                                                             *)

Pairs == {p \in Generals \X Generals : p[1] # p[2]}

StartOrders ==
    /\ phase = "register"
    /\ registered = Generals
    /\ phase' = "rounds"
    /\ round' = 1
    /\ calls' = {Commander} \X Lieutenants
    /\ UNCHANGED <<order, traitors, failures, registered, maxRounds, currentRound, messages,
                   response>>

StartRound ==
    /\ phase = "rounds"
    /\ calls = {}
    /\ round <= MaxTraitors
    /\ round' = round + 1
    /\ calls' = Pairs
    /\ UNCHANGED <<order, traitors, phase, failures, registered, maxRounds, currentRound,
                   messages, response>>

StartConsensus ==
    /\ phase = "rounds"
    /\ calls = {}
    /\ round > MaxTraitors
    /\ phase' = "consensus"
    /\ UNCHANGED <<order, traitors, round, calls, failures, registered, maxRounds,
                   currentRound, messages, response>>

Finish ==
    /\ phase = "consensus"
    /\ \A g \in Generals : response[g] # NoResponse
    /\ phase' = "done"
    /\ UNCHANGED <<order, traitors, round, calls, failures, registered, maxRounds,
                   currentRound, messages, response>>

\* The client exits.
Exited == phase = "done" /\ UNCHANGED vars

Next ==
    \/ \E g \in Generals : RegisterGeneral(g) \/ GetConsensus(g)
    \/ \E l \in Lieutenants : SendOrder(l)
    \/ \E from, to \in Generals : ExchangeMessage(from, to) \/ CallFails(from, to)
    \/ StartOrders \/ StartRound \/ StartConsensus \/ Finish \/ Exited

Spec == Init /\ [][Next]_vars

-----------------------------------------------------------------------------
(* Properties.                                                             *)

Answered(g) == response[g] # NoResponse

\* Safety of the protocol: loyal generals that have decided decided alike, as
\* long as no call has failed.
Agreement ==
    failures = 0 =>
        \A g, h \in Loyal :
            Answered(g) /\ Answered(h) => response[g].decision = response[h].decision

\* Validity: under a loyal commander every loyal general follows its order, as
\* long as no call has failed.
Validity ==
    failures = 0 /\ Commander \notin traitors =>
        \A g \in Loyal : Answered(g) => response[g].decision = order

\* The client reports the outcome of the first answer it gets; it is the truth
\* about all of them, whatever failed: "consensus reached" exactly when no two
\* loyal decisions differ.
ReportIsTrue ==
    phase = "done" =>
        \A g \in Generals :
            response[g].reached <=> \E d \in Decisions : \A h \in Loyal : response[h].decision = d
=============================================================================
