----------------------- MODULE ByzantineGenerals_proofs -----------------------
(***************************************************************************)
(* The Byzantine generals, proved for any number of generals: the report   *)
(* is true, a loyal commander is obeyed, and the loyal generals agree, of  *)
(* which the second needs a lieutenant and the third a fifth general or a  *)
(* traitorous commander that orders a retreat.                             *)
(***************************************************************************)
EXTENDS ByzantineGenerals, FiniteSetTheorems, TLAPS

-----------------------------------------------------------------------------
(* The invariant.                                                          *)

\* The draw of the traitors.
Drawn ==
    /\ order \in Decisions
    /\ traitors \in SUBSET Generals
    /\ Cardinality(traitors) <= MaxTraitors
    /\ \E f \in Simulations : f.order = order /\ (f.commanderTraitor <=> Commander \in traitors)

\* How far the simulation is.
Progress ==
    /\ phase \in {"register", "rounds", "consensus", "done"}
    /\ round \in 0 .. MaxTraitors + 1
    /\ calls \in SUBSET Pairs
    /\ failures \in Nat
    /\ registered \in SUBSET Generals
    /\ maxRounds \in Nat
    /\ currentRound \in 0 .. round
    /\ phase = "register" => /\ round = 0 /\ calls = {} /\ messages = {}
                             /\ registered # {} =>
                                    maxRounds = Cardinality(registered \cap traitors) + 1
    /\ phase # "register" => /\ round >= 1 /\ registered = Generals
                             /\ maxRounds = Cardinality(traitors) + 1
    /\ round = 1 => \A p \in calls : p[1] = Commander
    /\ phase \in {"consensus", "done"} => calls = {} /\ round = MaxTraitors + 1

\* What the logs hold: orders of round 1 and the copies of them, messages of the
\* later rounds, and no lie but a traitor's; nothing of a call still under way.
Logs ==
    /\ IsFiniteSet(messages)
    /\ messages \in SUBSET Message
    /\ \A m \in messages :
          /\ 1 <= m.round /\ m.round <= round
          /\ m.round = 1 => m.from = Commander /\ m.to # Commander /\ m.at \in {Commander, m.to}
          /\ m.round # 1 => m.at = m.to /\ m.from # m.to
          /\ m.at = m.from \/ m.from \notin traitors => m.value = order
          /\ m.round = round => <<m.from, m.to>> \notin calls

\* No call leaves two messages in one log.
Once ==
    \A m, o \in messages :
        m.round = o.round /\ m.from = o.from /\ m.to = o.to /\ m.at = o.at => m = o

\* As long as no call failed, every call that was made has left its message.
Arrived ==
    failures = 0 =>
        /\ \A l \in Lieutenants :
              round > 1 \/ (round = 1 /\ <<Commander, l>> \notin calls) =>
                  \A a \in {Commander, l} :
                      \E m \in messages : m.round = 1 /\ m.from = Commander /\ m.to = l /\ m.at = a
        /\ \A r \in 2 .. round, p \in Pairs :
              r < round \/ p \notin calls =>
                  \E m \in messages : m.round = r /\ m.from = p[1] /\ m.to = p[2]

\* The loyal generals all decide alike, as GetConsensus finds out.
LoyalAgree ==
    LoyalFor(Majority(Cardinality(LoyalFor("ATTACK")), Cardinality(LoyalFor("RETREAT")))) = Loyal

\* An answer is the decision of its general, and says whether the loyal ones agree.
Answers ==
    /\ response \in [Generals -> Response \cup {NoResponse}]
    /\ \A g \in Generals : Answered(g) =>
          /\ phase \in {"consensus", "done"}
          /\ response[g].decision \in MakeDecision(g)
          /\ response[g].reached <=> LoyalAgree
    /\ phase = "done" => \A g \in Generals : Answered(g)

GeneralsInv == Drawn /\ Progress /\ Logs /\ Once /\ Arrived /\ Answers
-----------------------------------------------------------------------------
(* Every step keeps the invariant.                                         *)

LEMMA Sizes ==
    /\ IsFiniteSet(Generals) /\ Cardinality(Generals) \in Nat
    /\ MaxTraitors \in Nat /\ MaxTraitors < 4 /\ Cardinality(Generals) > 3 * MaxTraitors
    /\ Commander \in Generals
BY GeneralsAssumption, FS_CardinalityType

LEMMA SomeTraitors ==
    ASSUME Drawn
    PROVE  /\ IsFiniteSet(traitors) /\ Cardinality(traitors) \in 0 .. MaxTraitors
           /\ \A S : IsFiniteSet(S \cap traitors) /\ Cardinality(S \cap traitors) \in Nat
<1>1. IsFiniteSet(traitors)
  BY Sizes, FS_Subset DEF Drawn
<1>2. Cardinality(traitors) \in Nat
  BY <1>1, FS_CardinalityType
<1>3. ASSUME NEW S PROVE IsFiniteSet(S \cap traitors) /\ Cardinality(S \cap traitors) \in Nat
  BY <1>1, FS_Intersection, FS_CardinalityType
<1> QED BY <1>1, <1>2, <1>3, Sizes DEF Drawn

LEMMA DrawnStep ==
    ASSUME Drawn, [Next]_vars
    PROVE  Drawn'
<1>1. UNCHANGED <<order, traitors>>
  BY DEF Next, RegisterGeneral, SendOrder, ExchangeMessage, CallFails, GetConsensus, StartOrders,
     StartRound, StartConsensus, Finish, Exited, vars, clientVars
<1> QED BY <1>1 DEF Drawn

LEMMA ProgressStep ==
    ASSUME Drawn, Progress, [Next]_vars
    PROVE  Progress'
<1>1. ASSUME NEW g \in Generals, RegisterGeneral(g) PROVE Progress'
  <2>1. maxRounds' = Cardinality(registered' \cap traitors) + 1 /\ maxRounds' \in Nat
    BY <1>1, SomeTraitors DEF RegisterGeneral
  <2> QED BY <1>1, <2>1 DEF RegisterGeneral, clientVars, Progress
<1>2. ASSUME NEW l \in Lieutenants, SendOrder(l) PROVE Progress'
  BY <1>2, Sizes DEF SendOrder, clientVars, Progress
<1>3. ASSUME NEW a \in Generals, NEW b \in Generals, ExchangeMessage(a, b) PROVE Progress'
  BY <1>3, Sizes DEF ExchangeMessage, clientVars, Progress
<1>4. ASSUME NEW a \in Generals, NEW b \in Generals, CallFails(a, b) PROVE Progress'
  BY <1>4, Sizes DEF CallFails, clientVars, Progress
<1>5. ASSUME NEW g \in Generals, GetConsensus(g) PROVE Progress'
  BY <1>5, Sizes DEF GetConsensus, clientVars, Progress
<1>6. ASSUME StartOrders PROVE Progress'
  <2>1. Generals \cap traitors = traitors /\ registered # {}
    BY <1>6, Sizes DEF StartOrders, Drawn
  <2>2. {Commander} \X Lieutenants \subseteq Pairs
    BY Sizes DEF Pairs, Lieutenants
  <2>3. \A p \in {Commander} \X Lieutenants : p[1] = Commander
    OBVIOUS
  <2>4. 1 \in 0 .. MaxTraitors + 1 /\ currentRound \in 0 .. 1
    BY <1>6, Sizes DEF StartOrders, Progress
  <2> QED BY <1>6, <2>1, <2>2, <2>3, <2>4 DEF StartOrders, Progress
<1>7. ASSUME StartRound PROVE Progress'
  BY <1>7, Sizes DEF StartRound, Progress, Pairs
<1>8. ASSUME StartConsensus PROVE Progress'
  BY <1>8, Sizes DEF StartConsensus, Progress
<1>9. ASSUME Finish PROVE Progress'
  BY <1>9, Sizes DEF Finish, Progress
<1>10. ASSUME Exited PROVE Progress'
  BY <1>10, Sizes DEF Exited, vars, Progress
<1>11. ASSUME UNCHANGED vars PROVE Progress'
  BY <1>11, Sizes DEF Progress, vars
<1> QED
  BY <1>1, <1>2, <1>3, <1>4, <1>5, <1>6, <1>7, <1>8, <1>9, <1>10, <1>11 DEF Next

LEMMA LogsStep ==
    ASSUME Drawn, Progress, Logs, [Next]_vars
    PROVE  Logs'
<1>1. ASSUME NEW g \in Generals, RegisterGeneral(g) PROVE Logs'
  BY <1>1 DEF RegisterGeneral, clientVars, Logs, Progress
<1>2. ASSUME NEW l \in Lieutenants, SendOrder(l) PROVE Logs'
  <2> PICK value \in Delivered(Commander) :
           messages' = messages \cup
               {[round |-> 1, from |-> Commander, to |-> l, at |-> Commander, value |-> order],
                [round |-> 1, from |-> Commander, to |-> l, at |-> l, value |-> value]}
    BY <1>2 DEF SendOrder
  <2> DEFINE copy == [round |-> 1, from |-> Commander, to |-> l, at |-> Commander,
                      value |-> order]
             sent == [round |-> 1, from |-> Commander, to |-> l, at |-> l, value |-> value]
  <2>1. /\ round = 1 /\ UNCHANGED <<order, traitors, round>>
        /\ calls' = calls \ {<<Commander, l>>}
    BY <1>2 DEF SendOrder, clientVars
  <2>2. value \in Decisions /\ (Commander \notin traitors => value = order)
    BY DEF Delivered, MayAlter, Drawn
  <2>3. l \in Generals /\ l # Commander /\ order \in Decisions
    BY DEF Lieutenants, Drawn
  <2>4. copy \in Message /\ sent \in Message
    BY <2>2, <2>3, Sizes DEF Message
  <2>5. IsFiniteSet(messages')
    <3>1. messages' = (messages \cup {copy}) \cup {sent}
      OBVIOUS
    <3>2. IsFiniteSet(messages \cup {copy})
      BY FS_AddElement DEF Logs
    <3> HIDE DEF copy, sent
    <3> QED BY <3>1, <3>2, FS_AddElement
  <2>6. ASSUME NEW m \in messages'
        PROVE  /\ 1 <= m.round /\ m.round <= round
               /\ m.round = 1 => /\ m.from = Commander /\ m.to # Commander
                                  /\ m.at \in {Commander, m.to}
               /\ m.round # 1 => m.at = m.to /\ m.from # m.to
               /\ m.at = m.from \/ m.from \notin traitors => m.value = order
               /\ m.round = round => <<m.from, m.to>> \notin calls'
    <3>1. CASE m \in messages
      BY <2>1, <3>1 DEF Logs
    <3>2. CASE m = copy
      BY <2>1, <2>3, <3>2
    <3>3. CASE m = sent
      BY <2>1, <2>2, <2>3, <3>3
    <3> QED BY <3>1, <3>2, <3>3
  <2>7. messages' \in SUBSET Message
    BY <2>4 DEF Logs
  <2> QED BY <2>1, <2>5, <2>6, <2>7 DEF Logs
<1>3. ASSUME NEW a \in Generals, NEW b \in Generals, ExchangeMessage(a, b) PROVE Logs'
  <2>1. /\ round > 1 /\ UNCHANGED <<order, traitors, round>>
        /\ calls' = calls \ {<<a, b>>} /\ <<a, b>> \in calls
    BY <1>3 DEF ExchangeMessage, clientVars
  <2>2. CASE UNCHANGED messages
    BY <2>1, <2>2 DEF Logs
  <2>3. ASSUME NEW value \in Delivered(a),
               messages' = messages \cup
                   {[round |-> round, from |-> a, to |-> b, at |-> b, value |-> value]}
        PROVE  Logs'
    <3> DEFINE sent == [round |-> round, from |-> a, to |-> b, at |-> b, value |-> value]
    <3>1. a # b /\ round \in Nat
      BY <2>1, Sizes DEF Progress, Pairs
    <3>2. value \in Decisions /\ (a \notin traitors => value = order)
      BY DEF Delivered, MayAlter, Drawn
    <3>3. IsFiniteSet(messages') /\ messages' \in SUBSET Message
      <4>1. sent \in Message
        BY <3>1, <3>2 DEF Message
      <4>2. messages' = messages \cup {sent}
        BY <2>3
      <4> HIDE DEF sent
      <4> QED BY <4>1, <4>2, FS_AddElement DEF Logs
    <3>4. ASSUME NEW m \in messages'
          PROVE  /\ 1 <= m.round /\ m.round <= round
                 /\ m.round = 1 => /\ m.from = Commander /\ m.to # Commander
                                    /\ m.at \in {Commander, m.to}
                 /\ m.round # 1 => m.at = m.to /\ m.from # m.to
                 /\ m.at = m.from \/ m.from \notin traitors => m.value = order
                 /\ m.round = round => <<m.from, m.to>> \notin calls'
      <4>1. CASE m \in messages
        BY <2>1, <4>1 DEF Logs
      <4>2. CASE m = sent
        BY <2>1, <3>1, <3>2, <4>2
      <4> QED BY <2>3, <4>1, <4>2
    <3> QED BY <2>1, <3>3, <3>4 DEF Logs
  <2> QED BY <1>3, <2>2, <2>3 DEF ExchangeMessage
<1>4. ASSUME NEW a \in Generals, NEW b \in Generals, CallFails(a, b) PROVE Logs'
  BY <1>4 DEF CallFails, clientVars, Logs, Progress
<1>5. ASSUME NEW g \in Generals, GetConsensus(g) PROVE Logs'
  BY <1>5 DEF GetConsensus, clientVars, Logs, Progress
<1>6. ASSUME StartOrders PROVE Logs'
  BY <1>6 DEF StartOrders, Logs, Progress
<1>7. ASSUME StartRound PROVE Logs'
  <2>1. UNCHANGED <<order, traitors, messages>> /\ round' = round + 1 /\ round \in Nat
    BY <1>7, Sizes DEF StartRound, Progress
  <2>2. \A m \in messages : m.round \in Nat /\ m.round <= round
    BY DEF Logs, Message
  <2> QED BY <2>1, <2>2 DEF Logs
<1>8. ASSUME StartConsensus PROVE Logs'
  BY <1>8 DEF StartConsensus, Logs, Progress
<1>9. ASSUME Finish PROVE Logs'
  BY <1>9 DEF Finish, Logs, Progress
<1>10. ASSUME Exited PROVE Logs'
  BY <1>10 DEF Exited, vars, Logs, Progress
<1>11. ASSUME UNCHANGED vars PROVE Logs'
  BY <1>11 DEF Logs, Progress, vars
<1> QED
  BY <1>1, <1>2, <1>3, <1>4, <1>5, <1>6, <1>7, <1>8, <1>9, <1>10, <1>11 DEF Next

LEMMA OnceStep ==
    ASSUME Progress, Logs, Once, [Next]_vars
    PROVE  Once'
<1>1. ASSUME NEW g \in Generals, RegisterGeneral(g) PROVE Once'
  BY <1>1 DEF RegisterGeneral, clientVars, Once
<1>2. ASSUME NEW l \in Lieutenants, SendOrder(l) PROVE Once'
  <2> PICK value \in Delivered(Commander) :
           messages' = messages \cup
               {[round |-> 1, from |-> Commander, to |-> l, at |-> Commander, value |-> order],
                [round |-> 1, from |-> Commander, to |-> l, at |-> l, value |-> value]}
    BY <1>2 DEF SendOrder
  <2>1. ASSUME NEW m \in messages PROVE ~(m.round = 1 /\ m.from = Commander /\ m.to = l)
    BY <1>2 DEF SendOrder, Logs
  <2>2. l # Commander
    BY DEF Lieutenants
  <2> QED BY <2>1, <2>2 DEF Once
<1>3. ASSUME NEW a \in Generals, NEW b \in Generals, ExchangeMessage(a, b) PROVE Once'
  <2>1. CASE UNCHANGED messages
    BY <2>1 DEF Once
  <2>2. ASSUME NEW value \in Delivered(a),
               messages' = messages \cup
                   {[round |-> round, from |-> a, to |-> b, at |-> b, value |-> value]}
        PROVE  Once'
    <3>1. ASSUME NEW m \in messages PROVE ~(m.round = round /\ m.from = a /\ m.to = b)
      BY <1>3 DEF ExchangeMessage, Logs
    <3> QED BY <2>2, <3>1 DEF Once
  <2> QED BY <1>3, <2>1, <2>2 DEF ExchangeMessage
<1>4. ASSUME NEW a \in Generals, NEW b \in Generals, CallFails(a, b) PROVE Once'
  BY <1>4 DEF CallFails, clientVars, Once
<1>5. ASSUME NEW g \in Generals, GetConsensus(g) PROVE Once'
  BY <1>5 DEF GetConsensus, clientVars, Once
<1>6. ASSUME StartOrders PROVE Once'
  BY <1>6 DEF StartOrders, Once
<1>7. ASSUME StartRound PROVE Once'
  BY <1>7 DEF StartRound, Once
<1>8. ASSUME StartConsensus PROVE Once'
  BY <1>8 DEF StartConsensus, Once
<1>9. ASSUME Finish PROVE Once'
  BY <1>9 DEF Finish, Once
<1>10. ASSUME Exited PROVE Once'
  BY <1>10 DEF Exited, vars, Once
<1>11. ASSUME UNCHANGED vars PROVE Once'
  BY <1>11 DEF Once, vars
<1> QED
  BY <1>1, <1>2, <1>3, <1>4, <1>5, <1>6, <1>7, <1>8, <1>9, <1>10, <1>11 DEF Next

LEMMA ArrivedStep ==
    ASSUME Drawn, Progress, Logs, Arrived, [Next]_vars
    PROVE  Arrived'
<1>1. ASSUME NEW g \in Generals, RegisterGeneral(g) PROVE Arrived'
  BY <1>1 DEF RegisterGeneral, clientVars, Arrived, Progress
<1>2. ASSUME NEW l \in Lieutenants, SendOrder(l) PROVE Arrived'
  <2> PICK value \in Delivered(Commander) :
           messages' = messages \cup
               {[round |-> 1, from |-> Commander, to |-> l, at |-> Commander, value |-> order],
                [round |-> 1, from |-> Commander, to |-> l, at |-> l, value |-> value]}
    BY <1>2 DEF SendOrder
  <2>1. /\ round = 1 /\ UNCHANGED <<failures, round>>
        /\ calls' = calls \ {<<Commander, l>>} /\ messages \subseteq messages'
    BY <1>2 DEF SendOrder, clientVars
  <2>2. \A a \in {Commander, l} :
            \E m \in messages' : m.round = 1 /\ m.from = Commander /\ m.to = l /\ m.at = a
    <3> DEFINE copy == [round |-> 1, from |-> Commander, to |-> l, at |-> Commander,
                        value |-> order]
               sent == [round |-> 1, from |-> Commander, to |-> l, at |-> l, value |-> value]
    <3>1. /\ copy.round = 1 /\ copy.from = Commander /\ copy.to = l /\ copy.at = Commander
          /\ sent.round = 1 /\ sent.from = Commander /\ sent.to = l /\ sent.at = l
      OBVIOUS
    <3>2. copy \in messages' /\ sent \in messages'
      OBVIOUS
    <3> QED BY <3>1, <3>2
  <2>3. ASSUME failures = 0, NEW k \in Lieutenants, <<Commander, k>> \notin calls',
               NEW a \in {Commander, k}
        PROVE  \E m \in messages' : m.round = 1 /\ m.from = Commander /\ m.to = k /\ m.at = a
    <3>1. CASE k = l
      BY <2>2, <3>1
    <3>2. CASE k # l
      <4>1. <<Commander, k>> \notin calls
        BY <2>1, <2>3, <3>2
      <4>2. \E m \in messages : m.round = 1 /\ m.from = Commander /\ m.to = k /\ m.at = a
        BY <2>1, <2>3, <4>1 DEF Arrived
      <4> QED BY <2>1, <4>2
    <3> QED BY <3>1, <3>2
  <2>4. 2 .. round' = {}
    BY <2>1
  <2> QED BY <2>1, <2>3, <2>4 DEF Arrived
<1>3. ASSUME NEW a \in Generals, NEW b \in Generals, ExchangeMessage(a, b) PROVE Arrived'
  <2>1. /\ round > 1 /\ currentRound <= round /\ round \in Nat /\ UNCHANGED <<failures, round>>
        /\ <<a, b>> \in calls /\ calls' = calls \ {<<a, b>>}
    BY <1>3, Sizes DEF ExchangeMessage, clientVars, Progress
  <2>2. PICK value \in Delivered(a) :
            messages' = messages \cup
                {[round |-> round, from |-> a, to |-> b, at |-> b, value |-> value]}
    BY <1>3, <2>1 DEF ExchangeMessage, Progress
  <2>3. messages \subseteq messages'
    BY <2>2
  <2>4. ASSUME failures = 0, NEW r \in 2 .. round, NEW p \in Pairs, r < round \/ p \notin calls'
        PROVE  \E m \in messages' : m.round = r /\ m.from = p[1] /\ m.to = p[2]
    <3>1. CASE r = round /\ p = <<a, b>>
      <4> DEFINE sent == [round |-> round, from |-> a, to |-> b, at |-> b, value |-> value]
      <4>1. sent.round = round /\ sent.from = a /\ sent.to = b /\ sent \in messages'
        BY <2>2
      <4> QED BY <3>1, <4>1
    <3>2. CASE ~(r = round /\ p = <<a, b>>)
      <4>1. r < round \/ p \notin calls
        BY <2>1, <2>4, <3>2
      <4>2. \E m \in messages : m.round = r /\ m.from = p[1] /\ m.to = p[2]
        BY <2>4, <4>1 DEF Arrived
      <4> QED BY <2>3, <4>2
    <3> QED BY <3>1, <3>2
  <2>5. ASSUME failures = 0, NEW k \in Lieutenants, NEW c \in {Commander, k}
        PROVE  \E m \in messages' : m.round = 1 /\ m.from = Commander /\ m.to = k /\ m.at = c
    <3>1. \E m \in messages : m.round = 1 /\ m.from = Commander /\ m.to = k /\ m.at = c
      BY <2>1, <2>5 DEF Arrived
    <3> QED BY <2>3, <3>1
  <2> QED BY <2>1, <2>4, <2>5 DEF Arrived
<1>4. ASSUME NEW a \in Generals, NEW b \in Generals, CallFails(a, b) PROVE Arrived'
  BY <1>4 DEF CallFails, clientVars, Arrived, Progress
<1>5. ASSUME NEW g \in Generals, GetConsensus(g) PROVE Arrived'
  BY <1>5 DEF GetConsensus, clientVars, Arrived
<1>6. ASSUME StartOrders PROVE Arrived'
  <2>1. round' = 1 /\ calls' = {Commander} \X Lieutenants
    BY <1>6 DEF StartOrders
  <2>2. 2 .. round' = {}
    BY <2>1
  <2> QED BY <2>1, <2>2 DEF Arrived
<1>7. ASSUME StartRound PROVE Arrived'
  <2>1. /\ round' = round + 1 /\ calls' = Pairs /\ calls = {} /\ UNCHANGED <<failures, messages>>
        /\ round \in Nat /\ round >= 1
    BY <1>7, Sizes DEF StartRound, Progress
  <2>2. ASSUME failures = 0, NEW r \in 2 .. round', NEW p \in Pairs, r < round' \/ p \notin calls'
        PROVE  \E m \in messages : m.round = r /\ m.from = p[1] /\ m.to = p[2]
    <3>1. r \in 2 .. round /\ p \notin calls
      BY <2>1, <2>2
    <3> QED BY <2>2, <3>1 DEF Arrived
  <2>3. ASSUME failures = 0, NEW k \in Lieutenants, NEW c \in {Commander, k}
        PROVE  \E m \in messages : m.round = 1 /\ m.from = Commander /\ m.to = k /\ m.at = c
    BY <2>1, <2>3 DEF Arrived
  <2> QED BY <2>1, <2>2, <2>3 DEF Arrived
<1>8. ASSUME StartConsensus PROVE Arrived'
  BY <1>8 DEF StartConsensus, Arrived
<1>9. ASSUME Finish PROVE Arrived'
  BY <1>9 DEF Finish, Arrived
<1>10. ASSUME Exited PROVE Arrived'
  BY <1>10 DEF Exited, vars, Arrived
<1>11. ASSUME UNCHANGED vars PROVE Arrived'
  BY <1>11 DEF Arrived, vars
<1> QED
  BY <1>1, <1>2, <1>3, <1>4, <1>5, <1>6, <1>7, <1>8, <1>9, <1>10, <1>11 DEF Next

\* The decisions follow from the logs.
LEMMA SameLogs ==
    ASSUME UNCHANGED <<traitors, registered, maxRounds, messages>>
    PROVE  /\ LoyalAgree' <=> LoyalAgree
           /\ \A g \in Generals : MakeDecision(g)' = MakeDecision(g)
<1>1. \A g : LoyalDecision(g)' = LoyalDecision(g)
  BY DEF LoyalDecision, Votes
<1>2. \A g \in Generals : MakeDecision(g)' = MakeDecision(g)
  BY <1>1 DEF MakeDecision
<1>3. \A d : LoyalFor(d)' = LoyalFor(d)
  BY <1>1 DEF LoyalFor
<1>4. LoyalAgree' <=> LoyalAgree
  BY <1>3 DEF LoyalAgree, Loyal
<1> QED BY <1>2, <1>4

LEMMA NobodyAnswered ==
    ASSUME Answers, phase \notin {"consensus", "done"}
    PROVE  \A g \in Generals : ~Answered(g)
BY DEF Answers

LEMMA VotesAreFinite ==
    ASSUME Drawn, Progress, Logs
    PROVE  /\ \A g, value : IsFiniteSet(Votes(g, value)) /\ Cardinality(Votes(g, value)) \in Nat
           /\ \A g \in Generals : /\ LoyalDecision(g) \in Decisions
                                  /\ MakeDecision(g) \subseteq Decisions
           /\ \A d : Cardinality(LoyalFor(d)) \in Nat /\ IsFiniteSet(LoyalFor(d))
<1>1. ASSUME NEW g, NEW value
      PROVE  IsFiniteSet(Votes(g, value)) /\ Cardinality(Votes(g, value)) \in Nat
  <2>1. Votes(g, value) \subseteq messages /\ IsFiniteSet(messages)
    BY DEF Votes, Logs
  <2> QED BY <2>1, FS_Subset, FS_CardinalityType
<1>2. \A g \in Generals : LoyalDecision(g) \in Decisions /\ MakeDecision(g) \subseteq Decisions
  BY DEF LoyalDecision, MakeDecision, Majority, Decisions
<1>3. ASSUME NEW d PROVE Cardinality(LoyalFor(d)) \in Nat /\ IsFiniteSet(LoyalFor(d))
  <2>1. LoyalFor(d) \subseteq Generals
    BY DEF LoyalFor, Progress
  <2> QED BY <2>1, Sizes, FS_Subset, FS_CardinalityType
<1> QED BY <1>1, <1>2, <1>3

LEMMA AnswersStep ==
    ASSUME Drawn, Progress, Logs, Answers, [Next]_vars
    PROVE  Answers'
<1>1. ASSUME NEW g \in Generals, RegisterGeneral(g) PROVE Answers'
  <2>1. phase \notin {"consensus", "done"} /\ UNCHANGED response /\ phase' # "done"
    BY <1>1 DEF RegisterGeneral, clientVars
  <2> QED BY <2>1, NobodyAnswered DEF Answers, Answered
<1>2. ASSUME NEW l \in Lieutenants, SendOrder(l) PROVE Answers'
  <2>1. phase \notin {"consensus", "done"} /\ UNCHANGED response /\ phase' # "done"
    BY <1>2 DEF SendOrder, clientVars
  <2> QED BY <2>1, NobodyAnswered DEF Answers, Answered
<1>3. ASSUME NEW a \in Generals, NEW b \in Generals, ExchangeMessage(a, b) PROVE Answers'
  <2>1. phase \notin {"consensus", "done"} /\ UNCHANGED response /\ phase' # "done"
    BY <1>3 DEF ExchangeMessage, clientVars
  <2> QED BY <2>1, NobodyAnswered DEF Answers, Answered
<1>4. ASSUME NEW a \in Generals, NEW b \in Generals, CallFails(a, b) PROVE Answers'
  <2>1. phase \notin {"consensus", "done"} /\ UNCHANGED response /\ phase' # "done"
    BY <1>4 DEF CallFails, clientVars, Progress
  <2> QED BY <2>1, NobodyAnswered DEF Answers, Answered
<1>5. ASSUME NEW g \in Generals, GetConsensus(g) PROVE Answers'
  <2> DEFINE attacks   == Cardinality(LoyalFor("ATTACK"))
             consensus == Majority(attacks, Cardinality(LoyalFor("RETREAT")))
             unanimous == LoyalFor(consensus) = registered \ traitors
  <2>1. PICK decision \in MakeDecision(g), betrayals \in 0 .. Cardinality(traitors) :
            response' = [response EXCEPT ![g] = [decision |-> decision, reached |-> unanimous,
                                                 attacks |-> attacks + betrayals]]
    BY <1>5 DEF GetConsensus
  <2>2. unanimous <=> LoyalAgree
    BY <1>5 DEF GetConsensus, Progress, LoyalAgree, Loyal
  <2>3. decision \in Decisions /\ attacks + betrayals \in Nat
    BY VotesAreFinite, SomeTraitors, Sizes
  <2>4. unanimous \in BOOLEAN
    OBVIOUS
  <2>5. phase = "consensus" /\ UNCHANGED phase
    BY <1>5 DEF GetConsensus, clientVars
  <2>6. LoyalAgree' <=> LoyalAgree
    BY <1>5, SameLogs DEF GetConsensus, clientVars
  <2>7. \A h \in Generals : MakeDecision(h)' = MakeDecision(h)
    BY <1>5, SameLogs DEF GetConsensus, clientVars
  <2> HIDE DEF attacks, unanimous
  <2>8. /\ response' \in [Generals -> Response \cup {NoResponse}]
        /\ response'[g].decision = decision /\ (response'[g].reached <=> unanimous)
        /\ \A h \in Generals \ {g} : response'[h] = response[h]
    <3> DEFINE rec == [decision |-> decision, reached |-> unanimous,
                       attacks |-> attacks + betrayals]
    <3>1. rec \in Response
      BY <2>3, <2>4 DEF Response
    <3>2. rec.decision = decision
      OBVIOUS
    <3>3. rec.reached <=> unanimous
      OBVIOUS
    <3> HIDE DEF rec
    <3>4. /\ response' = [response EXCEPT ![g] = rec]
          /\ response \in [Generals -> Response \cup {NoResponse}]
      BY <2>1 DEF rec, Answers
    <3>5. /\ response' \in [Generals -> Response \cup {NoResponse}] /\ response'[g] = rec
          /\ \A h \in Generals \ {g} : response'[h] = response[h]
      BY <3>1, <3>4
    <3> QED BY <3>2, <3>3, <3>5
  <2>9. ASSUME NEW h \in Generals, Answered(h)'
        PROVE  response'[h].decision \in MakeDecision(h)' /\ (response'[h].reached <=> LoyalAgree')
    <3>1. CASE h = g
      BY <2>2, <2>6, <2>7, <2>8, <3>1
    <3>2. CASE h # g
      <4>1. Answered(h) /\ response'[h] = response[h]
        BY <2>8, <2>9, <3>2 DEF Answered
      <4> QED BY <2>6, <2>7, <4>1 DEF Answers
    <3> QED BY <3>1, <3>2
  <2> QED BY <2>5, <2>8, <2>9 DEF Answers
<1>6. ASSUME StartOrders PROVE Answers'
  <2>1. phase \notin {"consensus", "done"} /\ UNCHANGED response /\ phase' # "done"
    BY <1>6 DEF StartOrders
  <2> QED BY <2>1, NobodyAnswered DEF Answers, Answered
<1>7. ASSUME StartRound PROVE Answers'
  <2>1. phase \notin {"consensus", "done"} /\ UNCHANGED response /\ phase' # "done"
    BY <1>7 DEF StartRound
  <2> QED BY <2>1, NobodyAnswered DEF Answers, Answered
<1>8. ASSUME StartConsensus PROVE Answers'
  <2>1. phase \notin {"consensus", "done"} /\ UNCHANGED response /\ phase' # "done"
    BY <1>8 DEF StartConsensus
  <2> QED BY <2>1, NobodyAnswered DEF Answers, Answered
<1>9. ASSUME Finish PROVE Answers'
  <2>1. LoyalAgree' <=> LoyalAgree
    BY <1>9, SameLogs DEF Finish
  <2>2. \A h \in Generals : MakeDecision(h)' = MakeDecision(h)
    BY <1>9, SameLogs DEF Finish
  <2>3. UNCHANGED response /\ (phase' = phase \/ (phase = "consensus" /\ phase' = "done"))
        /\ (phase' = "done" /\ phase # "done" => \A h \in Generals : Answered(h))
    BY <1>9 DEF Finish, Answered
  <2> QED BY <2>1, <2>2, <2>3 DEF Answers, Answered
<1>10. ASSUME Exited PROVE Answers'
  <2>1. LoyalAgree' <=> LoyalAgree
    BY <1>10, SameLogs DEF Exited, vars
  <2>2. \A h \in Generals : MakeDecision(h)' = MakeDecision(h)
    BY <1>10, SameLogs DEF Exited, vars
  <2>3. UNCHANGED response /\ (phase' = phase \/ (phase = "consensus" /\ phase' = "done"))
        /\ (phase' = "done" /\ phase # "done" => \A h \in Generals : Answered(h))
    BY <1>10 DEF Exited, vars
  <2> QED BY <2>1, <2>2, <2>3 DEF Answers, Answered
<1>11. ASSUME UNCHANGED vars PROVE Answers'
  <2>1. LoyalAgree' <=> LoyalAgree
    BY <1>11, SameLogs DEF vars
  <2>2. \A h \in Generals : MakeDecision(h)' = MakeDecision(h)
    BY <1>11, SameLogs DEF vars
  <2>3. UNCHANGED response /\ (phase' = phase \/ (phase = "consensus" /\ phase' = "done"))
        /\ (phase' = "done" /\ phase # "done" => \A h \in Generals : Answered(h))
    BY <1>11 DEF vars
  <2> QED BY <2>1, <2>2, <2>3 DEF Answers, Answered
<1> QED
  BY <1>1, <1>2, <1>3, <1>4, <1>5, <1>6, <1>7, <1>8, <1>9, <1>10, <1>11 DEF Next

LEMMA GeneralsInit == Init => GeneralsInv
<1> SUFFICES ASSUME Init PROVE GeneralsInv
  OBVIOUS
<1>1. Drawn
  BY GeneralsAssumption DEF Init, Drawn, Decisions
<1>2. Progress
  BY Sizes DEF Init, Progress
<1>3. Logs /\ Once
  BY FS_EmptySet DEF Init, Logs, Once
<1>4. Arrived
  BY DEF Init, Arrived
<1>5. Answers
  BY DEF Init, Answers, Answered
<1> QED BY <1>1, <1>2, <1>3, <1>4, <1>5 DEF GeneralsInv

\* What holds throughout: how far the simulation is, what the logs hold, and what
\* the answers say.
THEOREM GeneralsInvariant == Spec => []GeneralsInv
<1>1. GeneralsInv /\ [Next]_vars => GeneralsInv'
  BY DrawnStep, ProgressStep, LogsStep, OnceStep, ArrivedStep, AnswersStep DEF GeneralsInv
<1> QED BY <1>1, GeneralsInit, PTL DEF Spec

\* The state of the client and of the server has its types: the generals, rounds,
\* logs and answers that the two hold (server and client main.go).
THEOREM GeneralsTypes == Spec => []TypeOK
<1>1. GeneralsInv => TypeOK
  <2> SUFFICES ASSUME GeneralsInv PROVE TypeOK
    OBVIOUS
  <2>1. round \in Nat /\ currentRound \in Nat
    BY Sizes DEF GeneralsInv, Progress
  <2>2. calls \in SUBSET (Generals \X Generals)
    BY DEF GeneralsInv, Progress, Pairs
  <2> QED BY <2>1, <2>2 DEF GeneralsInv, Drawn, Progress, Logs, Answers, TypeOK
<1> QED BY <1>1, GeneralsInvariant, PTL

-----------------------------------------------------------------------------
(* The report.                                                             *)

\* Each general decided what the algorithm makes of its log, so "consensus
\* reached" is said exactly when no two loyal decisions differ (GetConsensus).
THEOREM ReportTrue == Spec => []ReportIsTrue
<1>1. GeneralsInv => ReportIsTrue
  <2> SUFFICES ASSUME GeneralsInv, phase = "done", NEW g \in Generals
               PROVE  response[g].reached <=>
                          \E d \in Decisions : \A h \in Loyal : response[h].decision = d
    BY DEF ReportIsTrue
  <2> USE DEF GeneralsInv
  <2>1. response[g].reached <=> LoyalAgree
    BY DEF Answers
  <2>2. \A h \in Loyal : response[h].decision = LoyalDecision(h)
    BY DEF Answers, MakeDecision, Loyal
  <2>3. registered = Generals
    BY DEF Progress
  <2> DEFINE consensus == Majority(Cardinality(LoyalFor("ATTACK")),
                                   Cardinality(LoyalFor("RETREAT")))
  <2>4. consensus \in Decisions
    BY DEF Majority, Decisions
  <2>5. ASSUME LoyalAgree PROVE \A h \in Loyal : LoyalDecision(h) = consensus
    BY <2>5 DEF LoyalAgree, LoyalFor
  <2>6. ASSUME NEW d \in Decisions, \A h \in Loyal : LoyalDecision(h) = d PROVE LoyalAgree
    <3>1. LoyalFor(d) = Loyal /\ \A e \in Decisions \ {d} : LoyalFor(e) = {}
      BY <2>3, <2>6 DEF LoyalFor, Loyal
    <3>2. CASE Loyal = {}
      BY <2>3, <3>2 DEF LoyalAgree, LoyalFor, Loyal
    <3>3. CASE Loyal # {}
      <4>1. Cardinality(LoyalFor(d)) # 0 /\ Cardinality(LoyalFor(d)) \in Nat
        BY <3>1, <3>3, VotesAreFinite, FS_EmptySet
      <4>2. \A e \in Decisions \ {d} : Cardinality(LoyalFor(e)) = 0
        BY <3>1, FS_EmptySet
      <4>3. consensus = d
        BY <4>1, <4>2 DEF Majority, Decisions
      <4> QED BY <3>1, <4>3 DEF LoyalAgree
    <3> QED BY <3>2, <3>3
  <2> QED BY <2>1, <2>2, <2>4, <2>5, <2>6
<1> QED BY <1>1, GeneralsInvariant, PTL

-----------------------------------------------------------------------------
(* The votes.  A loyal general g hears the order from every loyal general  *)
(* but itself in each of rounds 2 to |traitors| + 1, and a lie only from a *)
(* traitor, at most once in each of these rounds and in round 1.           *)

Later     == 2 .. Cardinality(traitors) + 1
Honest(g) == Later \X (Loyal \ {g})
Lies      == Later \X traitors

LEMMA HowMany ==
    ASSUME Drawn, NEW g \in Loyal
    PROVE  LET k == Cardinality(traitors)
               n == Cardinality(Generals)
           IN /\ k \in 0 .. 3 /\ n \in Nat /\ n > 3 * k
              /\ IsFiniteSet(Honest(g)) /\ Cardinality(Honest(g)) = k * (n - k - 1)
              /\ IsFiniteSet(Lies) /\ Cardinality(Lies) = k * k
<1> DEFINE k == Cardinality(traitors)
           n == Cardinality(Generals)
<1>1. k \in 0 .. 3 /\ n \in Nat /\ n > 3 * k
  BY SomeTraitors, Sizes
<1>2. IsFiniteSet(Later) /\ Cardinality(Later) = k
  <2>1. Later = 2 .. k + 1
    BY DEF Later
  <2> HIDE DEF k
  <2>2. 2 \in Int /\ k + 1 \in Int /\ (2 > k + 1 => k = 0)
    BY <1>1
  <2> QED BY <1>1, <2>1, <2>2, FS_Interval
<1>3. IsFiniteSet(Loyal) /\ Cardinality(Loyal) = n - k
  <2>1. Generals \cap traitors = traitors
    BY DEF Drawn
  <2> QED BY <2>1, Sizes, FS_Difference DEF Loyal
<1>4. IsFiniteSet(Loyal \ {g}) /\ Cardinality(Loyal \ {g}) = n - k - 1
  BY <1>1, <1>3, FS_RemoveElement
<1>5. IsFiniteSet(Honest(g)) /\ Cardinality(Honest(g)) = k * (n - k - 1)
  <2> HIDE DEF k, n
  <2> QED BY <1>2, <1>4, FS_Product DEF Honest
<1>6. IsFiniteSet(Lies) /\ Cardinality(Lies) = k * k
  BY <1>2, SomeTraitors, FS_Product DEF Lies
<1> QED BY <1>1, <1>5, <1>6

LEMMA VotesForOrder ==
    ASSUME GeneralsInv, phase \in {"consensus", "done"}, failures = 0, NEW g \in Loyal
    PROVE  /\ Cardinality(Honest(g)) <= Cardinality(Votes(g, order))
           /\ Commander \notin traitors /\ Cardinality(Generals) > 1 =>
                  Cardinality(Honest(g)) + 1 <= Cardinality(Votes(g, order))
<1> USE DEF GeneralsInv
<1>1. /\ round = MaxTraitors + 1 /\ calls = {} /\ maxRounds = Cardinality(traitors) + 1
      /\ g \in Generals /\ g \notin traitors
      /\ Cardinality(traitors) \in 0 .. MaxTraitors /\ MaxTraitors \in Nat
  BY SomeTraitors, Sizes DEF Progress, Loyal
<1> DEFINE heard(p) == CHOOSE m \in Votes(g, order) : m.round = p[1] /\ m.from = p[2]
<1>2. ASSUME NEW p \in Honest(g)
      PROVE  /\ heard(p) \in Votes(g, order) /\ p[1] # 1
             /\ heard(p).round = p[1] /\ heard(p).from = p[2]
  <2>1. /\ p[1] \in 2 .. round /\ p[1] <= maxRounds
        /\ p[2] \in Generals /\ p[2] \notin traitors /\ p[2] # g
    BY <1>1 DEF Honest, Later, Loyal
  <2>2. <<p[2], g>> \in Pairs /\ <<p[2], g>> \notin calls
    BY <1>1, <2>1 DEF Pairs
  <2>3. PICK m \in messages : m.round = p[1] /\ m.from = p[2] /\ m.to = g
    BY <2>1, <2>2 DEF Arrived
  <2>4. m.at = g /\ m.value = order
    BY <1>1, <2>1, <2>3 DEF Logs
  <2>5. m \in Votes(g, order)
    BY <2>1, <2>3, <2>4 DEF Votes
  <2>6. heard(p) \in Votes(g, order) /\ heard(p).round = p[1] /\ heard(p).from = p[2]
    BY <2>3, <2>5
  <2> QED BY <1>1, <2>1, <2>6
<1> HIDE DEF heard
<1> DEFINE f == [p \in Honest(g) |-> heard(p)]
           S == Votes(g, order)
<1>3. IsFiniteSet(S) /\ Cardinality(S) \in Nat
  BY VotesAreFinite
<1>4. ASSUME NEW T, T \subseteq S, \A p \in Honest(g) : heard(p) \in T
      PROVE  Cardinality(Honest(g)) <= Cardinality(T)
  <2>1. f \in [Honest(g) -> T]
    BY <1>4
  <2>2. ASSUME NEW p \in Honest(g), NEW q \in Honest(g), f[p] = f[q] PROVE p = q
    <3>1. heard(p) = heard(q)
      BY <2>2
    <3>2. p[1] = q[1] /\ p[2] = q[2]
      BY <1>2, <3>1
    <3> QED BY <3>2 DEF Honest
  <2>3. f \in Injection(Honest(g), T)
    BY <2>1, <2>2 DEF Injection, IsInjective
  <2>4. IsFiniteSet(T)
    BY <1>3, <1>4, FS_Subset
  <2> HIDE DEF f, S
  <2> QED BY <2>3, <2>4, FS_Injection
<1>5. Cardinality(Honest(g)) <= Cardinality(S)
  BY <1>2, <1>4
<1>6. ASSUME Commander \notin traitors, Cardinality(Generals) > 1
      PROVE  Cardinality(Honest(g)) + 1 <= Cardinality(S)
  <2>1. PICK l \in Lieutenants : g = Commander \/ g = l
    <3>1. CASE g # Commander
      BY <1>1, <3>1 DEF Lieutenants
    <3>2. CASE g = Commander
      <4>1. Generals # {Commander}
        <5>1. Cardinality({Commander}) = 1
          BY FS_Singleton
        <5> QED BY <1>6, <5>1
      <4> QED BY <3>2, <4>1, Sizes DEF Lieutenants
    <3> QED BY <3>1, <3>2
  <2>2. round > 1 \/ (round = 1 /\ <<Commander, l>> \notin calls)
    BY <1>1
  <2>3. PICK m \in messages : m.round = 1 /\ m.from = Commander /\ m.at = g
    BY <2>1, <2>2 DEF Arrived
  <2>4. m \in S
    <3>1. m.value = order
      BY <1>6, <2>3 DEF Logs
    <3>2. 1 <= maxRounds
      BY <1>1
    <3> QED BY <2>3, <3>1, <3>2 DEF Votes
  <2>5. \A p \in Honest(g) : heard(p) \in S \ {m}
    BY <1>2, <2>3
  <2> HIDE DEF S
  <2>6. Cardinality(Honest(g)) <= Cardinality(S \ {m})
    BY <1>4, <2>5
  <2>7. Cardinality(S \ {m}) = Cardinality(S) - 1
    BY <1>3, <2>4, FS_RemoveElement
  <2>8. Cardinality(Honest(g)) \in Nat
    BY HowMany, FS_CardinalityType
  <2> QED BY <1>3, <2>6, <2>7, <2>8
<1> QED BY <1>5, <1>6

LEMMA VotesAgainstOrder ==
    ASSUME GeneralsInv, phase \in {"consensus", "done"}, NEW g \in Loyal,
           NEW value \in Decisions, value # order
    PROVE  /\ Cardinality(Votes(g, value)) <= Cardinality(Lies) + 1
           /\ Commander \notin traitors => Cardinality(Votes(g, value)) <= Cardinality(Lies)
<1> USE DEF GeneralsInv
<1> DEFINE S == Votes(g, value)
           f == [m \in S |-> <<m.round, m.from>>]
<1>1. ASSUME NEW m \in S
      PROVE  /\ m \in messages /\ m.at = g /\ m.to = g /\ m.from \in traitors /\ m.round \in Nat
             /\ m.round = 1 => m.from = Commander
             /\ m.round # 1 => <<m.round, m.from>> \in Lies
  <2>1. m \in messages /\ m.at = g /\ m.value # order /\ m.round <= maxRounds
    BY DEF Votes
  <2>2. m.from \in traitors /\ m.at # m.from /\ m.to = g
    BY <2>1 DEF Logs
  <2>3. m.round \in Nat /\ 1 <= m.round /\ (m.round = 1 => m.from = Commander)
    BY <2>1 DEF Logs, Message
  <2>4. maxRounds = Cardinality(traitors) + 1 /\ Cardinality(traitors) \in Nat
    BY SomeTraitors, Sizes DEF Progress
  <2>5. m.round # 1 => m.round \in 2 .. Cardinality(traitors) + 1
    BY <2>1, <2>3, <2>4
  <2> QED BY <2>1, <2>2, <2>3, <2>5 DEF Lies, Later
<1>2. ASSUME NEW T, IsFiniteSet(T), \A m \in S : f[m] \in T
      PROVE  Cardinality(S) <= Cardinality(T)
  <2>1. f \in [S -> T]
    BY <1>2
  <2>2. ASSUME NEW m \in S, NEW o \in S, f[m] = f[o] PROVE m = o
    <3>1. m.round = o.round /\ m.from = o.from
      BY <2>2
    <3> QED BY <1>1, <3>1 DEF Once
  <2>3. f \in Injection(S, T)
    BY <2>1, <2>2 DEF Injection, IsInjective
  <2> HIDE DEF f, S
  <2> QED BY <1>2, <2>3, FS_Injection
<1>3. IsFiniteSet(Lies) /\ Cardinality(Lies) \in Nat
  BY HowMany, FS_CardinalityType
<1>4. Cardinality(S) <= Cardinality(Lies) + 1
  <2> DEFINE T == Lies \cup {<<1, Commander>>}
  <2>1. IsFiniteSet(T) /\ Cardinality(T) <= Cardinality(Lies) + 1 /\ Cardinality(T) \in Nat
    <3> DEFINE x == <<1, Commander>>
    <3> HIDE DEF x
    <3>1. IsFiniteSet(Lies \cup {x}) /\ Cardinality(Lies \cup {x}) <= Cardinality(Lies) + 1
      <4>1. /\ IsFiniteSet(Lies \cup {x})
            /\ Cardinality(Lies \cup {x}) = IF x \in Lies THEN Cardinality(Lies)
                                           ELSE Cardinality(Lies) + 1
        BY <1>3, FS_AddElement, Zenon
      <4> QED BY <1>3, <4>1
    <3>2. Cardinality(Lies \cup {x}) \in Nat
      BY <3>1, FS_CardinalityType
    <3> QED BY <3>1, <3>2 DEF x
  <2>2. \A m \in S : f[m] \in T
    BY <1>1
  <2>3. Cardinality(S) <= Cardinality(T)
    BY <1>2, <2>1, <2>2
  <2>4. Cardinality(S) \in Nat
    BY VotesAreFinite
  <2> HIDE DEF T, S
  <2> QED BY <1>3, <2>1, <2>3, <2>4
<1>5. ASSUME Commander \notin traitors PROVE Cardinality(S) <= Cardinality(Lies)
  <2>1. \A m \in S : f[m] \in Lies
    BY <1>1, <1>5
  <2> QED BY <1>2, <1>3, <2>1
<1> QED BY <1>4, <1>5

\* What a loyal general makes of its log, without failed calls: under a loyal
\* commander with a lieutenant, and else unless a tie works against the order.
LEMMA LoyalObey ==
    ASSUME GeneralsInv, phase \in {"consensus", "done"}, failures = 0, NEW g \in Loyal,
           \/ Commander \notin traitors /\ Cardinality(Generals) > 1
           \/ Commander \in traitors /\ (order = "RETREAT" \/ Cardinality(Generals) > 4)
    PROVE  LoyalDecision(g) = order
<1> USE DEF GeneralsInv
<1> DEFINE k == Cardinality(traitors)
           n == Cardinality(Generals)
<1>1. PICK other \in Decisions : other # order /\ Decisions = {order, other}
  BY DEF Drawn, Decisions
<1> DEFINE for     == Cardinality(Votes(g, order))
           against == Cardinality(Votes(g, other))
<1>2. k \in 0 .. 3 /\ n \in Nat /\ n > 3 * k /\ for \in Nat /\ against \in Nat
  BY HowMany, VotesAreFinite
<1>3. /\ k * (n - k - 1) <= for /\ against <= k * k + 1
      /\ Commander \notin traitors /\ n > 1 => k * (n - k - 1) + 1 <= for
      /\ Commander \notin traitors => against <= k * k
  BY <1>1, HowMany, VotesForOrder, VotesAgainstOrder
<1>4. Commander \in traitors => k # 0
  BY SomeTraitors, FS_EmptySet DEF Drawn
<1> HIDE DEF k, n, for, against
<1>5. for >= against /\ (for > against \/ order = "RETREAT")
  <2>1. CASE Commander \notin traitors /\ n > 1
    <3>1. k * (n - k - 1) + 1 <= for /\ against <= k * k
      BY <1>3, <2>1
    <3>2. CASE k = 0
      BY <1>2, <3>1, <3>2
    <3>3. CASE k = 1
      BY <1>2, <3>1, <3>3
    <3>4. CASE k = 2
      BY <1>2, <3>1, <3>4
    <3>5. CASE k = 3
      BY <1>2, <3>1, <3>5
    <3> QED BY <1>2, <3>2, <3>3, <3>4, <3>5
  <2>2. CASE Commander \in traitors /\ (order = "RETREAT" \/ n > 4)
    <3>1. k * (n - k - 1) <= for /\ against <= k * k + 1
      BY <1>3
    <3>2. CASE k = 1
      BY <1>2, <2>2, <3>1, <3>2
    <3>3. CASE k = 2
      BY <1>2, <3>1, <3>3
    <3>4. CASE k = 3
      BY <1>2, <3>1, <3>4
    <3> QED BY <1>2, <1>4, <2>2, <3>2, <3>3, <3>4
  <2> QED BY <2>1, <2>2 DEF n
<1>6. CASE order = "ATTACK"
  <2>1. for > against /\ other = "RETREAT"
    BY <1>1, <1>5, <1>6 DEF Decisions
  <2> QED BY <1>6, <2>1 DEF LoyalDecision, Majority, for, against
<1>7. CASE order = "RETREAT"
  <2>1. ~(against > for) /\ other = "ATTACK"
    BY <1>1, <1>2, <1>5, <1>7 DEF Decisions
  <2> QED BY <1>7, <2>1 DEF LoyalDecision, Majority, for, against
<1> QED BY <1>6, <1>7 DEF Drawn, Decisions

LEMMA LoyalAnswer ==
    ASSUME GeneralsInv, NEW g \in Loyal, Answered(g)
    PROVE  phase \in {"consensus", "done"} /\ response[g].decision = LoyalDecision(g)
BY DEF GeneralsInv, Answers, MakeDecision, Loyal

\* A loyal commander that has a lieutenant is obeyed by every loyal general, as
\* long as no call fails, however the calls of a round interleave and whatever
\* the traitors say (makeDecision).
THEOREM OrdersAreObeyed ==
    ASSUME Cardinality(Generals) > 1
    PROVE  Spec => []Validity
<1>1. GeneralsInv => Validity
  BY LoyalAnswer, LoyalObey DEF Validity
<1> QED BY <1>1, GeneralsInvariant, PTL

\* The loyal generals that have decided decided alike, as long as no call fails,
\* also under a traitor, if there are more than four generals or it orders a
\* retreat, which is what a tie comes to (makeDecision).
THEOREM LoyalGeneralsAgree ==
    ASSUME \/ Cardinality(Generals) > 4
           \/ \A f \in Simulations : f.commanderTraitor => f.order = "RETREAT"
    PROVE  Spec => []Agreement
<1>1. GeneralsInv => Agreement
  <2> SUFFICES ASSUME GeneralsInv, failures = 0, NEW g \in Loyal, NEW h \in Loyal,
                      Answered(g), Answered(h)
               PROVE  response[g].decision = response[h].decision
    BY DEF Agreement
  <2>1. CASE g = h
    BY <2>1
  <2>2. CASE g # h
    <3>1. Cardinality(Generals) > 1
      <4>1. g \in Generals /\ h \in Generals
        BY DEF Loyal
      <4>2. Cardinality(Generals) # 0 /\ Cardinality(Generals) # 1
        BY <2>2, <4>1, Sizes, FS_EmptySet, FS_Singleton
      <4> QED BY <4>2, Sizes
    <3>2. Commander \in traitors => order = "RETREAT" \/ Cardinality(Generals) > 4
      BY DEF GeneralsInv, Drawn
    <3> QED BY <3>1, <3>2, LoyalAnswer, LoyalObey
  <2> QED BY <2>1, <2>2
<1> QED BY <1>1, GeneralsInvariant, PTL
=============================================================================
