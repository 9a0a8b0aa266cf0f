---------------------------- MODULE PortsProofs ----------------------------
(***************************************************************************)
(* Theorems about Ports, for every set of entries and all settings of the  *)
(* start ports: the ports of the file are apart, set and valid, and those  *)
(* that were chosen stay.                                                  *)
(***************************************************************************)
EXTENDS Ports, FiniteSetTheorems, TLAPS

-----------------------------------------------------------------------------
(* Types *)

\* The row of a visit keeps its promises, and the visit is at one of its steps.
LEMMA StepFacts ==
  ASSUME TypeOK, cmd.at # NoVisit
  PROVE  /\ RowKeeps(Row.kind, Step)
         /\ Step.cur \in Cursors
         /\ Len(Row.steps) \in Nat \ {0}
         /\ cmd.step \in 1..Len(Row.steps)
<1>1. cmd.at[1] \in 1..Len(Rows) /\ cmd.step \in 1..Len(Rows[cmd.at[1]].steps)
  BY DEF TypeOK, Command, Visits
<1>2. QED
  BY <1>1, TableAssumption, SMTT(30) DEF TableKeepsPromises, Row, Step, Cursors

\* The port that a step looks at first is a slot.
LEMMA HeadSlot ==
  ASSUME TypeOK, cmd.at # NoVisit
  PROVE  SlotOf(Step.head) \in Slots
<1>1. EntryAt(cmd.at) \in Entries /\ EntryAt(cmd.at) = <<Row.kind, cmd.at[2]>>
  BY DEF TypeOK, Command, Visits, EntryAt, Row
<1>2. Step.head \in AllFields[Row.kind]
  BY StepFacts DEF RowKeeps
<1>3. QED
  BY <1>1, <1>2 DEF Slots, SlotOf

\* The next step of a visit, or the end of it, and nothing else.
LEMMA AdvanceType ==
  ASSUME TypeOK, cmd.at # NoVisit, NEW c \in Command, c.at = cmd.at, c.step = cmd.step
  PROVE  /\ Advance(c) \in Command
         /\ Advance(c).at # NoVisit => Advance(c).step \in 1..Len(Rows[Advance(c).at[1]].steps)
         /\ Advance(c).port = c.port /\ Advance(c).entry = c.entry /\ Advance(c).pc = c.pc
<1>1. Len(Row.steps) \in Nat \ {0} /\ cmd.step \in 1..Len(Row.steps)
  BY StepFacts
<1>2. CASE c.step = Len(Row.steps)
  BY <1>2 DEF Advance, Command
<1>3. CASE c.step # Len(Row.steps)
  <2>1. Advance(c) = [c EXCEPT !.step = c.step + 1]
    BY <1>3 DEF Advance
  <2>2. c.step + 1 \in 1..Len(Row.steps)
    BY <1>1, <1>3
  <2>3. QED
    BY <1>1, <2>1, <2>2 DEF Command, Row
<1>4. QED
  BY <1>2, <1>3

\* A draw sets ports to ports.
LEMMA SetPortsType ==
  ASSUME TypeOK, cmd.at # NoVisit, NEW p \in Nat
  PROVE  SetPorts(p) \in PortMap
<1>1. \A f \in DOMAIN Step.sets : Step.sets[f] \in Nat
  BY StepFacts DEF RowKeeps
<1>2. QED
  BY <1>1 DEF SetPorts, PortMap, TypeOK, Command

\* A walk starts as a command.
LEMMA StartWalkType ==
  ASSUME NEW c \in Command, NEW pc \in {"load", "apply"}, NEW on \in SUBSET Entries,
         NEW port \in PortMap, NEW used \in SUBSET Nat
  PROVE  /\ StartWalk(c, pc, on, port, used) \in Command
         /\ StartWalk(c, pc, on, port, used).at = NoVisit
         /\ StartWalk(c, pc, on, port, used).port = port
         /\ StartWalk(c, pc, on, port, used).entry = c.entry
BY StartPortAssumption DEF StartWalk, Command

\* The values everything starts from.
LEMMA ConstTypes ==
  /\ NoCommand \in Command /\ NoPorts \in PortMap
  /\ NoCommand.at = NoVisit /\ NoCommand.pc = "idle"
BY StartPortAssumption DEF NoCommand, Command, NoPorts, PortMap

\* Every step keeps the types.
LEMMA TypeStep ==
  ASSUME TypeOK, [Next]_vars
  PROVE  TypeOK'
<1>1. ASSUME NEW op \in {"install", "remove"}, NEW e \in Entries, Load(op, e) PROVE TypeOK'
  <2> DEFINE c == [NoCommand EXCEPT !.op = op, !.entry = e]
  <2>1. PICK used \in Listening : cmd' = StartWalk(c, "load", file.on, file.port, used)
    BY <1>1 DEF Load
  <2>2. c \in Command /\ c.entry = e
    BY ConstTypes DEF Command
  <2>3. file.on \in SUBSET Entries /\ file.port \in PortMap /\ used \in SUBSET Nat
    BY PortsAssumption DEF TypeOK
  <2> HIDE DEF c
  <2>4. cmd' \in Command /\ cmd'.at = NoVisit /\ cmd'.entry \in Entries
    BY <2>1, <2>2, <2>3, StartWalkType
  <2>5. QED
    BY <1>1, <2>4 DEF TypeOK, Load
<1>2. CASE NextEntry
  <2>1. PICK v \in cmd.todo :
          cmd' = [cmd EXCEPT !.at = v, !.step = 1, !.fresh = {}, !.todo = @ \ {v}]
    BY <1>2 DEF NextEntry
  <2>2. v \in Visits /\ v[1] \in 1..Len(Rows)
    BY DEF TypeOK, Command, Visits
  <2>3. Len(Rows[v[1]].steps) \in Nat \ {0}
    BY <2>2, TableAssumption DEF TableKeepsPromises
  <2>4. cmd' \in Command /\ cmd'.at = v /\ cmd'.step = 1 /\ cmd'.entry = cmd.entry /\ cmd'.pc = cmd.pc
    BY <2>1, <2>2 DEF TypeOK, Command
  <2>5. QED
    BY <1>2, <2>3, <2>4 DEF TypeOK, NextEntry, Idle
<1>3. CASE Draw
  <2>1. cmd.at # NoVisit /\ UNCHANGED file
    BY <1>3 DEF Draw
  <2>2. PICK p \in cmd.cur[Step.cur]..MaxPort :
          cmd' = Advance([cmd EXCEPT !.port = SetPorts(p),
                                     !.cur[Step.cur] = p + Cardinality(DOMAIN Step.sets),
                                     !.fresh = @ \cup DOMAIN Step.sets])
    BY <1>3 DEF Draw
  <2>3. p \in Nat /\ Step.cur \in Cursors /\ Cardinality(DOMAIN Step.sets) \in Nat
        /\ DOMAIN Step.sets \subseteq STRING
    BY <2>1, <2>2, StepFacts, PortsAssumption DEF TypeOK, Command, RowKeeps
  <2>4. SetPorts(p) \in PortMap
    BY <2>1, <2>3, SetPortsType
  <2> DEFINE c == [cmd EXCEPT !.port = SetPorts(p),
                              !.cur[Step.cur] = p + Cardinality(DOMAIN Step.sets),
                              !.fresh = @ \cup DOMAIN Step.sets]
  <2>5. /\ c.port = SetPorts(p) /\ c.fresh = cmd.fresh \cup DOMAIN Step.sets
        /\ c.cur = [cmd.cur EXCEPT ![Step.cur] = p + Cardinality(DOMAIN Step.sets)]
        /\ c = [cmd EXCEPT !.port = c.port, !.cur = c.cur, !.fresh = c.fresh]
    BY DEF TypeOK, Command
  <2>6. c.cur \in [Cursors -> Nat] /\ c.fresh \in SUBSET STRING
    BY <2>3, <2>5 DEF TypeOK, Command
  <2>7. c \in Command /\ c.at = cmd.at /\ c.step = cmd.step /\ c.entry = cmd.entry /\ c.pc = cmd.pc
    BY <2>4, <2>5, <2>6 DEF TypeOK, Command
  <2>8. QED
    BY <2>1, <2>2, <2>7, AdvanceType DEF TypeOK, Idle
<1>4. CASE Fix
  <2>1. cmd.at # NoVisit /\ UNCHANGED file
        /\ cmd' = Advance([cmd EXCEPT !.port = SetPorts(StartPort[Step.cur])])
    BY <1>4 DEF Fix
  <2>2. SetPorts(StartPort[Step.cur]) \in PortMap
    BY <2>1, StepFacts, SetPortsType, StartPortAssumption
  <2> DEFINE c == [cmd EXCEPT !.port = SetPorts(StartPort[Step.cur])]
  <2>3. c \in Command /\ c.at = cmd.at /\ c.step = cmd.step /\ c.entry = cmd.entry /\ c.pc = cmd.pc
    BY <2>2 DEF TypeOK, Command
  <2>4. QED
    BY <2>1, <2>3, AdvanceType DEF TypeOK, Idle
<1>5. CASE Pass
  <2> DEFINE q == cmd.port[SlotOf(Step.head)]
             n == IF Step.bump > 0 /\ q >= cmd.cur[Step.cur] THEN q + Step.bump ELSE cmd.cur[Step.cur]
             c == [cmd EXCEPT !.cur[Step.cur] = n]
  <2>1. cmd.at # NoVisit /\ UNCHANGED file /\ cmd' = Advance(c)
    BY <1>5 DEF Pass
  <2>2. Step.bump \in Nat /\ Step.cur \in Cursors
    BY <2>1, StepFacts DEF RowKeeps
  <2>3. q \in Nat
    <3>1. SlotOf(Step.head) \in Slots
      BY <2>1, HeadSlot
    <3>2. QED
      BY <3>1 DEF TypeOK, Command, PortMap
  <2>4. n \in Nat
    BY <2>2, <2>3 DEF TypeOK, Command
  <2>5. c \in Command /\ c.at = cmd.at /\ c.step = cmd.step /\ c.entry = cmd.entry /\ c.pc = cmd.pc
    BY <2>2, <2>4 DEF TypeOK, Command
  <2>6. QED
    BY <2>1, <2>5, AdvanceType DEF TypeOK, Idle
<1>6. ASSUME NEW pins \in Pins, ~Idle, ApplyFlags(pins) PROVE TypeOK'
  <2>1. cmd.entry \in Entries
    BY <1>6 DEF TypeOK
  <2> DEFINE pinned == [s \in Slots |->
                IF <<s[1], s[2]>> = cmd.entry /\ s[3] \in DOMAIN pins THEN pins[s[3]] ELSE 0]
             port == [s \in Slots |-> IF pinned[s] # 0 THEN pinned[s] ELSE cmd.port[s]]
             on == cmd.on \cup {cmd.entry}
             c == [cmd EXCEPT !.pins = pinned]
  <2>2. PICK used \in Listening : cmd' = StartWalk(c, "apply", on, port, used)
    BY <1>6 DEF ApplyFlags
  <2>3. \A f \in DOMAIN pins : pins[f] \in Nat
    <3>1. PICK F \in SUBSET AllFields[cmd.entry[1]] : pins \in [F -> PinPorts]
      BY DEF Pins
    <3>2. QED
      BY <3>1, PortsAssumption
  <2>4. pinned \in PortMap
    BY <2>3 DEF PortMap
  <2>5. port \in PortMap
    BY <2>4 DEF PortMap, TypeOK, Command
  <2>6. c \in Command /\ c.entry = cmd.entry
    BY <2>4 DEF TypeOK, Command
  <2>7. on \in SUBSET Entries /\ used \in SUBSET Nat
    BY <2>1, PortsAssumption DEF TypeOK, Command
  <2> HIDE DEF pinned, port, on, c
  <2>8. cmd' \in Command /\ cmd'.at = NoVisit /\ cmd'.entry \in Entries
    BY <2>1, <2>2, <2>5, <2>6, <2>7, StartWalkType
  <2>9. QED
    BY <1>6, <2>8 DEF ApplyFlags, TypeOK
<1>7. CASE Save
  <2>1. cmd' = NoCommand
    BY <1>7 DEF Save
  <2>2. file' \in [on : SUBSET Entries, port : PortMap]
    <3>1. CASE file' = [on |-> cmd.on, port |-> cmd.port]
      BY <3>1 DEF TypeOK, Command
    <3>2. CASE file' = [on   |-> cmd.on \ {cmd.entry},
                        port |-> [s \in Slots |-> IF <<s[1], s[2]>> = cmd.entry THEN 0 ELSE cmd.port[s]]]
      <4>1. [s \in Slots |-> IF <<s[1], s[2]>> = cmd.entry THEN 0 ELSE cmd.port[s]] \in PortMap
        BY DEF TypeOK, Command, PortMap
      <4>2. QED
        BY <3>2, <4>1 DEF TypeOK, Command
    <3>3. QED
      BY <1>7, <3>1, <3>2 DEF Save
  <2>3. QED
    BY <2>1, <2>2, ConstTypes DEF TypeOK, Idle
<1>8. CASE Fail
  BY <1>8, ConstTypes DEF Fail, TypeOK, Idle
<1>9. CASE UNCHANGED vars
  BY <1>9 DEF vars, TypeOK, Idle
<1>10. QED
  BY <1>1, <1>2, <1>3, <1>4, <1>5, <1>6, <1>7, <1>8, <1>9 DEF Next

-----------------------------------------------------------------------------
(* Ports that were drawn are apart *)

\* Apart, for one pair of slots.
LEMMA ApartMeans ==
  ASSUME NEW port
  PROVE  AllApart(port) <=> \A s, t \in Slots : ~Clash(port, s, t)
<1> DEFINE C == {w \in Slots \X Slots : Clash(port, w[1], w[2])}
<1>1. ASSUME C = {}, NEW s \in Slots, NEW t \in Slots, Clash(port, s, t) PROVE FALSE
  <2>1. <<s, t>> \in Slots \X Slots /\ <<s, t>>[1] = s /\ <<s, t>>[2] = t
    OBVIOUS
  <2>2. <<s, t>> \in C
    BY <1>1, <2>1
  <2>3. QED
    BY <1>1, <2>2
<1>2. ASSUME \A s, t \in Slots : ~Clash(port, s, t) PROVE C = {}
  <2>1. \A w \in Slots \X Slots : w[1] \in Slots /\ w[2] \in Slots
    OBVIOUS
  <2>2. QED
    BY <1>2, <2>1
<1>3. QED
  BY <1>1, <1>2 DEF AllApart

\* A draw keeps the promises: what it takes was free.
LEMMA DrawApart ==
  ASSUME TypeOK, cmd.at # NoVisit, AllApart(cmd.port), NEW p \in Nat, Free(p)
  PROVE  AllApart(SetPorts(p))
<1> DEFINE Changed(s) == s[1] = Row.kind /\ s[2] = cmd.at[2] /\ s[3] \in DOMAIN Step.sets
<1>1. ASSUME NEW s \in Slots, NEW t \in Slots, Changed(s), ~Changed(t), Clash(SetPorts(p), s, t)
      PROVE  FALSE
  <2>1. SetPorts(p)[s] = p + Step.sets[s[3]] /\ SetPorts(p)[t] = cmd.port[t]
    BY <1>1 DEF SetPorts
  <2>2. PICK P \in Promises : Family(s) \in P /\ Family(t) \in P
    BY <1>1 DEF Clash
  <2>3. Family(t) \in Step.marks
    BY <1>1, <2>2, StepFacts DEF RowKeeps, Family
  <2>4. PICK x \in Occupies(Family(s), p + Step.sets[s[3]]) : x \in Occupies(Family(t), cmd.port[t])
    BY <1>1, <2>1 DEF Clash
  <2>5. cmd.port[t] \in Held(t)
    BY <1>1, <2>1 DEF Clash, Held
  <2>6. Assigned(Step.marks, x)
    BY <2>3, <2>4, <2>5 DEF Assigned
  <2>7. QED
    BY <1>1, <2>4, <2>6 DEF Free, Family
<1>2. ASSUME NEW s \in Slots, NEW t \in Slots, Changed(s), Changed(t), Clash(SetPorts(p), s, t)
      PROVE  FALSE
  <2>1. /\ SetPorts(p)[s] = p + Step.sets[s[3]]
        /\ SetPorts(p)[t] = p + Step.sets[t[3]]
    BY <1>2 DEF SetPorts
  <2>2. s[3] # t[3]
    BY <1>2 DEF Clash, Slots
  <2>3. /\ Step.sets[s[3]] # Step.sets[t[3]] /\ Step.sets[s[3]] \in Nat /\ Step.sets[t[3]] \in Nat
        /\ Row.kind # "Seaweedfs" /\ Row.kind # "RocketMQ"
    BY <1>2, <2>2, StepFacts DEF RowKeeps
  <2>4. /\ Occupies(Family(s), SetPorts(p)[s]) = {p + Step.sets[s[3]]}
        /\ Occupies(Family(t), SetPorts(p)[t]) = {p + Step.sets[t[3]]}
    BY <1>2, <2>1, <2>3 DEF Occupies, Family
  <2>5. QED
    BY <1>2, <2>3, <2>4 DEF Clash
<1>3. ASSUME NEW s \in Slots, NEW t \in Slots, ~Changed(s), ~Changed(t), Clash(SetPorts(p), s, t)
      PROVE  FALSE
  <2>1. SetPorts(p)[s] = cmd.port[s] /\ SetPorts(p)[t] = cmd.port[t]
    BY <1>3 DEF SetPorts
  <2>2. Clash(cmd.port, s, t)
    BY <1>3, <2>1 DEF Clash
  <2>3. QED
    BY <2>2, ApartMeans
<1>4. \A s, t \in Slots : Clash(SetPorts(p), s, t) => Clash(SetPorts(p), t, s)
  BY DEF Clash
<1>5. QED
  BY <1>1, <1>2, <1>3, <1>4, ApartMeans

\* A fixed port is under no promise.
LEMMA FixApart ==
  ASSUME TypeOK, cmd.at # NoVisit, AllApart(cmd.port), NEW p \in Nat, Step.fixed
  PROVE  AllApart(SetPorts(p))
<1> DEFINE Changed(s) == s[1] = Row.kind /\ s[2] = cmd.at[2] /\ s[3] \in DOMAIN Step.sets
<1>1. ASSUME NEW s \in Slots, Changed(s), NEW P \in Promises, Family(s) \in P PROVE FALSE
  BY <1>1, StepFacts DEF RowKeeps, Family
<1>2. ASSUME NEW s \in Slots, NEW t \in Slots, Clash(SetPorts(p), s, t) PROVE FALSE
  <2>1. ~Changed(s) /\ ~Changed(t)
    BY <1>1, <1>2 DEF Clash
  <2>2. SetPorts(p)[s] = cmd.port[s] /\ SetPorts(p)[t] = cmd.port[t]
    BY <2>1 DEF SetPorts
  <2>3. Clash(cmd.port, s, t)
    BY <1>2, <2>2 DEF Clash
  <2>4. QED
    BY <2>3, ApartMeans
<1>3. QED
  BY <1>2, ApartMeans

\* Clearing ports breaks no promise.
LEMMA ClearApart ==
  ASSUME NEW port \in PortMap, NEW e, AllApart(port)
  PROVE  AllApart([s \in Slots |-> IF <<s[1], s[2]>> = e THEN 0 ELSE port[s]])
<1> DEFINE q == [s \in Slots |-> IF <<s[1], s[2]>> = e THEN 0 ELSE port[s]]
<1>1. ASSUME NEW s \in Slots, NEW t \in Slots, Clash(q, s, t) PROVE FALSE
  <2>1. q[s] = port[s] /\ q[t] = port[t]
    BY <1>1 DEF Clash
  <2> HIDE DEF q
  <2>2. Clash(port, s, t)
    BY <1>1, <2>1 DEF Clash
  <2>3. QED
    BY <2>2, ApartMeans
<1> HIDE DEF q
<1>2. AllApart(q)
  BY <1>1, ApartMeans
<1>3. QED
  BY <1>2 DEF q

\* Ports that are not set are apart.
LEMMA NoPortsApart == AllApart(NoPorts)
<1>1. \A s, t \in Slots : ~Clash(NoPorts, s, t)
  BY DEF Clash, NoPorts
<1>2. QED
  BY <1>1, ApartMeans

\* The file, and a config in memory, keep the promises.
PInv == TypeOK /\ AllApart(file.port) /\ AllApart(cmd.port)

\* The empty file has its ports apart.
LEMMA InitPInv == Init => PInv
<1> SUFFICES ASSUME Init PROVE PInv
  OBVIOUS
<1>1. TypeOK
  BY ConstTypes DEF Init, TypeOK, Idle
<1>2. QED
  BY <1>1, NoPortsApart DEF Init, PInv, NoCommand

\* Every step keeps the ports apart, in the file and in memory.
LEMMA PStep ==
  ASSUME PInv, [Next]_vars
  PROVE  PInv'
<1>0. TypeOK /\ TypeOK'
  BY TypeStep DEF PInv
<1>1. ASSUME NEW op \in {"install", "remove"}, NEW e \in Entries, Load(op, e) PROVE PInv'
  <2> DEFINE c == [NoCommand EXCEPT !.op = op, !.entry = e]
  <2>1. PICK used \in Listening : cmd' = StartWalk(c, "load", file.on, file.port, used)
    BY <1>1 DEF Load
  <2>2. c \in Command
    BY ConstTypes DEF Command
  <2>3. file.on \in SUBSET Entries /\ file.port \in PortMap /\ used \in SUBSET Nat
    BY <1>0, PortsAssumption DEF TypeOK
  <2> HIDE DEF c
  <2>4. cmd'.port = file.port
    BY <2>1, <2>2, <2>3, StartWalkType
  <2>5. QED
    BY <1>0, <1>1, <2>4 DEF Load, PInv
<1>2. CASE NextEntry
  <2>1. cmd'.port = cmd.port /\ UNCHANGED file
    BY <1>0, <1>2 DEF NextEntry, TypeOK, Command
  <2>2. QED
    BY <1>0, <2>1 DEF PInv
<1>3. CASE Draw
  <2>1. cmd.at # NoVisit /\ UNCHANGED file
    BY <1>3 DEF Draw
  <2>2. PICK p \in cmd.cur[Step.cur]..MaxPort :
          /\ Free(p)
          /\ cmd' = Advance([cmd EXCEPT !.port = SetPorts(p),
                                        !.cur[Step.cur] = p + Cardinality(DOMAIN Step.sets),
                                        !.fresh = @ \cup DOMAIN Step.sets])
    BY <1>3 DEF Draw
  <2>3. p \in Nat
    BY <1>0, <2>1, <2>2, StepFacts, PortsAssumption DEF TypeOK, Command
  <2>4. AllApart(SetPorts(p))
    BY <1>0, <2>1, <2>2, <2>3, DrawApart DEF PInv
  <2>5. cmd'.port = SetPorts(p)
    BY <1>0, <2>2 DEF Advance, TypeOK, Command
  <2>6. QED
    BY <1>0, <2>1, <2>4, <2>5 DEF PInv
<1>4. CASE Fix
  <2>1. /\ cmd.at # NoVisit /\ Step.fixed /\ UNCHANGED file
        /\ cmd' = Advance([cmd EXCEPT !.port = SetPorts(StartPort[Step.cur])])
    BY <1>4 DEF Fix
  <2>2. StartPort[Step.cur] \in Nat
    BY <1>0, <2>1, StepFacts, StartPortAssumption
  <2>3. AllApart(SetPorts(StartPort[Step.cur]))
    BY <1>0, <2>1, <2>2, FixApart DEF PInv
  <2>4. cmd'.port = SetPorts(StartPort[Step.cur])
    BY <1>0, <2>1 DEF Advance, TypeOK, Command
  <2>5. QED
    BY <1>0, <2>1, <2>3, <2>4 DEF PInv
<1>5. CASE Pass
  <2>1. cmd'.port = cmd.port /\ UNCHANGED file
    BY <1>0, <1>5 DEF Pass, Advance, TypeOK, Command
  <2>2. QED
    BY <1>0, <2>1 DEF PInv
<1>6. ASSUME NEW pins \in Pins, ~Idle, ApplyFlags(pins) PROVE PInv'
  <2> DEFINE pinned == [s \in Slots |->
                IF <<s[1], s[2]>> = cmd.entry /\ s[3] \in DOMAIN pins THEN pins[s[3]] ELSE 0]
             port == [s \in Slots |-> IF pinned[s] # 0 THEN pinned[s] ELSE cmd.port[s]]
  <2>1. PICK used \in Listening :
           cmd' = StartWalk([cmd EXCEPT !.pins = pinned], "apply", cmd.on \cup {cmd.entry}, port, used)
    BY <1>6 DEF ApplyFlags
  <2>2. AllApart(port) /\ UNCHANGED file
    BY <1>6 DEF ApplyFlags
  <2> HIDE DEF port, pinned
  <2>3. cmd'.port = port
    BY <1>0, <2>1 DEF StartWalk, TypeOK, Command
  <2>4. QED
    BY <1>0, <2>2, <2>3 DEF PInv
<1>7. CASE Save
  <2>1. cmd'.port = NoPorts
    BY <1>7 DEF Save, NoCommand
  <2>2. AllApart(NoPorts)
    BY NoPortsApart
  <2>3. AllApart(file'.port)
    <3>1. CASE file' = [on |-> cmd.on, port |-> cmd.port]
      BY <3>1 DEF PInv
    <3>2. CASE file' = [on   |-> cmd.on \ {cmd.entry},
                        port |-> [s \in Slots |-> IF <<s[1], s[2]>> = cmd.entry THEN 0 ELSE cmd.port[s]]]
      <4>1. cmd.port \in PortMap
        BY <1>0 DEF TypeOK, Command
      <4>2. QED
        BY <3>2, <4>1, ClearApart DEF PInv
    <3>3. QED
      BY <1>7, <3>1, <3>2 DEF Save
  <2>4. QED
    BY <1>0, <2>1, <2>2, <2>3 DEF PInv
<1>8. CASE Fail
  BY <1>0, <1>8, NoPortsApart DEF Fail, PInv, NoCommand
<1>9. CASE UNCHANGED vars
  BY <1>0, <1>9 DEF vars, PInv
<1>10. QED
  BY <1>1, <1>2, <1>3, <1>4, <1>5, <1>6, <1>7, <1>8, <1>9 DEF Next

\* The invariant of the pools: both copies of the ports are apart, the file's
\* and the one of the command that autoAssignPorts works on.
THEOREM PInvHolds == Spec => []PInv
<1>1. PInv /\ [Next]_vars => PInv'
  BY PStep
<1>2. QED
  BY <1>1, InitPInv, PTL DEF Spec

\* Every command leaves well-typed ports in the file and in memory.
THEOREM TypeCorrect == Spec => []TypeOK
<1>1. PInv => TypeOK
  BY DEF PInv
<1>2. QED
  BY <1>1, PInvHolds, PTL

\* Installs and removals never put two promised ports on one number
\* (autoAssignPorts), whatever the entries, the start ports and the listeners.
THEOREM PoolsStayApart == Spec => []PoolsApart
<1>1. PInv => PoolsApart
  BY DEF PInv, PoolsApart
<1>2. QED
  BY <1>1, PInvHolds, PTL

-----------------------------------------------------------------------------
(* The inductive invariant: what a walk has done so far *)

EntryOf(s) == <<s[1], s[2]>>
Heard(s) == s \in Listeners(EntryOf(s))

\* The walk visits entries of the config, by rows that are for them; its cursors
\* never go back.
VisitsFit ==
  \A v \in cmd.todo \cup ({cmd.at} \ {NoVisit}) :
    EntryAt(v) \in cmd.on /\ (Rows[v[1]].away <=> EntryAt(v) \in Away)
CursorsGrow == \A c \in Cursors : cmd.cur[c] >= StartPort[c]

\* The config in memory is the file's, with the entry that is installed; only
\* that one has pins.
CopyFits ==
  /\ cmd.pc = "load" => cmd.on = file.on /\ cmd.pins = NoPorts
  /\ cmd.pc = "apply" => cmd.on = file.on \cup {cmd.entry}
  /\ \A s \in Slots : cmd.pins[s] # 0 => EntryOf(s) = cmd.entry

\* What is not in a config has no port there, what is in the file has its ports.
OffIsUnset ==
  \A s \in Slots : /\ EntryOf(s) \notin file.on => file.port[s] = 0
                   /\ EntryOf(s) \notin cmd.on => cmd.port[s] = 0
FileSet ==
  \A s \in Slots : EntryOf(s) \in file.on /\ Heard(s) /\ LeadOf(s) = s => file.port[s] # 0

\* A port that was chosen stays, and so does one that nobody listens on.
ChosenKept ==
  ~Idle => \A s \in Slots : Chosen(s) # 0 /\ Chosen(LeadOf(s)) # 0 => cmd.port[s] = Chosen(s)
UnheardKept ==
  ~Idle => \A s \in Slots : ~Heard(s) /\ cmd.pins[s] = 0 => cmd.port[s] = file.port[s]

\* What a visit has drawn was not chosen, or its first port was not.
FreshUnset ==
  cmd.at # NoVisit =>
    \A f \in cmd.fresh : /\ f \in AllFields[Row.kind]
                         /\ Chosen(SlotOf(f)) = 0 \/ Chosen(LeadOf(SlotOf(f))) = 0

\* Behind the walk, every port that a step sets by itself is set.
Sets(r, i, s) ==
  /\ Rows[r].kind = s[1] /\ (Rows[r].away <=> EntryOf(s) \in Away)
  /\ SetsAlone(Rows[r].steps[i], s[3])
Behind(r, i, s) == <<r, s[2]>> \notin cmd.todo /\ (cmd.at = <<r, s[2]>> => cmd.step > i)
VisitedSet ==
  ~Idle =>
    \A s \in Slots : EntryOf(s) \in cmd.on /\ Heard(s) =>
      \A r \in 1..Len(Rows) : \A i \in 1..Len(Rows[r].steps) :
        Sets(r, i, s) /\ Behind(r, i, s) => cmd.port[s] # 0

\* Without pins and fixed ports, what Validate looks at is apart all along.
Looked(on) == {s \in Slots : s[1] \in Validating /\ EntryOf(s) \in on /\ Heard(s)}
Plain ==
  /\ cmd.pc = "apply" /\ cmd.pins = NoPorts
  /\ cmd.entry[1] # "ClickHouseKeeper"
  /\ cmd.entry[1] = "ClickHouse" => cmd.entry \notin Optional
  /\ cmd.entry[1] = "RocketMQ" => cmd.entry \notin Away
DrawnApart ==
  Plain => \A s, t \in Looked(cmd.on) :
             /\ Distinct(cmd.port, s, t)
             /\ cmd.port[s] # 0 => Occupies(Family(s), cmd.port[s]) \subseteq Nat \ {0}

WInv ==
  /\ TypeOK /\ VisitsFit /\ CursorsGrow /\ CopyFits /\ OffIsUnset /\ FileSet
  /\ ChosenKept /\ UnheardKept /\ FreshUnset /\ VisitedSet
VInv == Validate(file.on, file.port) /\ DrawnApart

-----------------------------------------------------------------------------
(* Slots and visits *)

\* A slot is a field of an entry; the first port of its pair is another.
LEMMA SlotFacts ==
  ASSUME NEW s \in Slots
  PROVE  /\ s = <<s[1], s[2], s[3]>> /\ EntryOf(s) \in Entries
         /\ s[1] \in DOMAIN AllFields /\ s[3] \in AllFields[s[1]]
         /\ LeadOf(s) \in Slots /\ EntryOf(LeadOf(s)) = EntryOf(s)
         /\ LeadOf(LeadOf(s)) = LeadOf(s)
<1>1. PICK e \in Entries : \E f \in AllFields[e[1]] : s = <<e[1], e[2], f>> BY DEF Slots
<1>2. PICK f \in AllFields[e[1]] : s = <<e[1], e[2], f>> BY <1>1
<1>3. e = <<e[1], e[2]>> /\ e[1] \in DOMAIN AllFields BY PortsAssumption
<1>4. s[1] = e[1] /\ s[2] = e[2] /\ s[3] = f BY <1>2
<1>5. Lead(s[1], s[3]) \in AllFields[s[1]] BY <1>3, <1>4, TableAssumption DEF TableSetsPorts
<1>6. Lead(s[1], Lead(s[1], s[3])) = Lead(s[1], s[3]) BY DEF Lead
<1>7. LeadOf(s) \in Slots BY <1>3, <1>4, <1>5 DEF LeadOf, Slots
<1> QED BY <1>2, <1>3, <1>4, <1>6, <1>7 DEF EntryOf, LeadOf

\* The entry that is visited, its row and its slots.
LEMMA VisitSlots ==
  ASSUME TypeOK, cmd.at # NoVisit
  PROVE  /\ cmd.at[1] \in 1..Len(Rows) /\ cmd.at = <<cmd.at[1], cmd.at[2]>>
         /\ EntryAt(cmd.at) \in Entries /\ EntryAt(cmd.at) = <<Row.kind, cmd.at[2]>>
         /\ RowSets(Row, Step)
         /\ \A f \in AllFields[Row.kind] :
              SlotOf(f) \in Slots /\ EntryOf(SlotOf(f)) = EntryAt(cmd.at) /\ SlotOf(f)[3] = f
         /\ \A s \in Slots : s[1] = Row.kind /\ s[2] = cmd.at[2] => s = SlotOf(s[3])
<1>1. /\ cmd.at[1] \in 1..Len(Rows) /\ cmd.at = <<cmd.at[1], cmd.at[2]>> /\ EntryAt(cmd.at) \in Entries
      /\ cmd.step \in 1..Len(Rows[cmd.at[1]].steps)
  BY DEF TypeOK, Command, Visits
<1>2. EntryAt(cmd.at) = <<Row.kind, cmd.at[2]>> BY DEF EntryAt, Row
<1>3. RowSets(Row, Step) BY <1>1, TableAssumption DEF TableSetsPorts, Row, Step
<1>4. ASSUME NEW f \in AllFields[Row.kind]
      PROVE  SlotOf(f) \in Slots /\ EntryOf(SlotOf(f)) = EntryAt(cmd.at) /\ SlotOf(f)[3] = f
  BY <1>1, <1>2 DEF Slots, SlotOf, EntryOf
<1>5. \A s \in Slots : s[1] = Row.kind /\ s[2] = cmd.at[2] => s = SlotOf(s[3])
  BY SlotFacts DEF SlotOf
<1> QED BY <1>1, <1>2, <1>3, <1>4, <1>5

\* What a step sets is listened on.
LEMMA SetsHeard ==
  ASSUME TypeOK, VisitsFit, cmd.at # NoVisit, Wanted, NEW f \in DOMAIN Step.sets
  PROVE  f \in AllFields[Row.kind] /\ Heard(SlotOf(f))
<1>1. /\ Row.away => Row.kind = "RocketMQ"
      /\ f \in AllFields[Row.kind]
      /\ Step.opt <=> <<Row.kind, f>> \in OptionalFields
      /\ <<Row.kind, f>> = <<"RocketMQ", "ControllerPort">> => Row.away
  BY VisitSlots DEF RowSets
<1>2. Row.away <=> EntryAt(cmd.at) \in Away BY DEF VisitsFit, Row
<1>3. /\ SlotOf(f) \in Slots /\ EntryOf(SlotOf(f)) = EntryAt(cmd.at)
      /\ EntryAt(cmd.at) = <<Row.kind, cmd.at[2]>>
  BY <1>1, VisitSlots
<1>4. Family(SlotOf(f)) = <<Row.kind, f>> /\ SlotOf(f)[1] = Row.kind BY DEF Family, SlotOf
<1> QED BY <1>1, <1>2, <1>3, <1>4 DEF Heard, Listeners, EntryOf, Wanted

\* What a step sets was not chosen, or its first port was not.
LEMMA SetsUnset ==
  ASSUME TypeOK, ChosenKept, FreshUnset, ~Idle, cmd.at # NoVisit, Unset, NEW f \in DOMAIN Step.sets
  PROVE  Chosen(SlotOf(f)) = 0 \/ Chosen(LeadOf(SlotOf(f))) = 0
<1> SUFFICES ASSUME Chosen(SlotOf(f)) # 0, Chosen(LeadOf(SlotOf(f))) # 0 PROVE FALSE OBVIOUS
<1>1. /\ f \in AllFields[Row.kind]
      /\ Step.lead = "none" => f \in Step.when \/ Lead(Row.kind, f) \in Step.when
      /\ Step.lead # "none" => Lead(Row.kind, f) = Step.lead
  BY VisitSlots DEF RowSets
<1>2. SlotOf(f) \in Slots BY <1>1, VisitSlots
<1>3. LeadOf(SlotOf(f)) = SlotOf(Lead(Row.kind, f)) BY DEF LeadOf, SlotOf
<1>4. LeadOf(SlotOf(f)) \in Slots /\ LeadOf(LeadOf(SlotOf(f))) = LeadOf(SlotOf(f)) BY <1>2, SlotFacts
<1>5. cmd.port[SlotOf(f)] # 0 /\ cmd.port[LeadOf(SlotOf(f))] # 0
  BY <1>2, <1>4 DEF ChosenKept
<1>6. CASE Step.lead = "none" BY <1>1, <1>3, <1>5, <1>6 DEF Unset
<1>7. CASE Step.lead # "none"
  <2>1. Lead(Row.kind, f) \in cmd.fresh BY <1>1, <1>7 DEF Unset
  <2> QED BY <1>3, <1>4, <2>1 DEF FreshUnset
<1> QED BY <1>6, <1>7

\* What a visit's step does.
LEMMA VisitFacts ==
  ASSUME TypeOK, CursorsGrow, Draw \/ Fix \/ Pass
  PROVE  /\ cmd.at # NoVisit /\ ~Idle /\ file' = file
         /\ cmd'.pc = cmd.pc /\ cmd'.entry = cmd.entry /\ cmd'.pins = cmd.pins
         /\ cmd'.on = cmd.on /\ cmd'.todo = cmd.todo
         /\ CursorsGrow'
         /\ \/ cmd'.at = NoVisit /\ cmd.step = Len(Row.steps)
            \/ cmd'.at = cmd.at /\ cmd'.step = cmd.step + 1
         /\ \/ ~(Wanted /\ Unset) /\ cmd'.port = cmd.port /\ cmd'.fresh = cmd.fresh
            \/ /\ Wanted /\ Unset /\ cmd'.fresh \subseteq cmd.fresh \cup DOMAIN Step.sets
               /\ \E p \in Nat : /\ cmd'.port = SetPorts(p) /\ p > 0
                                 /\ \/ Step.fixed
                                    \/ ~Step.fixed /\ Free(p) /\ p >= StartPort[Step.cur]
<1>1. cmd.at # NoVisit /\ ~Idle /\ file' = file BY DEF Draw, Fix, Pass, Walking, Idle
<1>2. cmd \in Command /\ Step.cur \in Cursors /\ cmd.cur \in [Cursors -> Nat] /\ StartPort \in [Cursors -> Nat \ {0}]
  BY <1>1, StepFacts, StartPortAssumption DEF TypeOK, Command
<1>3. ASSUME NEW c \in Command, c.at = cmd.at, c.step = cmd.step, cmd' = Advance(c)
      PROVE  /\ cmd'.pc = c.pc /\ cmd'.entry = c.entry /\ cmd'.pins = c.pins /\ cmd'.on = c.on
             /\ cmd'.todo = c.todo /\ cmd'.cur = c.cur /\ cmd'.port = c.port /\ cmd'.fresh = c.fresh
             /\ \/ cmd'.at = NoVisit /\ cmd.step = Len(Row.steps)
                \/ cmd'.at = cmd.at /\ cmd'.step = cmd.step + 1
  BY <1>3 DEF Advance, Command
<1>4. CASE Draw
  <2>1. PICK p \in cmd.cur[Step.cur]..MaxPort :
          /\ Free(p)
          /\ cmd' = Advance([cmd EXCEPT !.port = SetPorts(p),
                                        !.cur[Step.cur] = p + Cardinality(DOMAIN Step.sets),
                                        !.fresh = @ \cup DOMAIN Step.sets])
    BY <1>4 DEF Draw
  <2>2. /\ p \in Nat /\ p >= cmd.cur[Step.cur] /\ Cardinality(DOMAIN Step.sets) \in Nat
        /\ DOMAIN Step.sets \subseteq STRING
    BY <1>1, <1>2, <2>1, StepFacts, PortsAssumption DEF RowKeeps
  <2>3. p >= StartPort[Step.cur] /\ p > 0 BY <1>2, <2>2 DEF CursorsGrow
  <2>4. SetPorts(p) \in PortMap BY <1>1, <2>2, SetPortsType
  <2>5. PICK n \in Nat : n = p + Cardinality(DOMAIN Step.sets) BY <2>2
  <2>6. PICK cur : cur = [cmd.cur EXCEPT ![Step.cur] = n] OBVIOUS
  <2>7. PICK fresh : fresh = cmd.fresh \cup DOMAIN Step.sets OBVIOUS
  <2>8. PICK port : port = SetPorts(p) OBVIOUS
  <2>9. cur \in [Cursors -> Nat] /\ fresh \subseteq STRING /\ port \in PortMap
    BY <1>2, <2>2, <2>4, <2>5, <2>6, <2>7, <2>8 DEF Command
  <2>10. PICK c : c = [cmd EXCEPT !.port = port, !.cur = cur, !.fresh = fresh] OBVIOUS
  <2>11. cmd' = Advance(c) BY <1>2, <2>1, <2>5, <2>6, <2>7, <2>8, <2>10 DEF Command
  <2>12. /\ c \in Command /\ c.at = cmd.at /\ c.step = cmd.step /\ c.pc = cmd.pc /\ c.entry = cmd.entry
         /\ c.pins = cmd.pins /\ c.on = cmd.on /\ c.todo = cmd.todo /\ c.port = port /\ c.cur = cur /\ c.fresh = fresh
    BY <1>2, <2>9, <2>10 DEF Command
  <2>13. \A x \in Cursors : cur[x] >= StartPort[x]
    BY <1>2, <2>2, <2>3, <2>5, <2>6 DEF CursorsGrow
  <2>14. cmd'.cur = cur BY <1>3, <2>11, <2>12
  <2>15. CursorsGrow' BY <2>13, <2>14 DEF CursorsGrow
  <2>16. Wanted /\ Unset /\ ~Step.fixed BY <1>4 DEF Draw
  <2>17. cmd'.port = SetPorts(p) /\ cmd'.fresh = cmd.fresh \cup DOMAIN Step.sets
    BY <1>3, <2>7, <2>8, <2>11, <2>12
  <2>18. \E x \in Nat : /\ cmd'.port = SetPorts(x) /\ x > 0
                        /\ \/ Step.fixed
                           \/ ~Step.fixed /\ Free(x) /\ x >= StartPort[Step.cur]
    BY <2>1, <2>2, <2>3, <2>16, <2>17
  <2> QED BY <1>1, <1>3, <2>11, <2>12, <2>15, <2>16, <2>17, <2>18
<1>5. CASE Fix
  <2>1. PICK p : p = StartPort[Step.cur] OBVIOUS
  <2>2. p \in Nat /\ p > 0 BY <1>2, <2>1
  <2>3. PICK c : c = [cmd EXCEPT !.port = SetPorts(p)] OBVIOUS
  <2>4. cmd' = Advance(c) /\ Wanted /\ Unset /\ Step.fixed BY <1>5, <2>1, <2>3 DEF Fix
  <2>5. SetPorts(p) \in PortMap BY <1>1, <2>2, SetPortsType
  <2>6. /\ c \in Command /\ c.at = cmd.at /\ c.step = cmd.step /\ c.pc = cmd.pc /\ c.entry = cmd.entry
        /\ c.pins = cmd.pins /\ c.on = cmd.on /\ c.todo = cmd.todo /\ c.port = SetPorts(p) /\ c.cur = cmd.cur
        /\ c.fresh = cmd.fresh
    BY <1>2, <2>3, <2>5 DEF Command
  <2>7. cmd'.cur = cmd.cur /\ cmd'.port = SetPorts(p) /\ cmd'.fresh = cmd.fresh BY <1>3, <2>4, <2>6
  <2>8. CursorsGrow' BY <2>7 DEF CursorsGrow
  <2>9. \E x \in Nat : /\ cmd'.port = SetPorts(x) /\ x > 0
                       /\ \/ Step.fixed
                          \/ ~Step.fixed /\ Free(x) /\ x >= StartPort[Step.cur]
    BY <2>2, <2>4, <2>7
  <2> QED BY <1>1, <1>3, <2>4, <2>6, <2>7, <2>8, <2>9
<1>6. CASE Pass
  <2>1. PICK q : q = cmd.port[SlotOf(Step.head)] OBVIOUS
  <2>2. q \in Nat
    <3>1. SlotOf(Step.head) \in Slots BY <1>1, HeadSlot
    <3> QED BY <1>2, <2>1, <3>1 DEF Command, PortMap
  <2>3. Step.bump \in Nat BY <1>1, StepFacts DEF RowKeeps
  <2>4. PICK n : n = IF Step.bump > 0 /\ q >= cmd.cur[Step.cur] THEN q + Step.bump ELSE cmd.cur[Step.cur]
    OBVIOUS
  <2>5. n \in Nat /\ n >= cmd.cur[Step.cur] BY <1>2, <2>2, <2>3, <2>4
  <2>6. PICK cur : cur = [cmd.cur EXCEPT ![Step.cur] = n] OBVIOUS
  <2>7. cur \in [Cursors -> Nat] BY <1>2, <2>5, <2>6
  <2>8. PICK c : c = [cmd EXCEPT !.cur = cur] OBVIOUS
  <2>9. cmd' = Advance(c) /\ ~(Wanted /\ Unset) BY <1>2, <1>6, <2>1, <2>4, <2>6, <2>8 DEF Pass, Command
  <2>10. /\ c \in Command /\ c.at = cmd.at /\ c.step = cmd.step /\ c.pc = cmd.pc /\ c.entry = cmd.entry
         /\ c.pins = cmd.pins /\ c.on = cmd.on /\ c.todo = cmd.todo /\ c.port = cmd.port /\ c.cur = cur
         /\ c.fresh = cmd.fresh
    BY <1>2, <2>7, <2>8 DEF Command
  <2>11. \A x \in Cursors : cur[x] >= StartPort[x] BY <1>2, <2>5, <2>6 DEF CursorsGrow
  <2>12. cmd'.cur = cur /\ cmd'.port = cmd.port /\ cmd'.fresh = cmd.fresh BY <1>3, <2>9, <2>10
  <2>13. CursorsGrow' BY <2>11, <2>12 DEF CursorsGrow
  <2> QED BY <1>1, <1>3, <2>9, <2>10, <2>12, <2>13
<1> QED BY <1>4, <1>5, <1>6

-----------------------------------------------------------------------------
(* The steps of a walk *)

\* A visit's step sets ports of the entry that it visits, or none.
LEMMA VisitPorts ==
  ASSUME TypeOK, CursorsGrow, Draw \/ Fix \/ Pass, NEW s \in Slots
  PROVE  \/ /\ cmd'.port[s] = cmd.port[s]
            /\ ~(Wanted /\ Unset /\ s[1] = Row.kind /\ s[2] = cmd.at[2] /\ s[3] \in DOMAIN Step.sets)
         \/ /\ Wanted /\ Unset /\ s[3] \in DOMAIN Step.sets /\ s = SlotOf(s[3])
            /\ cmd'.port[s] # 0
<1>1. CASE ~(Wanted /\ Unset) BY <1>1, VisitFacts
<1>2. CASE Wanted /\ Unset
  <2>1. PICK p \in Nat : cmd'.port = SetPorts(p) /\ p > 0 BY <1>2, VisitFacts
  <2>2. CASE s[1] = Row.kind /\ s[2] = cmd.at[2] /\ s[3] \in DOMAIN Step.sets
    <3>1. cmd'.port[s] = p + Step.sets[s[3]] BY <2>1, <2>2 DEF SetPorts
    <3>2. cmd.at # NoVisit BY VisitFacts
    <3>3. Step.sets[s[3]] \in Nat BY <2>2, <3>2, StepFacts DEF RowKeeps
    <3>4. s = SlotOf(s[3]) BY <2>2, <3>2, VisitSlots
    <3> QED BY <1>2, <2>1, <2>2, <3>1, <3>3, <3>4
  <2>3. CASE ~(s[1] = Row.kind /\ s[2] = cmd.at[2] /\ s[3] \in DOMAIN Step.sets)
    BY <2>1, <2>3 DEF SetPorts
  <2> QED BY <2>2, <2>3
<1> QED BY <1>1, <1>2

\* Behind the step that was taken, every port that it sets by itself is set.
LEMMA VisitSets ==
  ASSUME TypeOK, VisitsFit, CursorsGrow, VisitedSet, Draw \/ Fix \/ Pass
  PROVE  VisitedSet'
<1>0. /\ cmd.at # NoVisit /\ ~Idle /\ cmd'.on = cmd.on /\ cmd'.todo = cmd.todo
      /\ \/ cmd'.at = NoVisit /\ cmd.step = Len(Row.steps)
         \/ cmd'.at = cmd.at /\ cmd'.step = cmd.step + 1
  BY VisitFacts
<1>1. cmd.step \in Nat /\ Len(Row.steps) \in Nat BY <1>0, StepFacts
<1> SUFFICES ASSUME NEW s \in Slots, EntryOf(s) \in cmd.on, Heard(s),
                    NEW r \in 1..Len(Rows), NEW i \in 1..Len(Rows[r].steps),
                    Sets(r, i, s), Behind(r, i, s)'
             PROVE  cmd'.port[s] # 0
  BY <1>0 DEF VisitedSet, Sets, SetsAlone
<1>2. CASE Behind(r, i, s)
  <2>1. cmd.port[s] # 0 BY <1>0, <1>2 DEF VisitedSet
  <2> QED BY <2>1, VisitPorts
<1>3. CASE ~Behind(r, i, s)
  <2>1. <<r, s[2]>> \notin cmd.todo /\ (cmd'.at = <<r, s[2]>> => cmd'.step > i) BY <1>0 DEF Behind
  <2>2. cmd.at = <<r, s[2]>> /\ ~(cmd.step > i) BY <1>3, <2>1 DEF Behind
  <2>3. Row = Rows[r] /\ cmd.at[2] = s[2] BY <2>2 DEF Row
  <2>4. i \in 1..Len(Row.steps) /\ i \in Nat /\ Len(Rows[r].steps) = Len(Row.steps) BY <1>1, <2>3
  <2>5. i = cmd.step
    <3>1. CASE cmd'.at = NoVisit /\ cmd.step = Len(Row.steps) BY <1>1, <2>2, <2>4, <3>1
    <3>2. CASE cmd'.at = cmd.at /\ cmd'.step = cmd.step + 1 BY <1>1, <2>1, <2>2, <2>4, <3>2
    <3> QED BY <1>0, <3>1, <3>2
  <2>6. SetsAlone(Step, s[3]) /\ s[1] = Row.kind BY <2>3, <2>5 DEF Sets, Step
  <2>7. Step.lead = "none" /\ Step.when = {s[3]} /\ s[3] \in DOMAIN Step.sets BY <2>6 DEF SetsAlone
  <2>8. s = SlotOf(s[3]) BY <1>0, <2>3, <2>6, VisitSlots
  <2>9. Wanted
    <3>1. Step.opt => <<Row.kind, s[3]>> \in OptionalFields BY <1>0, <2>7, VisitSlots DEF RowSets
    <3>2. Family(s) \in OptionalFields => EntryOf(s) \in Optional BY DEF Heard, Listeners
    <3> QED BY <2>3, <2>6, <3>1, <3>2 DEF Wanted, Family, EntryOf
  <2>10. CASE Unset BY <2>3, <2>6, <2>7, <2>9, <2>10, VisitPorts
  <2>11. CASE ~Unset
    <3>1. cmd.port[s] # 0 BY <2>7, <2>8, <2>11 DEF Unset
    <3>2. cmd'.port[s] = cmd.port[s] BY <2>11, VisitPorts
    <3> QED BY <3>1, <3>2
  <2> QED BY <2>10, <2>11
<1> QED BY <1>2, <1>3

\* A visit's step keeps the invariant.
LEMMA VisitKeeps ==
  ASSUME WInv, Draw \/ Fix \/ Pass
  PROVE  WInv'
<1>0. /\ TypeOK /\ VisitsFit /\ CursorsGrow /\ CopyFits /\ OffIsUnset /\ FileSet
      /\ ChosenKept /\ UnheardKept /\ FreshUnset /\ VisitedSet
  BY DEF WInv
<1>1. /\ cmd.at # NoVisit /\ ~Idle /\ file' = file
      /\ cmd'.pc = cmd.pc /\ cmd'.entry = cmd.entry /\ cmd'.pins = cmd.pins
      /\ cmd'.on = cmd.on /\ cmd'.todo = cmd.todo
      /\ cmd'.at = NoVisit \/ cmd'.at = cmd.at
      /\ \/ cmd'.fresh \subseteq cmd.fresh
         \/ Wanted /\ Unset /\ cmd'.fresh \subseteq cmd.fresh \cup DOMAIN Step.sets
  BY <1>0, VisitFacts
<1>2. TypeOK' BY <1>0, TypeStep DEF Next
<1>3. CursorsGrow' BY <1>0, VisitFacts
<1>4. VisitsFit' BY <1>0, <1>1 DEF VisitsFit
<1>5. CopyFits' BY <1>0, <1>1 DEF CopyFits
<1>6. FileSet' BY <1>0, <1>1 DEF FileSet
<1>7. VisitedSet' BY <1>0, VisitSets
<1>8. \A s \in Slots : Chosen(s)' = Chosen(s) BY <1>1 DEF Chosen
<1>9. ASSUME NEW s \in Slots, cmd'.port[s] # cmd.port[s]
      PROVE  EntryOf(s) \in cmd.on /\ Heard(s) /\ (Chosen(s) = 0 \/ Chosen(LeadOf(s)) = 0)
  <2>1. Wanted /\ Unset /\ s[3] \in DOMAIN Step.sets /\ s = SlotOf(s[3]) BY <1>0, <1>9, VisitPorts
  <2>2. s[3] \in AllFields[Row.kind] /\ Heard(s) BY <1>0, <1>1, <2>1, SetsHeard
  <2>3. EntryOf(s) = EntryAt(cmd.at) BY <1>0, <1>1, <2>1, <2>2, VisitSlots
  <2>4. EntryAt(cmd.at) \in cmd.on BY <1>0, <1>1 DEF VisitsFit
  <2>5. Chosen(s) = 0 \/ Chosen(LeadOf(s)) = 0 BY <1>0, <1>1, <2>1, SetsUnset
  <2> QED BY <2>2, <2>3, <2>4, <2>5
<1>10. OffIsUnset' BY <1>0, <1>1, <1>9 DEF OffIsUnset
<1>11. ChosenKept'
  <2>1. \A s \in Slots : LeadOf(s) \in Slots BY SlotFacts
  <2> SUFFICES ASSUME NEW s \in Slots, Chosen(s) # 0, Chosen(LeadOf(s)) # 0 PROVE cmd'.port[s] = Chosen(s)
    BY <1>8, <2>1 DEF ChosenKept
  <2> QED BY <1>0, <1>1, <1>9 DEF ChosenKept
<1>12. UnheardKept'
  <2> SUFFICES ASSUME NEW s \in Slots, ~Heard(s), cmd.pins[s] = 0 PROVE cmd'.port[s] = file.port[s]
    BY <1>1 DEF UnheardKept
  <2> QED BY <1>0, <1>1, <1>9 DEF UnheardKept
<1>13. FreshUnset'
  <2> SUFFICES ASSUME cmd'.at # NoVisit PROVE FreshUnset'
    BY DEF FreshUnset
  <2>1. cmd'.at = cmd.at /\ Row' = Row BY <1>1 DEF Row
  <2>2. \A f : SlotOf(f)' = SlotOf(f) BY <2>1 DEF SlotOf
  <2>3. ASSUME NEW f \in cmd'.fresh
        PROVE  f \in AllFields[Row.kind] /\ (Chosen(SlotOf(f)) = 0 \/ Chosen(LeadOf(SlotOf(f))) = 0)
    <3>1. CASE f \in cmd.fresh BY <1>0, <1>1, <3>1 DEF FreshUnset
    <3>2. CASE f \notin cmd.fresh
      <4>1. Wanted /\ Unset /\ f \in DOMAIN Step.sets BY <1>1, <3>2
      <4>2. f \in AllFields[Row.kind] BY <1>0, <1>1, <4>1, SetsHeard
      <4>3. Chosen(SlotOf(f)) = 0 \/ Chosen(LeadOf(SlotOf(f))) = 0 BY <1>0, <1>1, <4>1, SetsUnset
      <4> QED BY <4>2, <4>3
    <3> QED BY <3>1, <3>2
  <2>4. \A f \in AllFields[Row.kind] : SlotOf(f) \in Slots /\ LeadOf(SlotOf(f)) \in Slots
    BY <1>0, <1>1, VisitSlots, SlotFacts
  <2>5. \A f \in cmd'.fresh : /\ f \in AllFields[Row.kind]
                              /\ Chosen(SlotOf(f))' = 0 \/ Chosen(LeadOf(SlotOf(f)))' = 0
    BY <1>8, <2>2, <2>3, <2>4
  <2> QED BY <2>1, <2>5 DEF FreshUnset
<1> QED BY <1>2, <1>3, <1>4, <1>5, <1>6, <1>7, <1>10, <1>11, <1>12, <1>13 DEF WInv

\* Every port that stands alone is set by a step of a row for its entry.
LEMMA Covered ==
  ASSUME NEW s \in Slots, Heard(s), LeadOf(s) = s
  PROVE  \E r \in 1..Len(Rows) : \E i \in 1..Len(Rows[r].steps) : Sets(r, i, s)
<1>1. s = <<s[1], s[2], s[3]>> /\ s[1] \in DOMAIN AllFields /\ s[3] \in AllFields[s[1]] BY SlotFacts
<1>2. Lead(s[1], s[3]) = s[3] BY <1>1 DEF LeadOf
<1>3. PICK away \in BOOLEAN : away <=> EntryOf(s) \in Away OBVIOUS
<1>4. /\ away => s[1] = "RocketMQ"
      /\ <<s[1], s[3]>> = <<"RocketMQ", "ControllerPort">> => away
  BY <1>3 DEF Heard, Listeners, Family, EntryOf
<1>5. PICK r \in 1..Len(Rows) :
        /\ Rows[r].kind = s[1] /\ Rows[r].away = away
        /\ \E i \in 1..Len(Rows[r].steps) : SetsAlone(Rows[r].steps[i], s[3])
  BY <1>1, <1>2, <1>4, TableAssumption DEF TableSetsPorts
<1> QED BY <1>3, <1>5 DEF Sets

\* The ports of a pair or block are listened on together.
LEMMA HeardTogether ==
  ASSUME NEW s \in Slots, LeadOf(s) # s
  PROVE  Heard(s) <=> Heard(LeadOf(s))
<1>1. /\ s = <<s[1], s[2], s[3]>> /\ LeadOf(s) \in Slots /\ EntryOf(LeadOf(s)) = EntryOf(s)
  BY SlotFacts
<1>2. s[1] \in {"Etcd", "PgDog", "VMCluster"} BY <1>1 DEF LeadOf, Lead
<1>3. LeadOf(s)[1] = s[1] BY DEF LeadOf
<1>4. \A f : /\ <<s[1], f>> \notin OptionalFields
             /\ <<s[1], f>> # <<"RocketMQ", "ControllerPort">>
  BY <1>2 DEF OptionalFields
<1>5. /\ Family(s) \notin OptionalFields /\ Family(s) # <<"RocketMQ", "ControllerPort">>
      /\ Family(LeadOf(s)) \notin OptionalFields /\ Family(LeadOf(s)) # <<"RocketMQ", "ControllerPort">>
  BY <1>3, <1>4 DEF Family
<1> QED BY <1>1, <1>3, <1>5 DEF Heard, Listeners, EntryOf

\* The walk starts with every visit before it.
LEMMA StartFits ==
  ASSUME NEW c \in Command, NEW pc \in {"load", "apply"}, NEW on \in SUBSET Entries,
         NEW port \in PortMap, NEW used \in SUBSET Nat, cmd' = StartWalk(c, pc, on, port, used)
  PROVE  /\ cmd'.pc = pc /\ cmd'.on = on /\ cmd'.port = port /\ cmd'.entry = c.entry
         /\ cmd'.pins = c.pins /\ cmd'.op = c.op
         /\ VisitsFit' /\ CursorsGrow' /\ FreshUnset' /\ VisitedSet'
<1>1. /\ cmd'.pc = pc /\ cmd'.on = on /\ cmd'.port = port /\ cmd'.entry = c.entry /\ cmd'.pins = c.pins
      /\ cmd'.op = c.op /\ cmd'.at = NoVisit /\ cmd'.cur = StartPort
      /\ cmd'.todo = {v \in Visits : EntryAt(v) \in on /\ (Rows[v[1]].away <=> EntryAt(v) \in Away)}
  BY DEF StartWalk, Command
<1>2. VisitsFit' BY <1>1 DEF VisitsFit
<1>3. CursorsGrow' BY <1>1, StartPortAssumption DEF CursorsGrow
<1>4. FreshUnset' BY <1>1 DEF FreshUnset
<1>5. VisitedSet'
  <2> SUFFICES ASSUME NEW s \in Slots, EntryOf(s) \in on, NEW r \in 1..Len(Rows),
                      NEW i \in 1..Len(Rows[r].steps), Sets(r, i, s), <<r, s[2]>> \notin cmd'.todo
               PROVE  FALSE
    BY <1>1 DEF VisitedSet, Behind
  <2>1. EntryAt(<<r, s[2]>>) = EntryOf(s) BY DEF Sets, EntryAt, EntryOf
  <2>2. EntryOf(s) \in Entries /\ s[2] = EntryOf(s)[2] BY SlotFacts DEF EntryOf
  <2>3. s[2] \in {e[2] : e \in Entries} BY <2>2
  <2>4. <<r, s[2]>> \in Visits BY <2>1, <2>2, <2>3 DEF Visits
  <2>5. Rows[r].away <=> EntryOf(s) \in Away BY DEF Sets
  <2> QED BY <1>1, <2>1, <2>4, <2>5
<1> QED BY <1>1, <1>2, <1>3, <1>4, <1>5

\* A command that has ended leaves what the file says.
LEMMA EndFits ==
  ASSUME TypeOK', FileSet', cmd' = NoCommand,
         \A s \in Slots : EntryOf(s) \notin file'.on => file'.port[s] = 0
  PROVE  WInv'
<1>1. /\ cmd'.pc = "idle" /\ cmd'.todo = {} /\ cmd'.at = NoVisit /\ cmd'.cur = StartPort
      /\ cmd'.pins = NoPorts /\ cmd'.port = NoPorts
  BY DEF NoCommand
<1>2. VisitsFit' BY <1>1 DEF VisitsFit
<1>3. CursorsGrow' BY <1>1, StartPortAssumption DEF CursorsGrow
<1>4. CopyFits' BY <1>1 DEF CopyFits, NoPorts
<1>5. OffIsUnset' BY <1>1 DEF OffIsUnset, NoPorts
<1>6. Idle' BY <1>1 DEF Idle
<1>7. ChosenKept' BY <1>6 DEF ChosenKept
<1>8. UnheardKept' BY <1>6 DEF UnheardKept
<1>9. FreshUnset' BY <1>1 DEF FreshUnset
<1>10. VisitedSet' BY <1>6 DEF VisitedSet
<1> QED BY <1>2, <1>3, <1>4, <1>5, <1>7, <1>8, <1>9, <1>10 DEF WInv

\* A command that loads the file starts its first walk.
LEMMA LoadKeeps ==
  ASSUME WInv, NEW op \in {"install", "remove"}, NEW e \in Entries, Load(op, e)
  PROVE  WInv'
<1>0. TypeOK /\ OffIsUnset /\ FileSet BY DEF WInv
<1>1. TypeOK' BY <1>0, TypeStep DEF Next
<1>2. PICK c : c = [NoCommand EXCEPT !.op = op, !.entry = e] OBVIOUS
<1>3. c \in Command /\ c.pins = NoPorts BY <1>2, ConstTypes DEF Command, NoCommand
<1>4. PICK used \in Listening : cmd' = StartWalk(c, "load", file.on, file.port, used) BY <1>2 DEF Load
<1>5. file.on \in SUBSET Entries /\ file.port \in PortMap /\ used \in SUBSET Nat
  BY <1>0, PortsAssumption DEF TypeOK
<1>6. /\ cmd'.pc = "load" /\ cmd'.on = file.on /\ cmd'.port = file.port /\ cmd'.pins = NoPorts
      /\ VisitsFit' /\ CursorsGrow' /\ FreshUnset' /\ VisitedSet'
  BY <1>3, <1>4, <1>5, StartFits
<1>7. file' = file BY DEF Load
<1>8. CopyFits' BY <1>6, <1>7 DEF CopyFits, NoPorts
<1>9. OffIsUnset' BY <1>0, <1>6, <1>7 DEF OffIsUnset
<1>10. FileSet' BY <1>0, <1>7 DEF FileSet
<1>11. \A s \in Slots : Chosen(s)' = file.port[s] BY <1>6, <1>7 DEF Chosen, NoPorts
<1>12. ChosenKept' BY <1>6, <1>11 DEF ChosenKept
<1>13. UnheardKept' BY <1>6, <1>7 DEF UnheardKept
<1> QED BY <1>1, <1>6, <1>8, <1>9, <1>10, <1>12, <1>13 DEF WInv

\* The walk goes on to its next entry, or ends.
LEMMA NextEntryKeeps ==
  ASSUME WInv, NextEntry
  PROVE  WInv'
<1>0. /\ TypeOK /\ VisitsFit /\ CursorsGrow /\ CopyFits /\ OffIsUnset /\ FileSet
      /\ ChosenKept /\ UnheardKept /\ VisitedSet
  BY DEF WInv
<1>1. TypeOK' BY <1>0, TypeStep DEF Next
<1>2. PICK v \in cmd.todo : cmd' = [cmd EXCEPT !.at = v, !.step = 1, !.fresh = {}, !.todo = @ \ {v}]
  BY DEF NextEntry
<1>3. /\ cmd'.pc = cmd.pc /\ cmd'.entry = cmd.entry /\ cmd'.pins = cmd.pins /\ cmd'.on = cmd.on
      /\ cmd'.port = cmd.port /\ cmd'.cur = cmd.cur /\ cmd'.todo = cmd.todo \ {v} /\ cmd'.at = v
      /\ cmd'.step = 1 /\ cmd'.fresh = {} /\ file' = file /\ cmd.at = NoVisit /\ ~Idle
  BY <1>0, <1>2 DEF NextEntry, Walking, Idle, TypeOK, Command
<1>4. VisitsFit' BY <1>0, <1>3 DEF VisitsFit
<1>5. CursorsGrow' BY <1>0, <1>3 DEF CursorsGrow
<1>6. CopyFits' BY <1>0, <1>3 DEF CopyFits
<1>7. OffIsUnset' BY <1>0, <1>3 DEF OffIsUnset
<1>8. FileSet' BY <1>0, <1>3 DEF FileSet
<1>9. \A s \in Slots : Chosen(s)' = Chosen(s) /\ LeadOf(s) \in Slots BY <1>3, SlotFacts DEF Chosen
<1>10. ChosenKept' BY <1>0, <1>3, <1>9 DEF ChosenKept
<1>11. UnheardKept' BY <1>0, <1>3 DEF UnheardKept
<1>12. FreshUnset' BY <1>3 DEF FreshUnset
<1>13. VisitedSet'
  <2> SUFFICES ASSUME NEW s \in Slots, EntryOf(s) \in cmd.on, Heard(s),
                      NEW r \in 1..Len(Rows), NEW i \in 1..Len(Rows[r].steps),
                      Sets(r, i, s), Behind(r, i, s)'
               PROVE  cmd.port[s] # 0
    BY <1>3 DEF VisitedSet, Sets, SetsAlone
  <2>1. <<r, s[2]>> \notin cmd.todo \ {v} /\ (v = <<r, s[2]>> => 1 > i) BY <1>3 DEF Behind
  <2>2. v # <<r, s[2]>> BY <2>1
  <2>3. NoVisit # <<r, s[2]>> BY DEF NoVisit
  <2>4. Behind(r, i, s) BY <1>3, <2>1, <2>2, <2>3 DEF Behind
  <2> QED BY <1>0, <1>3, <2>4 DEF VisitedSet
<1> QED BY <1>1, <1>4, <1>5, <1>6, <1>7, <1>8, <1>10, <1>11, <1>12, <1>13 DEF WInv

\* What ApplyFlags does: the pins go over what was walked.
LEMMA FlagFacts ==
  ASSUME TypeOK, NEW pins \in Pins, ~Idle, ApplyFlags(pins)
  PROVE  /\ cmd.pc = "load" /\ file' = file /\ cmd'.pc = "apply" /\ cmd'.entry = cmd.entry
         /\ cmd.entry \in Entries /\ cmd'.on = cmd.on \cup {cmd.entry}
         /\ \A s \in Slots : /\ cmd'.pins[s] # 0 => EntryOf(s) = cmd.entry
                             /\ cmd'.port[s] = IF cmd'.pins[s] # 0 THEN cmd'.pins[s] ELSE cmd.port[s]
         /\ VisitsFit' /\ CursorsGrow' /\ FreshUnset' /\ VisitedSet'
<1>1. PICK pinned : pinned = [s \in Slots |->
         IF <<s[1], s[2]>> = cmd.entry /\ s[3] \in DOMAIN pins THEN pins[s[3]] ELSE 0]
  OBVIOUS
<1>2. PICK port : port = [s \in Slots |-> IF pinned[s] # 0 THEN pinned[s] ELSE cmd.port[s]] OBVIOUS
<1>3. PICK on : on = cmd.on \cup {cmd.entry} OBVIOUS
<1>4. PICK c : c = [cmd EXCEPT !.pins = pinned] OBVIOUS
<1>5. PICK used \in Listening : cmd' = StartWalk(c, "apply", on, port, used)
  BY <1>1, <1>2, <1>3, <1>4 DEF ApplyFlags
<1>6. \A f \in DOMAIN pins : pins[f] \in Nat
  <2>1. PICK F \in SUBSET AllFields[cmd.entry[1]] : pins \in [F -> PinPorts] BY DEF Pins
  <2> QED BY <2>1, PortsAssumption
<1>7. pinned \in PortMap BY <1>1, <1>6 DEF PortMap
<1>8. port \in PortMap BY <1>2, <1>7 DEF PortMap, TypeOK, Command
<1>9. c \in Command /\ c.entry = cmd.entry /\ c.pins = pinned BY <1>4, <1>7 DEF TypeOK, Command
<1>10. cmd.entry \in Entries BY DEF TypeOK
<1>11. on \in SUBSET Entries /\ used \in SUBSET Nat BY <1>3, <1>10, PortsAssumption DEF TypeOK, Command
<1>12. /\ cmd'.pc = "apply" /\ cmd'.on = on /\ cmd'.port = port /\ cmd'.entry = cmd.entry
       /\ cmd'.pins = pinned /\ VisitsFit' /\ CursorsGrow' /\ FreshUnset' /\ VisitedSet'
  BY <1>5, <1>8, <1>9, <1>11, StartFits
<1>13. ASSUME NEW s \in Slots
       PROVE  /\ pinned[s] # 0 => EntryOf(s) = cmd.entry
              /\ port[s] = IF pinned[s] # 0 THEN pinned[s] ELSE cmd.port[s]
  BY <1>1, <1>2 DEF EntryOf
<1>14. cmd.pc = "load" /\ file' = file BY DEF ApplyFlags
<1> QED BY <1>3, <1>10, <1>12, <1>13, <1>14

\* The flags are applied after the first walk, and the second one starts.
LEMMA FlagsKeep ==
  ASSUME WInv, NEW pins \in Pins, ~Idle, ApplyFlags(pins)
  PROVE  WInv'
<1>0. TypeOK /\ CopyFits /\ OffIsUnset /\ FileSet /\ ChosenKept /\ UnheardKept BY DEF WInv
<1>1. TypeOK' BY <1>0, TypeStep DEF Next
<1>2. /\ cmd.pc = "load" /\ file' = file /\ cmd'.pc = "apply" /\ cmd'.entry = cmd.entry
      /\ cmd.entry \in Entries /\ cmd'.on = cmd.on \cup {cmd.entry}
      /\ \A s \in Slots : /\ cmd'.pins[s] # 0 => EntryOf(s) = cmd.entry
                          /\ cmd'.port[s] = IF cmd'.pins[s] # 0 THEN cmd'.pins[s] ELSE cmd.port[s]
      /\ VisitsFit' /\ CursorsGrow' /\ FreshUnset' /\ VisitedSet'
  BY <1>0, FlagFacts
<1>3. cmd.on = file.on /\ \A s \in Slots : cmd.pins[s] = 0 BY <1>0, <1>2 DEF CopyFits, NoPorts
<1>4. CopyFits' BY <1>2, <1>3 DEF CopyFits
<1>5. OffIsUnset' BY <1>0, <1>2 DEF OffIsUnset
<1>6. FileSet' BY <1>0, <1>2 DEF FileSet
<1>7. UnheardKept' BY <1>0, <1>2, <1>3 DEF UnheardKept
<1>8. ASSUME NEW s \in Slots, file.port[s] # 0 PROVE cmd.port[s] = file.port[s]
  <2>1. LeadOf(s) \in Slots /\ EntryOf(LeadOf(s)) = EntryOf(s) /\ LeadOf(LeadOf(s)) = LeadOf(s) BY SlotFacts
  <2>2. Chosen(s) = file.port[s] /\ Chosen(LeadOf(s)) = file.port[LeadOf(s)] BY <1>3, <2>1 DEF Chosen
  <2>3. CASE ~Heard(s) BY <1>0, <1>3, <2>3 DEF UnheardKept
  <2>4. CASE Heard(s)
    <3>1. EntryOf(s) \in file.on BY <1>0, <1>8 DEF OffIsUnset
    <3>2. file.port[LeadOf(s)] # 0
      <4>1. CASE LeadOf(s) = s BY <1>8, <4>1
      <4>2. CASE LeadOf(s) # s
        <5>1. Heard(LeadOf(s)) BY <2>4, <4>2, HeardTogether
        <5> QED BY <1>0, <2>1, <3>1, <5>1 DEF FileSet
      <4> QED BY <4>1, <4>2
    <3> QED BY <1>0, <1>8, <2>2, <3>2 DEF ChosenKept
  <2> QED BY <2>3, <2>4
<1>9. ChosenKept'
  <2> SUFFICES ASSUME NEW s \in Slots, Chosen(s)' # 0 PROVE cmd'.port[s] = Chosen(s)'
    BY DEF ChosenKept
  <2>1. Chosen(s)' = IF cmd'.pins[s] # 0 THEN cmd'.pins[s] ELSE file.port[s] BY <1>2 DEF Chosen
  <2> QED BY <1>2, <1>8, <2>1
<1> QED BY <1>1, <1>2, <1>4, <1>5, <1>6, <1>7, <1>9 DEF WInv

\* After the walk every port that stands alone is set.
LEMMA WalkedSet ==
  ASSUME VisitedSet, ~Idle, Walked, NEW s \in Slots, EntryOf(s) \in cmd.on, Heard(s), LeadOf(s) = s
  PROVE  cmd.port[s] # 0
<1>1. PICK r \in 1..Len(Rows) : \E i \in 1..Len(Rows[r].steps) : Sets(r, i, s) BY Covered
<1>2. PICK i \in 1..Len(Rows[r].steps) : Sets(r, i, s) BY <1>1
<1>3. NoVisit # <<r, s[2]>> BY DEF NoVisit
<1>4. Behind(r, i, s) BY <1>3 DEF Behind, Walked
<1> QED BY <1>2, <1>4 DEF VisitedSet

\* What Save writes: the config in memory, or that without the entry that goes.
LEMMA SaveFacts ==
  ASSUME TypeOK, Save
  PROVE  /\ ~Idle /\ Walked /\ cmd' = NoCommand
         /\ \/ /\ cmd.pc = "apply" /\ file'.on = cmd.on /\ file'.port = cmd.port
               /\ cmd.entry[1] \in Validating => Validate(cmd.on, cmd.port)
            \/ /\ cmd.pc = "load" /\ file'.on = cmd.on \ {cmd.entry}
               /\ \A s \in Slots : file'.port[s] = IF EntryOf(s) = cmd.entry THEN 0 ELSE cmd.port[s]
BY DEF Save, Idle, EntryOf

\* What is saved has been walked.
LEMMA SaveKeeps ==
  ASSUME WInv, Save
  PROVE  WInv'
<1>0. TypeOK /\ OffIsUnset /\ VisitedSet BY DEF WInv
<1>1. TypeOK' BY <1>0, TypeStep DEF Next
<1>2. ~Idle /\ Walked /\ cmd' = NoCommand BY <1>0, SaveFacts
<1>3. CASE cmd.pc = "apply" /\ file'.on = cmd.on /\ file'.port = cmd.port
  <2>1. FileSet' BY <1>0, <1>2, <1>3, WalkedSet DEF FileSet
  <2>2. \A s \in Slots : EntryOf(s) \notin file'.on => file'.port[s] = 0 BY <1>0, <1>3 DEF OffIsUnset
  <2> QED BY <1>1, <1>2, <2>1, <2>2, EndFits
<1>4. CASE /\ cmd.pc = "load" /\ file'.on = cmd.on \ {cmd.entry}
           /\ \A s \in Slots : file'.port[s] = IF EntryOf(s) = cmd.entry THEN 0 ELSE cmd.port[s]
  <2>1. FileSet' BY <1>0, <1>2, <1>4, WalkedSet DEF FileSet
  <2>2. \A s \in Slots : EntryOf(s) \notin file'.on => file'.port[s] = 0 BY <1>0, <1>4 DEF OffIsUnset
  <2> QED BY <1>1, <1>2, <2>1, <2>2, EndFits
<1> QED BY <1>0, <1>3, <1>4, SaveFacts

\* Every step keeps what a walk has done.
LEMMA WStep ==
  ASSUME WInv, [Next]_vars
  PROVE  WInv'
<1>1. ASSUME NEW op \in {"install", "remove"}, NEW e \in Entries, Load(op, e) PROVE WInv'
  BY <1>1, LoadKeeps
<1>2. CASE NextEntry BY <1>2, NextEntryKeeps
<1>3. CASE Draw \/ Fix \/ Pass BY <1>3, VisitKeeps
<1>4. ASSUME NEW pins \in Pins, ~Idle, ApplyFlags(pins) PROVE WInv' BY <1>4, FlagsKeep
<1>5. CASE Save BY <1>5, SaveKeeps
<1>6. CASE Fail
  <2>1. TypeOK' BY <1>6, TypeStep DEF WInv, Next
  <2>2. cmd' = NoCommand /\ file' = file BY <1>6 DEF Fail
  <2>3. FileSet' BY <2>2 DEF WInv, FileSet
  <2>4. \A s \in Slots : EntryOf(s) \notin file'.on => file'.port[s] = 0 BY <2>2 DEF WInv, OffIsUnset
  <2> QED BY <2>1, <2>2, <2>3, <2>4, EndFits
<1>7. CASE UNCHANGED vars
  <2>1. cmd' = cmd /\ file' = file BY <1>7 DEF vars
  <2> QED BY <2>1 DEF WInv, TypeOK, VisitsFit, CursorsGrow, CopyFits, OffIsUnset, FileSet, ChosenKept, UnheardKept,
                      FreshUnset, VisitedSet, Behind, Chosen, Row, SlotOf, Idle
<1> QED BY <1>1, <1>2, <1>3, <1>4, <1>5, <1>6, <1>7 DEF Next

\* Nothing is in the first file.
LEMMA InitWInv ==
  ASSUME Init
  PROVE  WInv
<1>1. TypeOK BY InitPInv DEF PInv
<1>2. /\ cmd.pc = "idle" /\ cmd.todo = {} /\ cmd.at = NoVisit /\ cmd.cur = StartPort
      /\ cmd.pins = NoPorts /\ cmd.port = NoPorts /\ file.on = {} /\ file.port = NoPorts
  BY DEF Init, NoCommand
<1>3. VisitsFit /\ CopyFits /\ OffIsUnset /\ FileSet /\ FreshUnset
  BY <1>2 DEF VisitsFit, CopyFits, OffIsUnset, FileSet, FreshUnset, NoPorts
<1>4. CursorsGrow BY <1>2, StartPortAssumption DEF CursorsGrow
<1>5. ChosenKept /\ UnheardKept /\ VisitedSet BY <1>2 DEF ChosenKept, UnheardKept, VisitedSet, Idle
<1> QED BY <1>1, <1>3, <1>4, <1>5 DEF WInv

\* The invariant of the walk.
LEMMA WInvHolds == Spec => []WInv
<1>1. Init => WInv BY InitWInv
<1>2. WInv /\ [Next]_vars => WInv' BY WStep
<1> QED BY <1>1, <1>2, PTL DEF Spec

\* The walk of autoAssignPorts leaves no port of a saved entry unset, whichever
\* ports were pinned: each row of the table is visited for every entry before
\* Save, and what a later removal writes is as complete as what it read.
THEOREM PortsAreSet == Spec => []SavedPortsAreSet
<1>1. ASSUME WInv PROVE SavedPortsAreSet
  <2> SUFFICES ASSUME NEW e \in file.on, NEW s \in Listeners(e), LeadOf(s) = s PROVE file.port[s] # 0
    BY DEF SavedPortsAreSet
  <2>1. s \in Slots /\ EntryOf(s) = e /\ Heard(s) BY DEF Listeners, EntryOf, Heard
  <2> QED BY <1>1, <2>1 DEF WInv, FileSet
<1> QED BY <1>1, WInvHolds, PTL

\* No command changes a port that was in the file or was pinned, in the entry
\* that it installs or in any other: neither the walk of its Load, nor that of
\* its ApplyDefaults, nor its Save.
THEOREM ChosenStay == Spec => PortsRespected
<1> DEFINE A == \A s \in Slots :
                   /\ file' # file /\ <<s[1], s[2]>> \in file'.on
                   /\ Chosen(s) # 0 /\ Chosen(LeadOf(s)) # 0
                   => file'.port[s] = Chosen(s)
<1>1. ASSUME WInv, [Next]_vars PROVE [A]_vars
  <2>1. CASE Save
    <3>1. \A s \in Slots : Chosen(s) # 0 /\ Chosen(LeadOf(s)) # 0 => cmd.port[s] = Chosen(s)
      BY <1>1, <2>1, SaveFacts DEF WInv, ChosenKept
    <3>2. ASSUME NEW s \in Slots, <<s[1], s[2]>> \in file'.on PROVE file'.port[s] = cmd.port[s]
      BY <1>1, <2>1, <3>2, SaveFacts DEF WInv, EntryOf
    <3> QED BY <3>1, <3>2
  <2>2. CASE file' = file BY <2>2
  <2> QED BY <1>1, <2>1, <2>2 DEF Next, Load, NextEntry, Draw, Fix, Pass, ApplyFlags, Fail, vars
<1>2. Spec => [][A]_vars BY <1>1, WInvHolds, PTL DEF Spec
<1> QED BY <1>2 DEF PortsRespected

-----------------------------------------------------------------------------
(* What Validate says of a config *)

\* Validate in terms of the ports it looks at.
Clustered(on) == {e \in on \cap Away : e[1] = "RocketMQ"}
Accepts(on, port) ==
  /\ \A s \in Looked(on) :
       /\ s[1] \notin {"InfluxDB", "PGExporter"} => port[s] # 0
       /\ port[s] # 0 => Occupies(Family(s), port[s]) \subseteq Nat \ {0}
  /\ \A s, t \in Looked(on) : Distinct(port, s, t)
  /\ \A s \in Slots \ Looked(on) :
       EntryOf(s) \in on /\ s[1] \in {"ClickHouse", "RabbitMQ", "RocketMQ"} => port[s] = 0
  /\ Cardinality(Clustered(on)) <= 1
  /\ \A s \in Looked(on) : EntryOf(s) \in Clustered(on) => port[s] = StartPort[RocketMQBase[s[3]]]

\* Validate says no more and no less than Accepts.
LEMMA ValidateMeans ==
  ASSUME NEW on \in SUBSET Entries, NEW port
  PROVE  Validate(on, port) <=> Accepts(on, port)
<1>1. PICK L : L = UNION {Listeners(e) : e \in {d \in on : d[1] \in Validating}} OBVIOUS
<1>2. L = Looked(on)
  <2>1. ASSUME NEW s \in L PROVE s \in Looked(on)
    <3>1. PICK e \in on : e[1] \in Validating /\ s \in Listeners(e) BY <1>1, <2>1
    <3>2. s \in Slots /\ EntryOf(s) = e BY <3>1 DEF Listeners, EntryOf
    <3>3. s[1] = e[1] BY <3>2 DEF EntryOf
    <3> QED BY <3>1, <3>2, <3>3 DEF Looked, Heard
  <2>2. ASSUME NEW s \in Looked(on) PROVE s \in L
    <3>1. EntryOf(s) \in on /\ s[1] \in Validating /\ s \in Listeners(EntryOf(s)) BY DEF Looked, Heard
    <3>2. EntryOf(s)[1] = s[1] BY DEF EntryOf
    <3> QED BY <1>1, <3>1, <3>2
  <2> QED BY <2>1, <2>2
<1>3. {w \in L \X L : ~Distinct(port, w[1], w[2])} = {} <=> \A s, t \in L : Distinct(port, s, t)
  <2>1. ASSUME {w \in L \X L : ~Distinct(port, w[1], w[2])} = {}, NEW s \in L, NEW t \in L
        PROVE  Distinct(port, s, t)
    <3>1. <<s, t>> \in L \X L /\ <<s, t>>[1] = s /\ <<s, t>>[2] = t OBVIOUS
    <3> QED BY <2>1, <3>1
  <2>2. ASSUME \A s, t \in L : Distinct(port, s, t)
        PROVE  {w \in L \X L : ~Distinct(port, w[1], w[2])} = {}
    <3>1. \A w \in L \X L : w[1] \in L /\ w[2] \in L OBVIOUS
    <3> QED BY <2>2, <3>1
  <2> QED BY <2>1, <2>2
<1>4. Validate(on, port) <=>
        /\ \A s \in L : /\ s[1] \notin {"InfluxDB", "PGExporter"} => port[s] # 0
                        /\ port[s] # 0 => Occupies(Family(s), port[s]) \subseteq Nat \ {0}
        /\ {w \in L \X L : ~Distinct(port, w[1], w[2])} = {}
        /\ \A s \in Slots \ L :
             <<s[1], s[2]>> \in on /\ s[1] \in {"ClickHouse", "RabbitMQ", "RocketMQ"} => port[s] = 0
        /\ Cardinality({e \in on \cap Away : e[1] = "RocketMQ"}) <= 1
        /\ \A s \in L : <<s[1], s[2]>> \in {e \in on \cap Away : e[1] = "RocketMQ"} =>
             port[s] = StartPort[RocketMQBase[s[3]]]
  BY <1>1, Zenon DEF Validate
<1> QED BY <1>2, <1>3, <1>4, Zenon DEF Accepts, EntryOf, Clustered

\* The clustered RocketMQ of a smaller config are not more.
LEMMA ClusteredKept ==
  ASSUME NEW on \in SUBSET Entries, NEW on2 \in SUBSET Entries,
         Clustered(on2) \subseteq Clustered(on), Cardinality(Clustered(on)) <= 1
  PROVE  Cardinality(Clustered(on2)) <= 1
<1>1. Clustered(on) \subseteq Entries BY DEF Clustered
<1>2. IsFiniteSet(Clustered(on)) BY <1>1, PortsAssumption, FS_Subset
<1>3. IsFiniteSet(Clustered(on2)) BY <1>2, FS_Subset
<1>4. Cardinality(Clustered(on2)) <= Cardinality(Clustered(on)) BY <1>2, FS_Subset
<1>5. Cardinality(Clustered(on2)) \in Nat /\ Cardinality(Clustered(on)) \in Nat
  BY <1>2, <1>3, FS_CardinalityType
<1> QED BY <1>4, <1>5

\* Validate depends on the entries that it looks at, and has less to say when
\* there are fewer of them.
LEMMA ValidateKept ==
  ASSUME NEW on \in SUBSET Entries, NEW on2 \in SUBSET Entries, NEW port, NEW port2,
         \A e \in on2 : e[1] \in Validating => e \in on,
         \A s \in Slots : s[1] \in Validating /\ EntryOf(s) \in on2 => port2[s] = port[s],
         Validate(on, port)
  PROVE  Validate(on2, port2)
<1>0. \A s \in Slots : s[1] \in Validating /\ EntryOf(s) \in on2 => EntryOf(s) \in on
  BY DEF EntryOf
<1>1. \A s \in Looked(on2) : s \in Slots /\ s \in Looked(on) /\ port2[s] = port[s] /\ EntryOf(s) \in on2
  BY <1>0 DEF Looked
<1>2. "ClickHouse" \in Validating /\ "RabbitMQ" \in Validating /\ "RocketMQ" \in Validating BY DEF Validating
<1>3. Accepts(on, port) BY ValidateMeans
<1>4. ASSUME NEW s \in Slots \ Looked(on2), EntryOf(s) \in on2, s[1] \in {"ClickHouse", "RabbitMQ", "RocketMQ"}
      PROVE  port2[s] = 0
  <2>1. s \in Slots \ Looked(on) /\ EntryOf(s) \in on /\ port2[s] = port[s] BY <1>0, <1>2, <1>4 DEF Looked
  <2>2. port[s] = 0 BY <1>3, <1>4, <2>1 DEF Accepts
  <2> QED BY <2>1, <2>2
<1>5. ASSUME NEW s \in Looked(on2), NEW t \in Looked(on2) PROVE Distinct(port2, s, t)
  <2>1. Distinct(port, s, t) BY <1>1, <1>3 DEF Accepts
  <2>2. port2[s] = port[s] /\ port2[t] = port[t] BY <1>1
  <2> QED BY <2>1, <2>2 DEF Distinct
<1>6. Clustered(on2) \subseteq Clustered(on) BY <1>2 DEF Clustered
<1>7. Cardinality(Clustered(on2)) <= 1
  <2>1. Cardinality(Clustered(on)) <= 1 BY <1>3 DEF Accepts
  <2> QED BY <1>6, <2>1, ClusteredKept
<1>8. \A s \in Looked(on2) : EntryOf(s) \in Clustered(on2) => port2[s] = StartPort[RocketMQBase[s[3]]]
  BY <1>1, <1>3, <1>6 DEF Accepts
<1>9. ASSUME NEW s \in Looked(on2)
      PROVE  /\ s[1] \notin {"InfluxDB", "PGExporter"} => port2[s] # 0
             /\ port2[s] # 0 => Occupies(Family(s), port2[s]) \subseteq Nat \ {0}
  BY <1>1, <1>3 DEF Accepts
<1>10. Accepts(on2, port2) BY <1>4, <1>5, <1>7, <1>8, <1>9 DEF Accepts
<1> QED BY <1>10, ValidateMeans

\* What a command has in memory is the file's, for the entries of the file that
\* Validate looks at.
LEMMA LookedKept ==
  ASSUME WInv, ~Idle, NEW s \in Slots, s[1] \in Validating, EntryOf(s) \in file.on, cmd.pins[s] = 0
  PROVE  cmd.port[s] = file.port[s]
<1>1. LeadOf(s) = s
  <2>1. Lead(s[1], s[3]) = s[3] BY DEF Lead, Validating
  <2>2. s = <<s[1], s[2], s[3]>> BY SlotFacts
  <2> QED BY <2>1, <2>2 DEF LeadOf
<1>2. CASE ~Heard(s) BY <1>2 DEF WInv, UnheardKept
<1>3. CASE Heard(s)
  <2>1. file.port[s] # 0 BY <1>1, <1>3 DEF WInv, FileSet
  <2>2. Chosen(s) = file.port[s] BY DEF Chosen
  <2> QED BY <1>1, <2>1, <2>2 DEF WInv, ChosenKept
<1> QED BY <1>2, <1>3

\* A Save without Validate, too, writes what Validate accepts.
LEMMA SaveValid ==
  ASSUME WInv, Validate(file.on, file.port), Save
  PROVE  Validate(file.on, file.port)'
<1>0. TypeOK /\ CopyFits BY DEF WInv
<1>1. ~Idle /\ file.on \in SUBSET Entries /\ cmd.on \in SUBSET Entries BY <1>0, SaveFacts DEF TypeOK, Command
<1>2. CASE cmd.pc = "apply" /\ file'.on = cmd.on /\ file'.port = cmd.port
           /\ (cmd.entry[1] \in Validating => Validate(cmd.on, cmd.port))
  <2>1. CASE cmd.entry[1] \in Validating BY <1>2, <2>1
  <2>2. CASE cmd.entry[1] \notin Validating
    <3>1. cmd.on = file.on \cup {cmd.entry} BY <1>0, <1>2 DEF CopyFits
    <3>2. \A e \in cmd.on : e[1] \in Validating => e \in file.on BY <2>2, <3>1
    <3>3. ASSUME NEW s \in Slots, s[1] \in Validating, EntryOf(s) \in cmd.on
          PROVE  cmd.port[s] = file.port[s]
      <4>1. EntryOf(s)[1] = s[1] BY DEF EntryOf
      <4>2. EntryOf(s) \in file.on /\ EntryOf(s) # cmd.entry BY <2>2, <3>2, <3>3, <4>1
      <4>3. cmd.pins[s] = 0 BY <1>0, <4>2 DEF CopyFits
      <4> QED BY <1>1, <3>3, <4>2, <4>3, LookedKept
    <3>4. Validate(cmd.on, cmd.port) BY <1>1, <3>2, <3>3, ValidateKept
    <3> QED BY <1>2, <3>4
  <2> QED BY <2>1, <2>2
<1>3. CASE /\ cmd.pc = "load" /\ file'.on = cmd.on \ {cmd.entry}
           /\ \A s \in Slots : file'.port[s] = IF EntryOf(s) = cmd.entry THEN 0 ELSE cmd.port[s]
  <2>1. cmd.on = file.on /\ \A s \in Slots : cmd.pins[s] = 0 BY <1>0, <1>3 DEF CopyFits, NoPorts
  <2>2. PICK on2 : on2 = file'.on OBVIOUS
  <2>3. PICK port2 : port2 = file'.port OBVIOUS
  <2>4. on2 \in SUBSET Entries /\ on2 \subseteq file.on BY <1>1, <1>3, <2>1, <2>2
  <2>5. ASSUME NEW s \in Slots, s[1] \in Validating, EntryOf(s) \in on2 PROVE port2[s] = file.port[s]
    <3>1. EntryOf(s) # cmd.entry /\ EntryOf(s) \in file.on BY <1>3, <2>2, <2>4, <2>5
    <3>2. port2[s] = cmd.port[s] BY <1>3, <2>3, <3>1
    <3> QED BY <1>1, <2>1, <2>5, <3>1, <3>2, LookedKept
  <2>6. Validate(on2, port2) BY <1>1, <2>4, <2>5, ValidateKept
  <2> QED BY <2>2, <2>3, <2>6
<1> QED BY <1>0, <1>2, <1>3, SaveFacts

-----------------------------------------------------------------------------
(* The walk draws what Validate accepts *)

\* In a plain install, a port that Validate looks at and that a step sets is one
\* of the new entry, and is drawn.
LEMMA PlainDraws ==
  ASSUME WInv, Plain, cmd.at # NoVisit, Wanted, Unset, NEW f \in DOMAIN Step.sets, Row.kind \in Validating
  PROVE  ~Step.fixed
<1>0. TypeOK /\ VisitsFit /\ CopyFits /\ FileSet /\ ChosenKept BY DEF WInv
<1>1. /\ f \in AllFields[Row.kind] /\ Step.when = {f} /\ Step.lead = "none"
      /\ Step.opt <=> <<Row.kind, f>> \in OptionalFields
      /\ Step.fixed => \/ Row.kind = "ClickHouseKeeper" \/ Row.away
                       \/ Row.kind = "ClickHouse" /\ Step.opt
      /\ Row.away => Row.kind = "RocketMQ"
  BY <1>0, VisitSlots DEF RowSets
<1>2. PICK s : s = SlotOf(f) OBVIOUS
<1>3. s \in Slots /\ EntryOf(s) = EntryAt(cmd.at) /\ EntryAt(cmd.at) = <<Row.kind, cmd.at[2]>>
  BY <1>0, <1>1, <1>2, VisitSlots
<1>4. Heard(s) BY <1>0, <1>2, SetsHeard
<1>5. cmd.port[s] = 0 BY <1>1, <1>2 DEF Unset
<1>6. ~Idle /\ cmd.on = file.on \cup {cmd.entry} BY <1>0 DEF Plain, Idle, CopyFits
<1>7. EntryOf(s) \notin file.on
  <2> SUFFICES ASSUME EntryOf(s) \in file.on PROVE FALSE OBVIOUS
  <2>1. cmd.pins[s] = 0 BY <1>3 DEF Plain, NoPorts
  <2>2. s[1] \in Validating /\ Lead(s[1], s[3]) = s[3] BY <1>2 DEF SlotOf, Lead, Validating
  <2>3. s = <<s[1], s[2], s[3]>> BY <1>3, SlotFacts
  <2>4. LeadOf(s) = s BY <2>2, <2>3 DEF LeadOf
  <2>5. file.port[s] # 0 BY <1>0, <1>3, <1>4, <2>4 DEF FileSet
  <2>6. cmd.port[s] = file.port[s] BY <1>3, <1>6, <2>1, <2>2, LookedKept
  <2> QED BY <1>5, <2>5, <2>6
<1>8. EntryAt(cmd.at) \in cmd.on /\ (Row.away <=> EntryAt(cmd.at) \in Away) BY <1>0 DEF VisitsFit, Row
<1>9. cmd.entry = <<Row.kind, cmd.at[2]>> BY <1>3, <1>6, <1>7, <1>8
<1>10. cmd.entry[1] = Row.kind BY <1>9
<1> QED BY <1>1, <1>3, <1>8, <1>9, <1>10 DEF Plain, Wanted

\* A draw keeps apart what Validate compares.
LEMMA VisitApart ==
  ASSUME WInv, DrawnApart, Draw \/ Fix \/ Pass
  PROVE  DrawnApart'
<1>0. TypeOK /\ CursorsGrow BY DEF WInv
<1>1. /\ cmd.at # NoVisit /\ cmd'.pc = cmd.pc /\ cmd'.entry = cmd.entry /\ cmd'.pins = cmd.pins
      /\ cmd'.on = cmd.on
  BY <1>0, VisitFacts
<1> SUFFICES ASSUME Plain
             PROVE  \A s, t \in Looked(cmd.on) :
                      /\ Distinct(cmd'.port, s, t)
                      /\ cmd'.port[s] # 0 => Occupies(Family(s), cmd'.port[s]) \subseteq Nat \ {0}
  BY <1>1 DEF DrawnApart, Plain
<1>2. \A s, t \in Looked(cmd.on) :
        /\ Distinct(cmd.port, s, t)
        /\ cmd.port[s] # 0 => Occupies(Family(s), cmd.port[s]) \subseteq Nat \ {0}
  BY DEF DrawnApart
<1>3. \A s \in Looked(cmd.on) : s \in Slots /\ s[1] \in Validating BY DEF Looked
<1>4. ASSUME NEW s \in Looked(cmd.on), cmd'.port[s] # cmd.port[s]
      PROVE  /\ Occupies(Family(s), cmd'.port[s]) \subseteq Nat \ {0}
             /\ \A t \in Looked(cmd.on) : s # t => cmd'.port[t] = cmd.port[t] /\ Distinct(cmd'.port, s, t)
  <2>1. Wanted /\ Unset /\ s[3] \in DOMAIN Step.sets /\ s = SlotOf(s[3]) BY <1>0, <1>3, <1>4, VisitPorts
  <2>2. s[1] = Row.kind /\ s[2] = cmd.at[2] BY <2>1 DEF SlotOf
  <2>3. ~Step.fixed BY <1>1, <1>3, <2>1, <2>2, PlainDraws
  <2>4. PICK p \in Nat : cmd'.port = SetPorts(p) /\ p > 0 /\ Free(p) /\ p >= StartPort[Step.cur]
    BY <1>0, <2>1, <2>3, VisitFacts
  <2>5. /\ DOMAIN Step.sets = {s[3]}
        /\ \A D \in DistinctGroups : <<Row.kind, s[3]>> \in D => D \subseteq Step.marks
        /\ <<Row.kind, s[3]>> = <<"RocketMQ", "BrokerPort">> => Step.cur = "Broker"
    BY <1>0, <1>1, <1>3, <2>1, <2>2, <2>3, VisitSlots DEF RowSets
  <2>6. Step.sets[s[3]] \in Nat BY <1>0, <1>1, <2>1, StepFacts DEF RowKeeps
  <2>7. PICK q \in Nat : q = p + Step.sets[s[3]] BY <2>6
  <2>8. q > 0 /\ q >= StartPort[Step.cur]
    <3>1. StartPort[Step.cur] \in Nat BY <1>0, <1>1, StepFacts, StartPortAssumption
    <3> QED BY <2>4, <2>6, <2>7, <3>1
  <2>9. cmd'.port[s] = q BY <1>3, <2>1, <2>2, <2>4, <2>7 DEF SetPorts
  <2>10. Family(s) = <<Row.kind, s[3]>> BY <2>2 DEF Family
  <2>11. Occupies(Family(s), q) \subseteq Nat \ {0}
    <3>1. CASE Family(s)[1] = "Seaweedfs" BY <2>8, <3>1 DEF Occupies
    <3>2. CASE Family(s) = <<"RocketMQ", "BrokerPort">>
      <4>1. Step.cur = "Broker" /\ "Broker" \in Cursors BY <1>0, <1>1, <2>5, <2>10, <3>2, StepFacts
      <4>2. StartPort["Broker"] \in Nat /\ StartPort["Broker"] > 2 BY <4>1, StartPortAssumption
      <4>3. q > 2 BY <2>8, <4>1, <4>2
      <4>4. Occupies(Family(s), q) = {q - 2, q, q + 1} BY <3>2 DEF Occupies
      <4> QED BY <4>3, <4>4
    <3>3. CASE Family(s)[1] # "Seaweedfs" /\ Family(s) # <<"RocketMQ", "BrokerPort">>
      BY <2>8, <3>3 DEF Occupies
    <3> QED BY <3>1, <3>2, <3>3
  <2>12. ASSUME NEW t \in Looked(cmd.on), s # t
         PROVE  cmd'.port[t] = cmd.port[t] /\ Distinct(cmd'.port, s, t)
    <3>1. t \in Slots BY <1>3
    <3>2. cmd'.port[t] = cmd.port[t]
      <4>1. CASE t[1] = Row.kind /\ t[2] = cmd.at[2] /\ t[3] \in DOMAIN Step.sets
        <5>1. t = SlotOf(t[3]) /\ t[3] = s[3] BY <1>0, <1>1, <2>5, <3>1, <4>1, VisitSlots
        <5> QED BY <2>1, <2>12, <5>1
      <4>2. CASE ~(t[1] = Row.kind /\ t[2] = cmd.at[2] /\ t[3] \in DOMAIN Step.sets)
        BY <2>4, <3>1, <4>2 DEF SetPorts
      <4> QED BY <4>1, <4>2
    <3>3. Distinct(cmd'.port, s, t)
      <4> SUFFICES ASSUME cmd.port[t] # 0, NEW D \in DistinctGroups, Family(s) \in D, Family(t) \in D
                   PROVE  Occupies(Family(s), q) \cap Occupies(Family(t), cmd.port[t]) = {}
        BY <2>9, <3>2 DEF Distinct
      <4>1. Family(t) \in Step.marks BY <2>5, <2>10
      <4>2. cmd.port[t] \in Held(t) BY DEF Held
      <4>3. ASSUME NEW x \in Occupies(Family(s), q), x \in Occupies(Family(t), cmd.port[t]) PROVE FALSE
        <5>1. Assigned(Step.marks, x) BY <3>1, <4>1, <4>2, <4>3 DEF Assigned
        <5>2. ~Assigned(Step.marks, x) BY <2>1, <2>4, <2>7, <2>10, <4>3 DEF Free
        <5> QED BY <5>1, <5>2
      <4> QED BY <4>3
    <3> QED BY <3>2, <3>3
  <2> QED BY <2>9, <2>11, <2>12
<1>5. \A port : \A s, t : Distinct(port, s, t) => Distinct(port, t, s) BY DEF Distinct
<1>6. ASSUME NEW s \in Looked(cmd.on), NEW t \in Looked(cmd.on)
      PROVE  Distinct(cmd'.port, s, t)
  <2>1. CASE s = t BY <2>1 DEF Distinct
  <2>2. CASE s # t /\ cmd'.port[s] # cmd.port[s] BY <1>4, <2>2
  <2>3. CASE s # t /\ cmd'.port[t] # cmd.port[t]
    <3>1. Distinct(cmd'.port, t, s) BY <1>4, <2>3
    <3> QED BY <1>5, <3>1
  <2>4. CASE cmd'.port[s] = cmd.port[s] /\ cmd'.port[t] = cmd.port[t]
    <3>1. Distinct(cmd.port, s, t) BY <1>2
    <3> QED BY <2>4, <3>1 DEF Distinct
  <2> QED BY <2>1, <2>2, <2>3, <2>4
<1>7. ASSUME NEW s \in Looked(cmd.on), cmd'.port[s] # 0
      PROVE  Occupies(Family(s), cmd'.port[s]) \subseteq Nat \ {0}
  <2>1. CASE cmd'.port[s] # cmd.port[s] BY <1>4, <2>1
  <2>2. CASE cmd'.port[s] = cmd.port[s] BY <1>2, <1>7, <2>2
  <2> QED BY <2>1, <2>2
<1> QED BY <1>6, <1>7

\* A plain install starts from what the file has, which Validate accepts.
LEMMA FlagsApart ==
  ASSUME WInv, Validate(file.on, file.port), NEW pins \in Pins, ~Idle, ApplyFlags(pins)
  PROVE  DrawnApart'
<1>0. TypeOK /\ CopyFits /\ OffIsUnset BY DEF WInv
<1> SUFFICES ASSUME Plain'
             PROVE  \A s, t \in Looked(cmd'.on) :
                      /\ Distinct(cmd'.port, s, t)
                      /\ cmd'.port[s] # 0 => Occupies(Family(s), cmd'.port[s]) \subseteq Nat \ {0}
  BY DEF DrawnApart
<1>1. /\ cmd.pc = "load" /\ \A s \in Slots :
           cmd'.port[s] = IF cmd'.pins[s] # 0 THEN cmd'.pins[s] ELSE cmd.port[s]
  BY <1>0, FlagFacts
<1>2. \A s \in Slots : cmd'.port[s] = cmd.port[s] BY <1>1 DEF Plain, NoPorts
<1>3. cmd.on = file.on /\ \A s \in Slots : cmd.pins[s] = 0 BY <1>0, <1>1 DEF CopyFits, NoPorts
<1>4. Accepts(file.on, file.port)
  <2>1. file.on \in SUBSET Entries BY <1>0 DEF TypeOK
  <2> QED BY <2>1, ValidateMeans
<1>5. ASSUME NEW s \in Looked(cmd'.on), cmd'.port[s] # 0
      PROVE  s \in Looked(file.on) /\ cmd'.port[s] = file.port[s]
  <2>1. s \in Slots /\ s[1] \in Validating /\ Heard(s) BY DEF Looked
  <2>2. EntryOf(s) \in file.on BY <1>0, <1>2, <1>3, <1>5, <2>1 DEF OffIsUnset
  <2>3. cmd.port[s] = file.port[s] BY <1>3, <2>1, <2>2, LookedKept
  <2> QED BY <1>2, <2>1, <2>2, <2>3 DEF Looked
<1>6. ASSUME NEW s \in Looked(cmd'.on), NEW t \in Looked(cmd'.on) PROVE Distinct(cmd'.port, s, t)
  <2>1. CASE cmd'.port[s] = 0 \/ cmd'.port[t] = 0 BY <2>1 DEF Distinct
  <2>2. CASE cmd'.port[s] # 0 /\ cmd'.port[t] # 0
    <3>1. /\ s \in Looked(file.on) /\ cmd'.port[s] = file.port[s]
          /\ t \in Looked(file.on) /\ cmd'.port[t] = file.port[t]
      BY <1>5, <2>2
    <3>2. Distinct(file.port, s, t) BY <1>4, <3>1 DEF Accepts
    <3> QED BY <3>1, <3>2 DEF Distinct
  <2> QED BY <2>1, <2>2
<1>7. ASSUME NEW s \in Looked(cmd'.on), cmd'.port[s] # 0
      PROVE  Occupies(Family(s), cmd'.port[s]) \subseteq Nat \ {0}
  <2>1. s \in Looked(file.on) /\ cmd'.port[s] = file.port[s] BY <1>5, <1>7
  <2> QED BY <1>4, <1>7, <2>1 DEF Accepts
<1> QED BY <1>6, <1>7

\* Every step keeps the file valid, and what a plain install has drawn apart.
LEMMA VStep ==
  ASSUME WInv, VInv, [Next]_vars
  PROVE  VInv'
<1>0. Validate(file.on, file.port) /\ DrawnApart /\ TypeOK BY DEF VInv, WInv
<1>1. ASSUME file' = file PROVE Validate(file.on, file.port)' BY <1>0, <1>1
<1>2. ASSUME cmd'.pc # "apply" PROVE DrawnApart' BY <1>2 DEF DrawnApart, Plain
<1>3. ASSUME NEW op \in {"install", "remove"}, NEW e \in Entries, Load(op, e) PROVE VInv'
  <2>1. PICK used \in Listening :
           cmd' = StartWalk([NoCommand EXCEPT !.op = op, !.entry = e], "load", file.on, file.port, used)
    BY <1>3 DEF Load
  <2>2. cmd'.pc = "load" BY <2>1 DEF StartWalk, NoCommand
  <2> QED BY <1>1, <1>2, <1>3, <2>2 DEF Load, VInv
<1>4. CASE NextEntry
  <2>1. /\ file' = file /\ cmd'.pc = cmd.pc /\ cmd'.pins = cmd.pins /\ cmd'.entry = cmd.entry
        /\ cmd'.on = cmd.on /\ cmd'.port = cmd.port
    BY <1>0, <1>4 DEF NextEntry, TypeOK, Command
  <2>2. DrawnApart' BY <1>0, <2>1 DEF DrawnApart, Plain
  <2> QED BY <1>1, <2>1, <2>2 DEF VInv
<1>5. CASE Draw \/ Fix \/ Pass
  <2>1. file' = file BY <1>5 DEF Draw, Fix, Pass
  <2> QED BY <1>0, <1>1, <1>5, <2>1, VisitApart DEF VInv
<1>6. ASSUME NEW pins \in Pins, ~Idle, ApplyFlags(pins) PROVE VInv'
  <2>1. file' = file BY <1>6 DEF ApplyFlags
  <2> QED BY <1>0, <1>1, <1>6, <2>1, FlagsApart DEF VInv
<1>7. CASE Save
  <2>1. cmd'.pc # "apply" BY <1>7 DEF Save, NoCommand
  <2> QED BY <1>0, <1>2, <1>7, <2>1, SaveValid DEF VInv
<1>8. CASE Fail
  <2>1. file' = file /\ cmd'.pc # "apply" BY <1>8 DEF Fail, NoCommand
  <2> QED BY <1>1, <1>2, <2>1 DEF VInv
<1>9. CASE UNCHANGED vars
  <2>1. file' = file /\ cmd' = cmd BY <1>9 DEF vars
  <2>2. DrawnApart' BY <1>0, <2>1 DEF DrawnApart, Plain
  <2> QED BY <1>1, <2>1, <2>2 DEF VInv
<1> QED BY <1>3, <1>4, <1>5, <1>6, <1>7, <1>8, <1>9 DEF Next

\* The empty file is valid.
LEMMA InitVInv ==
  ASSUME Init
  PROVE  VInv
<1>1. file.on = {} /\ cmd.pc = "idle" BY DEF Init, NoCommand
<1>2. Looked({}) = {} BY DEF Looked
<1>3. Clustered({}) = {} BY DEF Clustered
<1>4. Cardinality({}) = 0 BY FS_EmptySet
<1>5. Accepts({}, file.port) BY <1>2, <1>3, <1>4 DEF Accepts
<1>6. Validate(file.on, file.port) BY <1>1, <1>5, ValidateMeans
<1> QED BY <1>1, <1>6 DEF VInv, DrawnApart, Plain

\* Both invariants hold.
LEMMA VInvHolds == Spec => [](WInv /\ VInv)
<1>1. Init => WInv /\ VInv BY InitWInv, InitVInv
<1>2. (WInv /\ VInv) /\ [Next]_vars => (WInv /\ VInv)' BY WStep, VStep
<1> QED BY <1>1, <1>2, PTL DEF Spec

\* What a command saves passes Validate (config.go) also when it was a removal or
\* the install of an add-on that does not call Validate: such a command changes
\* no port of an entry that Validate looks at.
THEOREM SavedStaysValid == Spec => []SavedIsValid
<1>1. WInv /\ VInv => SavedIsValid BY DEF VInv, SavedIsValid
<1> QED BY <1>1, VInvHolds, PTL

\* autoAssignPorts and Validate agree: an install without pins and fixed ports
\* draws, for every set of entries, start ports and listeners, what Validate
\* accepts, so that the install is never refused for the ports it chose itself.
THEOREM DrawsAreValid == Spec => []DrawnPortsAreValid
<1>1. ASSUME WInv, VInv PROVE DrawnPortsAreValid
  <2> SUFFICES ASSUME Plain, Walked PROVE Validate(cmd.on, cmd.port) BY DEF DrawnPortsAreValid, Plain
  <2>0. TypeOK /\ CopyFits /\ OffIsUnset /\ UnheardKept /\ VisitedSet BY <1>1 DEF WInv
  <2>1. /\ ~Idle /\ cmd.on \in SUBSET Entries /\ file.on \in SUBSET Entries
        /\ cmd.on = file.on \cup {cmd.entry} /\ \A s \in Slots : cmd.pins[s] = 0
    BY <2>0 DEF Plain, Idle, TypeOK, Command, CopyFits, NoPorts
  <2>2. Accepts(file.on, file.port) BY <1>1, <2>1, ValidateMeans DEF VInv
  <2>3. ASSUME NEW s \in Looked(cmd.on)
        PROVE  s \in Slots /\ s[1] \in Validating /\ EntryOf(s) \in cmd.on /\ Heard(s) /\ cmd.port[s] # 0
    <3>1. s \in Slots /\ s[1] \in Validating /\ EntryOf(s) \in cmd.on /\ Heard(s) BY <2>3 DEF Looked
    <3>2. Lead(s[1], s[3]) = s[3] BY <3>1 DEF Lead, Validating
    <3>3. s = <<s[1], s[2], s[3]>> BY <3>1, SlotFacts
    <3>4. LeadOf(s) = s BY <3>2, <3>3 DEF LeadOf
    <3> QED BY <2>0, <2>1, <3>1, <3>4, WalkedSet
  <2>4. \A s, t \in Looked(cmd.on) :
          /\ Distinct(cmd.port, s, t)
          /\ cmd.port[s] # 0 => Occupies(Family(s), cmd.port[s]) \subseteq Nat \ {0}
    BY <1>1 DEF VInv, DrawnApart
  <2>5. "ClickHouse" \in Validating /\ "RabbitMQ" \in Validating /\ "RocketMQ" \in Validating BY DEF Validating
  <2>6. ASSUME NEW s \in Slots \ Looked(cmd.on), EntryOf(s) \in cmd.on,
               s[1] \in {"ClickHouse", "RabbitMQ", "RocketMQ"}
        PROVE  cmd.port[s] = 0
    <3>1. ~Heard(s) /\ s \notin Looked(file.on) BY <2>5, <2>6 DEF Looked
    <3>2. cmd.port[s] = file.port[s] BY <2>0, <2>1, <3>1 DEF UnheardKept
    <3>3. CASE EntryOf(s) \in file.on BY <2>2, <2>6, <3>1, <3>2, <3>3 DEF Accepts
    <3>4. CASE EntryOf(s) \notin file.on BY <2>0, <3>2, <3>4 DEF OffIsUnset
    <3> QED BY <3>3, <3>4
  <2>7. Clustered(cmd.on) = Clustered(file.on) BY <2>1 DEF Clustered, Plain
  <2>8. ASSUME NEW s \in Looked(cmd.on), EntryOf(s) \in Clustered(cmd.on)
        PROVE  cmd.port[s] = StartPort[RocketMQBase[s[3]]]
    <3>1. EntryOf(s) \in file.on BY <2>7, <2>8 DEF Clustered
    <3>2. s \in Looked(file.on) BY <2>3, <3>1 DEF Looked
    <3>3. file.port[s] = StartPort[RocketMQBase[s[3]]] BY <2>2, <2>7, <2>8, <3>2 DEF Accepts
    <3>4. cmd.port[s] = file.port[s] BY <1>1, <2>1, <2>3, <3>1, LookedKept
    <3> QED BY <3>3, <3>4
  <2>9. Cardinality(Clustered(cmd.on)) <= 1 BY <2>2, <2>7 DEF Accepts
  <2>10. Accepts(cmd.on, cmd.port) BY <2>3, <2>4, <2>6, <2>8, <2>9 DEF Accepts
  <2> QED BY <2>1, <2>10, ValidateMeans
<1>2. WInv /\ VInv => DrawnPortsAreValid BY <1>1
<1> QED BY <1>2, VInvHolds, PTL

=============================================================================
