------------------------- MODULE ClockDivider_proofs -------------------------
(***************************************************************************)
(* The promises of divider-apply and the safety limit, for any outputs,    *)
(* requests, failures and restarts.                                        *)
(***************************************************************************)
EXTENDS ClockDivider, TLAPS

Writing(w) == job[w].at \in {"write", "writeLow"}
Reading(w) == job[w].at \in {"read", "readLow"}
Saving(w) == job[w].op \in {"apply", "update"}
High(v) == v \div Radix
Low(v) == v % Radix
OnPdiv1(o) == Pdiv(o) = "Pdiv1"

\* Where a worker may be, and what is left for it to do there.
PlaceInv(w) ==
  /\ At(w, "idle") <=> job[w].op = "none"
  /\ Writing(w) => job[w].op \in {"restore", "init", "apply"}
  /\ Writing(w) \/ Reading(w) => job[w].left # {}
  /\ job[w].at \in {"writeLow", "readLow"} => OnPdiv1(Current(w))
  /\ job[w].at \in {"done", "flush"} => job[w].left = {}
  /\ At(w, "flush") => Saving(w)
  /\ Writing(w) => \A o \in job[w].left: job[w].value[o] # 0
  /\ job[w].wasRunning => job[w].op = "apply"
  /\ job[w].misread \cap job[w].left = {}

PlacesInv ==
  /\ job["main"].op \in {"none", "restore", "start"} /\ job["listener"].op # "restore"
  /\ booting => At("main", "idle") /\ ~overlap
  /\ job["main"].op \notin Locked \/ job["listener"].op \notin Locked
  /\ overlap \/ At("main", "idle") \/ At("listener", "idle")
  /\ chip["r03"] < Radix
  /\ At("listener", "flush") => files[job["listener"].store] = EmptyFile
  /\ \A w \in Workers: PlaceInv(w)

\* A promise is in its file unless it is known to be lost there, it is in the chip
\* while it is in force, and it is in one of them ...
FileHolds(o) ==
  /\ o \in lost \/ files[home].y[o] = promised[o]
  /\ \A m \in Mates({o}): files[home].y[m] \in {0, promised[o]}
  /\ o \notin lost \/ inForce
ChipHolds(o) == inForce => Divider(o) = promised[o]

\* ... while it is in force nobody is about to write anything else, and whoever
\* restores the file it is in, alone, has written it or is going to ...
Faithful(w) == job[w].op \in {"restore", "init"} /\ job[w].store = home /\ ~overlap
WriteHolds(o, w) ==
  /\ Writing(w) /\ (inForce \/ Faithful(w)) =>
       \A m \in Mates({o}) \cap job[w].left: job[w].value[m] = promised[o]
  /\ Faithful(w) =>
       Divider(o) = promised[o] \/ (Writing(w) /\ Mates({o}) \cap job[w].left # {})
  /\ At(w, "writeLow") /\ OnPdiv1(o) /\ Faithful(w) => chip["r02"] = High(promised[o])

\* ... and nobody is about to save anything else.
GotIs(w, m, divider) ==
  m \notin job[w].left => job[w].got[m] = IF m \in job[w].misread THEN 0 ELSE divider
SaveHolds(o, w) ==
  Saving(w) =>
    /\ inForce
    /\ ~Writing(w) => /\ \A m \in Mates({o}): GotIs(w, m, promised[o])
                      /\ At(w, "readLow") /\ OnPdiv1(o) => job[w].high = High(promised[o])

PromiseOf(o) == /\ FileHolds(o) /\ ChipHolds(o)
                /\ \A w \in Workers: WriteHolds(o, w) /\ SaveHolds(o, w)
PromiseInv == \A o \in Outputs: promised[o] # 0 => PromiseOf(o)

\* What divider-apply is about to promise.
Applied == {o \in Outputs: job["listener"].value[o] # 0}
ApplyHolds(p) ==
  /\ \/ Divider(p) = job["listener"].value[p]
     \/ Writing("listener") /\ Mates({p}) \cap job["listener"].left # {}
  /\ ~Writing("listener") =>
       /\ \A m \in Mates({p}): GotIs("listener", m, job["listener"].value[p])
       /\ At("listener", "readLow") /\ OnPdiv1(p) =>
            job["listener"].high = High(job["listener"].value[p])
ApplyInv ==
  job["listener"].op = "apply" =>
    /\ At("main", "idle") /\ inForce
    /\ Writing("listener") => job["listener"].left \subseteq Applied
    /\ \A o \in Mates(Applied): promised[o] = 0
    /\ \A p, q \in Applied: job["listener"].value[p] = job["listener"].value[q]
    /\ At("listener", "writeLow") =>
         chip["r02"] = High(job["listener"].value[Current("listener")])
    /\ \A p \in Applied: ApplyHolds(p)

\* What a start goes by is what its file holds and, but for what could not be read,
\* what the chip holds, if nobody interferes.
StartOf(w) ==
  /\ job[w].reference = files[job[w].store].reference
  /\ \A o \in Outputs \ job[w].left: o \in job[w].misread \/ job[w].got[o] = Divider(o)
  /\ At(w, "readLow") => job[w].high = chip["r02"]
StartInv == ~overlap => \A w \in Workers: job[w].op = "start" => StartOf(w)

IInv == ClockDividerTypeOK /\ PlacesInv /\ PromiseInv /\ ApplyInv /\ StartInv

-----------------------------------------------------------------------------
\* Numbers, registers and outputs.

LEMMA Split ==
  ASSUME NEW v \in Nat
  PROVE  High(v) \in Nat /\ Low(v) \in Nat /\ Low(v) < Radix /\ High(v) * Radix + Low(v) = v
BY ClockDividerAssumption DEF High, Low

\* A number is split into two registers in one way only.
LEMMA SplitOnce ==
  ASSUME NEW h \in Nat, NEW l \in Nat, l < Radix
  PROVE  High(h * Radix + l) = h /\ Low(h * Radix + l) = l
BY ClockDividerAssumption DEF High, Low

LEMMA OutputsOK == Outputs \subseteq 0..6 /\ Outputs # {}
BY ClockDividerAssumption

LEMMA PdivOf ==
  ASSUME NEW o
  PROVE  /\ Pdiv(o) \in {"Pdiv1", "Pdiv4", "Pdiv7"} /\ RegisterOf(o) \in {"r26", "r37"}
         /\ \A p: /\ Pdiv(p) = Pdiv(o) => RegisterOf(p) = RegisterOf(o)
                  /\ ~OnPdiv1(o) /\ ~OnPdiv1(p) /\ RegisterOf(p) = RegisterOf(o) => Pdiv(p) = Pdiv(o)
BY DEF Pdiv, RegisterOf, OnPdiv1

LEMMA MatesOf ==
  ASSUME NEW o \in Outputs
  PROVE  Mates({o}) = {m \in Outputs: Pdiv(m) = Pdiv(o)} /\ o \in Mates({o})
BY DEF Mates

\* What a divider is, by the registers it is in.
LEMMA DividerIs ==
  ASSUME ClockDividerTypeOK, chip["r03"] < Radix, NEW o \in Outputs
  PROVE  /\ Divider(o) \in Nat
         /\ ~OnPdiv1(o) => Divider(o) = chip[RegisterOf(o)]
         /\ OnPdiv1(o) => Divider(o) = chip["r02"] * Radix + chip["r03"]
         /\ OnPdiv1(o) => \A v \in Nat: Divider(o) = v <=> chip["r02"] = High(v) /\ chip["r03"] = Low(v)
<1>1. chip["r02"] \in Nat /\ chip["r03"] \in Nat /\ chip["r26"] \in Nat /\ chip["r37"] \in Nat
  BY DEF ClockDividerTypeOK, Registers
<1>2. ~OnPdiv1(o) => Divider(o) = chip[RegisterOf(o)]
  BY DEF Divider, OnPdiv1
<1>3. OnPdiv1(o) => Divider(o) = chip["r02"] * Radix + chip["r03"]
  BY DEF Divider, OnPdiv1
<1>4. Divider(o) \in Nat
  BY <1>1, <1>2, <1>3, PdivOf, ClockDividerAssumption
<1>5. ASSUME OnPdiv1(o), NEW v \in Nat
      PROVE  Divider(o) = v <=> chip["r02"] = High(v) /\ chip["r03"] = Low(v)
  <2>1. High(v) * Radix + Low(v) = v
    BY Split
  <2>2. /\ High(chip["r02"] * Radix + chip["r03"]) = chip["r02"]
        /\ Low(chip["r02"] * Radix + chip["r03"]) = chip["r03"]
    BY <1>1, SplitOnce
  <2>. QED BY <1>3, <1>5, <2>1, <2>2
<1>. QED BY <1>2, <1>3, <1>4, <1>5

LEMMA CurrentIsLeft ==
  ASSUME ClockDividerTypeOK, NEW w \in Workers, job[w].left # {}
  PROVE  Current(w) \in job[w].left /\ Current(w) \in Outputs
<1> DEFINE S == job[w].left
<1>1. S \subseteq 0..6 /\ S \subseteq Outputs /\ S # {}
  BY OutputsOK DEF ClockDividerTypeOK, Jobs
<1> HIDE DEF S
<1>2. \E x \in S: \A y \in S: x <= y
  <2>1. CASE 0 \in S
    BY <1>1, <2>1
  <2>2. CASE 0 \notin S /\ 1 \in S
    BY <1>1, <2>2
  <2>3. CASE 0 \notin S /\ 1 \notin S /\ 2 \in S
    BY <1>1, <2>3
  <2>4. CASE 0 \notin S /\ 1 \notin S /\ 2 \notin S /\ 3 \in S
    BY <1>1, <2>4
  <2>5. CASE 0 \notin S /\ 1 \notin S /\ 2 \notin S /\ 3 \notin S /\ 4 \in S
    BY <1>1, <2>5
  <2>6. CASE 0 \notin S /\ 1 \notin S /\ 2 \notin S /\ 3 \notin S /\ 4 \notin S /\ 5 \in S
    BY <1>1, <2>6
  <2>7. CASE 0 \notin S /\ 1 \notin S /\ 2 \notin S /\ 3 \notin S /\ 4 \notin S /\ 5 \notin S /\ 6 \in S
    BY <1>1, <2>7
  <2>8. PICK k \in S: TRUE
    BY <1>1, Zenon
  <2>9. k \in {0, 1, 2, 3, 4, 5, 6}
    BY <1>1, <2>8
  <2>. QED BY <2>1, <2>2, <2>3, <2>4, <2>5, <2>6, <2>7, <2>8, <2>9, Zenon
<1>3. Current(w) = CHOOSE x \in S: \A y \in S: x <= y
  BY DEF Current, Min, S
<1>. QED BY <1>1, <1>2, <1>3 DEF S

-----------------------------------------------------------------------------
\* What a step does to the job of its worker.

Others(w) == \A v \in Workers: v # w => job'[v] = job[v]

\* The worker goes on with its job, with the file it goes by or with another ...
Moving(w, at, left, high, got, misread) ==
  /\ job'[w].at = at /\ job'[w].left = left /\ job'[w].high = high /\ job'[w].got = got
  /\ job'[w].misread = misread
  /\ job'[w].op = job[w].op /\ job'[w].value = job[w].value
  /\ job'[w].reference = job[w].reference /\ job'[w].wasRunning = job[w].wasRunning
  /\ Others(w)
Going(w, at, left, high, got, misread) ==
  Moving(w, at, left, high, got, misread) /\ job'[w].store = job[w].store

\* ... or has a new one, or none.
Fresh(w, at, op, value, left, reference) ==
  /\ job'[w].at = at /\ job'[w].op = op /\ job'[w].value = value /\ job'[w].left = left
  /\ job'[w].reference = reference /\ (job'[w].wasRunning => op = "apply") /\ Others(w)
  /\ job'[w].misread = {}
Ends(w) == /\ job'[w].at = "idle" /\ job'[w].op = "none" /\ ~job'[w].wasRunning
           /\ job'[w].misread = {} /\ Others(w)
BeginsReading(w, op, reference) == Fresh(w, "read", op, Zero, Outputs, reference)
JobsOK == job \in [Workers -> Jobs]

LEMMA SetsIs ==
  ASSUME JobsOK, NEW w \in Workers, NEW j \in Jobs, Sets(w, j)
  PROVE  job'[w] = j /\ Others(w) /\ JobsOK'
BY DEF JobsOK, Sets, Others

LEMMA IdleJob == Idle \in Jobs /\ Zero \in Dividers
<1>1. Zero \in Dividers
  BY DEF Zero, Dividers
<1>2. "root" \in Stores
  BY DEF Stores
<1>. QED BY <1>1, <1>2 DEF Idle, Jobs, Places, Ops

\* What is read and what is written are contents of files.
LEMMA FileOK ==
  ASSUME ClockDividerTypeOK
  PROVE  /\ file \in Contents /\ file.y \in Dividers /\ file.reference \in Nat
         /\ SavedOutputs \in SUBSET Outputs /\ EmptyFile \in Contents
<1>1. file \in Contents
  BY DEF file, ClockDividerTypeOK
<1>2. EmptyFile \in Contents
  BY IdleJob, ClockDividerAssumption DEF EmptyFile, Contents
<1>. QED BY <1>1, <1>2 DEF Contents, SavedOutputs

LEMMA OpensIs ==
  ASSUME mounted \in Stores
  PROVE  /\ Opens \in Jobs /\ Opens.store = mounted /\ Opens.value = Zero
         /\ Opens.wasRunning = FALSE
<1>1. Opens \in Jobs
  BY IdleJob DEF Opens, Jobs
<1>. QED BY <1>1 DEF Opens, Idle

LEMMA FreshJobs ==
  ASSUME mounted \in Stores,
         NEW op \in Ops, NEW reference \in Nat, NEW value \in Dividers,
         NEW outputs \in SUBSET Outputs, NEW wasRunning \in BOOLEAN
  PROVE  /\ Reads(Opens, op, reference) \in Jobs
         /\ Writes(op, value, outputs, reference) \in Jobs
         /\ [Writes(op, value, outputs, reference) EXCEPT !.wasRunning = wasRunning] \in Jobs
<1>1. Reads(Opens, op, reference) \in Jobs
  BY OpensIs DEF Reads, Jobs, Places
<1>2. Writes(op, value, outputs, reference) \in Jobs
  BY OpensIs DEF Writes, Jobs, Places
<1>3. [Writes(op, value, outputs, reference) EXCEPT !.wasRunning = wasRunning] \in Jobs
  BY <1>2 DEF Jobs
<1>. QED BY <1>1, <1>2, <1>3

LEMMA SetsIdle ==
  ASSUME JobsOK, NEW w \in Workers, Sets(w, Idle)
  PROVE  Ends(w) /\ JobsOK'
<1>1. Idle.at = "idle" /\ Idle.op = "none" /\ Idle.wasRunning = FALSE /\ Idle.misread = {}
  BY DEF Idle
<1>. QED BY <1>1, IdleJob, SetsIs DEF Ends

LEMMA SetsReads ==
  ASSUME JobsOK, mounted \in Stores, NEW w \in Workers, NEW op \in Ops, NEW reference \in Nat,
         Sets(w, Reads(Opens, op, reference))
  PROVE  BeginsReading(w, op, reference) /\ job'[w].store = mounted /\ JobsOK'
<1> DEFINE j == Reads(Opens, op, reference)
<1>1. j \in Jobs
  BY FreshJobs, IdleJob
<1>2. /\ j.at = "read" /\ j.op = op /\ j.value = Zero /\ j.left = Outputs
      /\ j.reference = reference /\ j.misread = {} /\ j.wasRunning = FALSE
      /\ j.store = mounted
  BY OpensIs DEF Reads, Jobs
<1>. QED BY <1>1, <1>2, SetsIs DEF BeginsReading, Fresh

Steady == UNCHANGED <<acquiring, booting, overlap, commands, restarts>>
Settled == UNCHANGED <<files, remains, mounted, promised, home, lost, inForce>>

\* The first half of a divider that takes two registers is written.
LEMMA WroteHigh ==
  ASSUME ClockDividerTypeOK, PlacesInv, NEW w \in Workers, WriteHigh(w)
  PROVE  /\ At(w, "write") /\ Current(w) \in job[w].left /\ Current(w) \in Outputs
         /\ OnPdiv1(Current(w)) /\ job[w].value[Current(w)] \in Nat
         /\ chip' = [chip EXCEPT !["r02"] = High(job[w].value[Current(w)])]
         /\ Going(w, "writeLow", job[w].left, job[w].high, job[w].got, job[w].misread)
         /\ JobsOK' /\ Settled /\ Steady /\ faults' = faults
<1>1. At(w, "write") /\ job[w].left # {} /\ OnPdiv1(Current(w))
  BY DEF WriteHigh, PlacesInv, PlaceInv, Writing, At, OnPdiv1
<1>2. Current(w) \in job[w].left /\ Current(w) \in Outputs
  BY <1>1, CurrentIsLeft
<1>3. job[w] \in Jobs /\ job[w].value[Current(w)] \in Nat
  BY <1>2 DEF ClockDividerTypeOK, Jobs, Dividers
<1> DEFINE j == [job[w] EXCEPT !.at = "writeLow"]
<1>4. j \in Jobs
  BY <1>3 DEF Jobs, Places
<1>5. /\ j.at = "writeLow" /\ j.left = job[w].left /\ j.high = job[w].high
      /\ j.got = job[w].got /\ j.op = job[w].op /\ j.value = job[w].value
      /\ j.reference = job[w].reference /\ j.wasRunning = job[w].wasRunning
      /\ j.store = job[w].store /\ j.misread = job[w].misread
  BY <1>3 DEF Jobs
<1>6. Sets(w, j)
  BY Zenon DEF WriteHigh
<1> HIDE DEF j
<1>7. Going(w, "writeLow", job[w].left, job[w].high, job[w].got, job[w].misread) /\ JobsOK'
  BY <1>4, <1>5, <1>6, SetsIs DEF Going, Moving, ClockDividerTypeOK, JobsOK
<1>8. /\ chip' = [chip EXCEPT !["r02"] = High(job[w].value[Current(w)])]
      /\ Settled /\ Steady /\ faults' = faults
  BY DEF WriteHigh, High, NoFault, RestUnchanged, Steady, Settled, Files, promises
<1>. QED BY <1>1, <1>2, <1>3, <1>7, <1>8

\* A divider is written, and what is left is written next, or all is read.
LEMMA Wrote ==
  ASSUME ClockDividerTypeOK, PlacesInv, NEW w \in Workers, WriteLow(w) \/ WriteOne(w)
  PROVE  /\ Writing(w) /\ Current(w) \in job[w].left /\ Current(w) \in Outputs
         /\ OnPdiv1(Current(w)) <=> At(w, "writeLow")
         /\ job[w].value[Current(w)] \in Nat
         /\ OnPdiv1(Current(w)) =>
              chip' = [chip EXCEPT !["r03"] = Low(job[w].value[Current(w)])]
         /\ ~OnPdiv1(Current(w)) =>
              chip' = [chip EXCEPT ![RegisterOf(Current(w))] = job[w].value[Current(w)]]
         /\ \/ /\ job[w].left = {Current(w)}
               /\ Going(w, "read", Outputs, job[w].high, job[w].got, {})
            \/ /\ job[w].left # {Current(w)}
               /\ Going(w, "write", job[w].left \ {Current(w)}, job[w].high, job[w].got,
                        job[w].misread)
         /\ JobsOK' /\ Settled /\ Steady /\ faults' = faults
<1>1. Writing(w) /\ job[w].left # {} /\ (OnPdiv1(Current(w)) <=> At(w, "writeLow"))
  BY DEF WriteLow, WriteOne, PlacesInv, PlaceInv, Writing, At, OnPdiv1
<1>2. Current(w) \in job[w].left /\ Current(w) \in Outputs
  BY <1>1, CurrentIsLeft
<1>3. job[w] \in Jobs /\ job[w].value[Current(w)] \in Nat
  BY <1>2 DEF ClockDividerTypeOK, Jobs, Dividers
<1> DEFINE left == job[w].left \ {Current(w)}
           j == [job[w] EXCEPT !.at = "write", !.left = left]
           k == Reads(j, job[w].op, job[w].reference)
<1>4. j \in Jobs /\ k \in Jobs
  <2>1. j \in Jobs
    BY <1>3 DEF Jobs, Places
  <2>2. job[w].op \in Ops /\ job[w].reference \in Nat
    BY <1>3 DEF Jobs
  <2> HIDE DEF j
  <2>3. k \in Jobs
    BY <2>1, <2>2 DEF Reads, Jobs, Places
  <2>. QED BY <2>1, <2>3
<1>5. /\ j.at = "write" /\ j.left = left /\ j.high = job[w].high
      /\ j.got = job[w].got /\ j.op = job[w].op /\ j.value = job[w].value
      /\ j.reference = job[w].reference /\ j.wasRunning = job[w].wasRunning
      /\ j.store = job[w].store /\ j.misread = job[w].misread
  BY <1>3 DEF Jobs
<1>6. Sets(w, IF left = {} THEN k ELSE j)
  BY Zenon DEF WriteLow, WriteOne, Written
<1>7. /\ k.at = "read" /\ k.left = Outputs /\ k.high = j.high
      /\ k.got = j.got /\ k.op = job[w].op /\ k.value = j.value
      /\ k.reference = job[w].reference /\ k.wasRunning = j.wasRunning
      /\ k.store = j.store /\ k.misread = {}
  <2> HIDE DEF j
  <2>. QED BY <1>4 DEF Reads, Jobs
<1> HIDE DEF j, k
<1>8. /\ OnPdiv1(Current(w)) =>
           chip' = [chip EXCEPT !["r03"] = Low(job[w].value[Current(w)])]
      /\ ~OnPdiv1(Current(w)) =>
           chip' = [chip EXCEPT ![RegisterOf(Current(w))] = job[w].value[Current(w)]]
      /\ Settled /\ Steady /\ faults' = faults
  <2>1. CASE WriteLow(w)
    BY <1>1, <2>1 DEF WriteLow, Low, NoFault, RestUnchanged, Steady, Settled, Files, promises
  <2>2. CASE WriteOne(w)
    BY <2>2 DEF WriteOne, OnPdiv1, NoFault, RestUnchanged, Steady, Settled, Files, promises
  <2>. QED BY <2>1, <2>2
<1>9. CASE left = {}
  <2>1. Going(w, "read", Outputs, job[w].high, job[w].got, {}) /\ JobsOK'
    BY <1>4, <1>5, <1>6, <1>7, <1>9, SetsIs DEF Going, Moving, ClockDividerTypeOK, JobsOK
  <2>2. job[w].left = {Current(w)}
    BY <1>2, <1>9
  <2>. QED BY <1>1, <1>2, <1>3, <1>8, <2>1, <2>2
<1>10. CASE left # {}
  <2>1. Going(w, "write", left, job[w].high, job[w].got, job[w].misread) /\ JobsOK'
    BY <1>4, <1>5, <1>6, <1>10, SetsIs DEF Going, Moving, ClockDividerTypeOK, JobsOK
  <2>2. job[w].left # {Current(w)}
    BY <1>10
  <2>. QED BY <1>1, <1>2, <1>3, <1>8, <2>1, <2>2
<1>. QED BY <1>9, <1>10

\* The first half of a divider is read.
LEMMA HasReadHigh ==
  ASSUME ClockDividerTypeOK, PlacesInv, NEW w \in Workers, ReadHigh(w)
  PROVE  /\ At(w, "read") /\ OnPdiv1(Current(w)) /\ job[w].left # {}
         /\ Going(w, "readLow", job[w].left, chip["r02"], job[w].got, job[w].misread)
         /\ JobsOK' /\ UNCHANGED chip /\ Settled /\ Steady /\ faults' = faults
<1>1. At(w, "read") /\ job[w].left # {} /\ OnPdiv1(Current(w))
  BY DEF ReadHigh, PlacesInv, PlaceInv, Reading, At, OnPdiv1
<1>2. job[w] \in Jobs /\ chip["r02"] \in Nat
  BY DEF ClockDividerTypeOK, Registers
<1> DEFINE j == [job[w] EXCEPT !.at = "readLow", !.high = chip["r02"]]
<1>3. j \in Jobs
  BY <1>2 DEF Jobs, Places
<1>4. /\ j.at = "readLow" /\ j.left = job[w].left /\ j.high = chip["r02"]
      /\ j.got = job[w].got /\ j.op = job[w].op /\ j.value = job[w].value
      /\ j.reference = job[w].reference /\ j.wasRunning = job[w].wasRunning
      /\ j.store = job[w].store /\ j.misread = job[w].misread
  BY <1>2 DEF Jobs
<1>5. Sets(w, j)
  BY Zenon DEF ReadHigh
<1> HIDE DEF j
<1>6. /\ Going(w, "readLow", job[w].left, chip["r02"], job[w].got, job[w].misread)
      /\ JobsOK'
  BY <1>3, <1>4, <1>5, SetsIs DEF Going, Moving, ClockDividerTypeOK, JobsOK
<1>7. UNCHANGED chip /\ Settled /\ Steady /\ faults' = faults
  BY DEF ReadHigh, NoFault, RestUnchanged, Steady, Settled, Files, promises
<1>. QED BY <1>1, <1>6, <1>7

\* A divider has been read.
LEMMA HasReadIs ==
  ASSUME ClockDividerTypeOK, PlacesInv, NEW w \in Workers, Reading(w), NEW d \in Nat,
         HasRead(w, d)
  PROVE  /\ Current(w) \in job[w].left /\ Current(w) \in Outputs
         /\ \E at \in {"done", "read"}:
              /\ at = "done" <=> job[w].left = {Current(w)}
              /\ Going(w, at, job[w].left \ {Current(w)}, job[w].high,
                       [job[w].got EXCEPT ![Current(w)] = d],
                       IF faults' = faults THEN job[w].misread
                       ELSE job[w].misread \cup {Current(w)})
         /\ JobsOK'
<1>1. job[w].left # {}
  BY DEF PlacesInv, PlaceInv
<1>2. Current(w) \in job[w].left /\ Current(w) \in Outputs
  BY <1>1, CurrentIsLeft
<1>3. job[w] \in Jobs
  BY DEF ClockDividerTypeOK
<1> DEFINE left == job[w].left \ {Current(w)}
           at == IF left = {} THEN "done" ELSE "read"
           got == [job[w].got EXCEPT ![Current(w)] = d]
           bad == IF faults' = faults THEN job[w].misread
                  ELSE job[w].misread \cup {Current(w)}
           j == [job[w] EXCEPT !.at = at, !.left = left, !.got[Current(w)] = d,
                               !.misread = IF faults' = faults THEN @
                                           ELSE @ \cup {Current(w)}]
<1>4. at \in Places /\ left \in SUBSET Outputs /\ got \in Dividers /\ bad \in SUBSET Outputs
  <2>1. at \in Places
    BY DEF Places
  <2>2. got \in Dividers
    BY <1>2, <1>3 DEF Jobs, Dividers
  <2>3. left \in SUBSET Outputs
    BY <1>3 DEF Jobs
  <2>4. bad \in SUBSET Outputs
    BY <1>2, <1>3 DEF Jobs
  <2>. QED BY <2>1, <2>2, <2>3, <2>4
<1>5. j = [job[w] EXCEPT !.at = at, !.left = left, !.got = got, !.misread = bad]
  BY <1>3, Zenon
<1> DEFINE k == [job[w] EXCEPT !.at = at, !.left = left, !.got = got, !.misread = bad]
<1> HIDE DEF at, left, got, bad, j
<1>6. k \in Jobs
  BY <1>3, <1>4 DEF Jobs
<1>7. /\ k.at = at /\ k.left = left /\ k.high = job[w].high
      /\ k.got = got /\ k.op = job[w].op /\ k.value = job[w].value
      /\ k.reference = job[w].reference /\ k.wasRunning = job[w].wasRunning
      /\ k.misread = bad /\ k.store = job[w].store
  BY <1>3 DEF Jobs
<1>8. Sets(w, k)
  BY <1>5, Zenon DEF HasRead, j, at, left
<1> HIDE DEF k
<1>9. Going(w, at, left, job[w].high, got, bad) /\ JobsOK'
  BY <1>6, <1>7, <1>8, SetsIs DEF Going, Moving, ClockDividerTypeOK, JobsOK
<1>10. at \in {"done", "read"} /\ (at = "done" <=> job[w].left = {Current(w)})
  BY <1>2 DEF at, left
<1>11. \E a \in {"done", "read"}:
         /\ a = "done" <=> job[w].left = {Current(w)}
         /\ Going(w, a, left, job[w].high, got, bad)
  BY <1>9, <1>10, Zenon
<1>. QED BY <1>2, <1>9, <1>11 DEF left, got, bad

LEMMA GotOne ==
  ASSUME ClockDividerTypeOK, PlacesInv, NEW w \in Workers,
         ReadLow(w) \/ ReadOne(w) \/ Misread(w)
  PROVE  /\ Reading(w) /\ Current(w) \in job[w].left /\ Current(w) \in Outputs /\ JobsOK'
         /\ \E d \in Nat, at \in {"done", "read"}, misread \in SUBSET Outputs:
              /\ at = "done" <=> job[w].left = {Current(w)}
              /\ Going(w, at, job[w].left \ {Current(w)}, job[w].high,
                       [job[w].got EXCEPT ![Current(w)] = d], misread)
              /\ \/ /\ misread = job[w].misread
                    /\ OnPdiv1(Current(w)) =>
                         At(w, "readLow") /\ d = job[w].high * Radix + chip["r03"]
                    /\ ~OnPdiv1(Current(w)) => d = chip[RegisterOf(Current(w))]
                 \/ d = 0 /\ misread = job[w].misread \cup {Current(w)}
         /\ UNCHANGED chip /\ Settled /\ Steady /\ faults' \in Nat
<1>1. Reading(w) /\ JobsOK
  BY DEF ReadLow, ReadOne, Misread, Reading, At, JobsOK, ClockDividerTypeOK
<1>2. job[w].left # {}
  BY <1>1 DEF PlacesInv, PlaceInv
<1>3. Current(w) \in job[w].left /\ Current(w) \in Outputs
  BY <1>2, CurrentIsLeft
<1>4. /\ job[w].high * Radix + chip["r03"] \in Nat
      /\ job[w].misread \in SUBSET Outputs /\ job[w].misread \cup {Current(w)} \in SUBSET Outputs
  BY <1>3, ClockDividerAssumption DEF ClockDividerTypeOK, Registers, Jobs
<1>5. UNCHANGED chip /\ Settled /\ Steady /\ faults' \in Nat
  BY DEF ReadLow, ReadOne, Misread, NoFault, Fault, RestUnchanged, Steady, Settled, Files,
         promises, ClockDividerTypeOK
<1>6. CASE ReadLow(w)
  <2> DEFINE d == job[w].high * Radix + chip["r03"]
  <2>1. HasRead(w, d) /\ faults' = faults /\ At(w, "readLow")
    BY <1>6 DEF ReadLow, NoFault
  <2>2. OnPdiv1(Current(w))
    BY <2>1 DEF PlacesInv, PlaceInv, At
  <2>. QED BY <1>1, <1>3, <1>4, <1>5, <2>1, <2>2, HasReadIs
<1>7. CASE ReadOne(w)
  <2> DEFINE d == chip[RegisterOf(Current(w))]
  <2>1. HasRead(w, d) /\ faults' = faults /\ ~OnPdiv1(Current(w))
    BY <1>7 DEF ReadOne, NoFault, OnPdiv1
  <2>2. d \in Nat
    BY PdivOf DEF ClockDividerTypeOK, Registers
  <2>. QED BY <1>1, <1>3, <1>4, <1>5, <2>1, <2>2, HasReadIs
<1>8. CASE Misread(w)
  <2>1. HasRead(w, 0) /\ faults' # faults
    BY <1>8 DEF Misread, Fault, ClockDividerTypeOK
  <2>. QED BY <1>1, <1>3, <1>4, <1>5, <2>1, HasReadIs
<1>. QED BY <1>6, <1>7, <1>8

\* A worker is through with its job, or was stopped by an error.
LEMMA HasEnded ==
  ASSUME ClockDividerTypeOK, PlacesInv, NEW w \in Workers,
         Fails(w) \/ EndStatus(w) \/ EndStart(w)
  PROVE  /\ Ends(w) /\ JobsOK' /\ UNCHANGED <<chip, files, remains, mounted>>
         /\ UNCHANGED <<promised, home, lost, booting, overlap, commands, restarts>>
         /\ inForce' \in BOOLEAN /\ acquiring' \in BOOLEAN /\ faults' \in Nat
         /\ inForce => inForce'
         /\ inForce' => inForce \/ (At(w, "done") /\ Faithful(w))
<1>1. Sets(w, Idle) /\ JobsOK
  BY DEF Fails, EndStatus, EndStart, JobsOK, ClockDividerTypeOK
<1>2. Ends(w) /\ JobsOK'
  BY <1>1, SetsIdle
<1>3. CASE Fails(w)
  BY <1>2, <1>3 DEF Fails, Fault, RestUnchanged, Files, promises, ClockDividerTypeOK
<1>4. CASE EndStatus(w)
  <2>1. inForce' = (inForce \/ (job[w].op # "status" /\ job[w].store = home /\ ~overlap))
    BY <1>4 DEF EndStatus, Restored
  <2>2. inForce' \in BOOLEAN /\ (inForce => inForce')
    BY <2>1, Zenon DEF ClockDividerTypeOK
  <2>3. At(w, "done") /\ job[w].op \in {"status", "init"}
    BY <1>4 DEF EndStatus, Done
  <2>4. inForce' => inForce \/ (At(w, "done") /\ Faithful(w))
    BY <2>1, <2>3 DEF Faithful
  <2>. QED
    BY <1>2, <1>4, <2>2, <2>4
    DEF EndStatus, Restored, NoFault, RestUnchanged, Files, ClockDividerTypeOK
<1>5. CASE EndStart(w)
  <2>1. acquiring' \in BOOLEAN
    BY <1>5, Zenon DEF EndStart, Safe
  <2>. QED
    BY <1>2, <1>5, <2>1 DEF EndStart, NoFault, RestUnchanged, Files, promises, ClockDividerTypeOK
<1>. QED BY <1>3, <1>4, <1>5

\* A start may follow; it goes by the file that is mounted.
StartsOn(w, content) ==
  \E reference \in Nat: /\ BeginsReading(w, "start", reference) /\ job'[w].store = mounted
                        /\ reference = content[mounted].reference

LEMMA HasGoneOn ==
  ASSUME ClockDividerTypeOK, NEW w \in Workers, GoesOn(w),
         files' \in [Stores -> Contents], mounted' = mounted
  PROVE  (Ends(w) \/ StartsOn(w, files')) /\ JobsOK'
<1> DEFINE reference == files'[mounted].reference
<1>1. JobsOK /\ "start" \in Ops /\ mounted \in Stores /\ reference \in Nat
  BY DEF JobsOK, ClockDividerTypeOK, Ops, Locked, Contents
<1>2. file'.reference = reference
  BY DEF file
<1>3. Sets(w, Idle) \/ Sets(w, Reads(Opens, "start", reference))
  BY <1>2, Zenon DEF GoesOn
<1> HIDE DEF reference
<1>4. CASE Sets(w, Idle)
  BY <1>1, <1>4, SetsIdle
<1>5. CASE Sets(w, Reads(Opens, "start", reference))
  BY <1>1, <1>5, SetsReads DEF StartsOn, reference
<1>. QED BY <1>3, <1>4, <1>5

\* main has restored the dividers.
LEMMA HasRestored ==
  ASSUME ClockDividerTypeOK, PlacesInv, EndRestore
  PROVE  /\ At("main", "done") /\ job["main"].op = "restore" /\ JobsOK'
         /\ Ends("main") \/ StartsOn("main", files')
         /\ UNCHANGED <<chip, files, remains, mounted, promised, home, lost, faults>> /\ Steady
         /\ inForce' \in BOOLEAN /\ (inForce => inForce')
         /\ inForce' => inForce \/ Faithful("main")
<1>1. /\ "main" \in Workers /\ files' \in [Stores -> Contents] /\ mounted' = mounted
      /\ UNCHANGED <<chip, files, remains, mounted, promised, home, lost, faults>> /\ Steady
  BY DEF EndRestore, Restored, NoFault, RestUnchanged, Files, Steady, Workers, ClockDividerTypeOK
<1>2. inForce' = (inForce \/ (job["main"].op # "status" /\ job["main"].store = home /\ ~overlap))
  BY DEF EndRestore, Restored
<1>3. inForce' \in BOOLEAN /\ (inForce => inForce')
  BY <1>2, Zenon DEF ClockDividerTypeOK
<1>4. At("main", "done") /\ job["main"].op = "restore"
  BY DEF EndRestore, Done
<1>5. inForce' => inForce \/ Faithful("main")
  BY <1>2, <1>4 DEF Faithful
<1>6. (Ends("main") \/ StartsOn("main", files')) /\ JobsOK'
  BY <1>1, HasGoneOn DEF EndRestore
<1>. QED BY <1>1, <1>3, <1>4, <1>5, <1>6

\* The file is cut off.
LEMMA HasCutOff ==
  ASSUME ClockDividerTypeOK, PlacesInv, NEW w \in Workers, Truncate(w)
  PROVE  /\ w = "listener" /\ At(w, "done") /\ Saving(w)
         /\ Moving(w, "flush", job[w].left, job[w].high, job[w].got, job[w].misread)
         /\ job'[w].store = mounted /\ JobsOK'
         /\ files' = [files EXCEPT ![mounted] = EmptyFile]
         /\ remains' = [remains EXCEPT ![mounted] = @ \cup {EmptyFile}]
         /\ lost' = IF mounted = home THEN Outputs ELSE lost
         /\ UNCHANGED <<chip, mounted, promised, home, inForce, faults>> /\ Steady
<1>1. w = "listener" /\ At(w, "done") /\ Saving(w)
  BY DEF Truncate, Done, Saving, PlacesInv, Workers
<1>2. job[w] \in Jobs /\ mounted \in Stores
  BY DEF ClockDividerTypeOK
<1> DEFINE j == [job[w] EXCEPT !.at = "flush", !.store = mounted]
<1>3. j \in Jobs
  BY <1>2 DEF Jobs, Places
<1>4. /\ j.at = "flush" /\ j.left = job[w].left /\ j.high = job[w].high
      /\ j.got = job[w].got /\ j.op = job[w].op /\ j.value = job[w].value
      /\ j.reference = job[w].reference /\ j.wasRunning = job[w].wasRunning
      /\ j.store = mounted /\ j.misread = job[w].misread
  BY <1>2 DEF Jobs
<1>5. Sets(w, j)
  BY Zenon DEF Truncate
<1> HIDE DEF j
<1>6. /\ Moving(w, "flush", job[w].left, job[w].high, job[w].got, job[w].misread)
      /\ job'[w].store = mounted /\ JobsOK'
  BY <1>3, <1>4, <1>5, SetsIs DEF Moving, ClockDividerTypeOK, JobsOK
<1>7. /\ files' = [files EXCEPT ![mounted] = EmptyFile]
      /\ remains' = [remains EXCEPT ![mounted] = @ \cup {EmptyFile}]
      /\ lost' = IF mounted = home THEN Outputs ELSE lost
      /\ UNCHANGED <<chip, mounted, promised, home, inForce, faults>> /\ Steady
  BY DEF Truncate, Shows, NoFault, RestUnchanged, Steady
<1>. QED BY <1>1, <1>6, <1>7

\* The file is written, or the disk is full, and the command is answered.
Gets(w) == {o \in Outputs: job[w].value[o] # 0 /\ job[w].op = "apply"}
Promises(w) ==
  promised' = [o \in Outputs |->
                 IF o \in Mates(Gets(w))
                 THEN job[w].value[CHOOSE p \in Gets(w): Pdiv(p) = Pdiv(o)]
                 ELSE promised[o]]

LEMMA HasSaved ==
  ASSUME ClockDividerTypeOK, PlacesInv, NEW w \in Workers, Flush(w) \/ DiskFull(w)
  PROVE  /\ w = "listener" /\ At(w, "flush") /\ Saving(w) /\ JobsOK'
         /\ Ends(w) \/ (job[w].op = "apply" /\ StartsOn(w, files'))
         /\ \/ /\ files' = [files EXCEPT ![job[w].store] = Save(w)]
               /\ lost' = job[w].misread
            \/ files' = files /\ lost' = Outputs
         /\ files' \in [Stores -> Contents] /\ remains' \in [Stores -> SUBSET Contents]
         /\ home' = job[w].store /\ Promises(w) /\ lost' \subseteq Outputs
         /\ UNCHANGED <<chip, mounted, inForce>> /\ Steady /\ faults' \in Nat
<1>1. w = "listener" /\ At(w, "flush") /\ Saving(w) /\ job[w] \in Jobs
  BY DEF Flush, DiskFull, PlacesInv, PlaceInv, Saving, ClockDividerTypeOK, Workers
<1>2. /\ job[w].reference \in Nat /\ job[w].got \in Dividers /\ job[w].store \in Stores
      /\ job[w].misread \in SUBSET Outputs
  BY <1>1 DEF Jobs
<1>3. Save(w) \in Contents
  BY <1>2 DEF Save, Contents
<1>4. files \in [Stores -> Contents] /\ remains \in [Stores -> SUBSET Contents]
  BY DEF ClockDividerTypeOK
<1> DEFINE missing == IF Flush(w) THEN job[w].misread ELSE Outputs
<1>5. \E m \in SUBSET Outputs:
        /\ Answers(w, m)
        /\ \/ /\ files' = [files EXCEPT ![job[w].store] = Save(w)]
              /\ remains' = [remains EXCEPT ![job[w].store] = @ \cup {Save(w)}]
              /\ m = job[w].misread
           \/ files' = files /\ remains' = remains /\ m = Outputs
  BY <1>2 DEF Flush, DiskFull, Shows, Files
<1>6. PICK m \in SUBSET Outputs:
        /\ Answers(w, m)
        /\ \/ /\ files' = [files EXCEPT ![job[w].store] = Save(w)]
              /\ remains' = [remains EXCEPT ![job[w].store] = @ \cup {Save(w)}]
              /\ m = job[w].misread
           \/ files' = files /\ remains' = remains /\ m = Outputs
  BY <1>5, Zenon
<1>7. files' \in [Stores -> Contents] /\ remains' \in [Stores -> SUBSET Contents]
  BY <1>2, <1>3, <1>4, <1>6
<1>8. home' = job[w].store /\ lost' = m /\ UNCHANGED inForce
  BY <1>6 DEF Answers
<1>9. Promises(w)
  BY <1>6, Zenon DEF Answers, Promises, Gets
<1>10. UNCHANGED <<chip, mounted>> /\ Steady /\ faults' \in Nat
  BY DEF Flush, DiskFull, Files, NoFault, Fault, RestUnchanged, Steady, ClockDividerTypeOK
<1>11. (Ends(w) \/ (job[w].op = "apply" /\ StartsOn(w, files'))) /\ JobsOK'
  <2>1. CASE job[w].wasRunning
    <3>1. GoesOn(w)
      BY <1>6, <2>1, Zenon DEF Answers
    <3>2. job[w].op = "apply"
      BY <2>1 DEF PlacesInv, PlaceInv
    <3>. QED BY <1>7, <1>10, <3>1, <3>2, HasGoneOn
  <2>2. CASE ~job[w].wasRunning
    <3>1. Sets(w, Idle) /\ JobsOK
      BY <1>6, <2>2, Zenon DEF Answers, ClockDividerTypeOK, JobsOK
    <3>. QED BY <3>1, SetsIdle
  <2>. QED BY <2>1, <2>2
<1>. QED BY <1>1, <1>6, <1>7, <1>8, <1>9, <1>10, <1>11

\* The saved dividers are about to be written.
LEMMA SetsWrites ==
  ASSUME ClockDividerTypeOK, NEW w \in Workers, NEW op \in {"restore", "init"},
         Sets(w, Writes(op, file.y, SavedOutputs, file.reference))
  PROVE  /\ Fresh(w, "write", op, file.y, SavedOutputs, file.reference)
         /\ job'[w].store = mounted /\ JobsOK'
<1>1. /\ file.y \in Dividers /\ file.reference \in Nat /\ SavedOutputs \in SUBSET Outputs
      /\ op \in Ops /\ mounted \in Stores
  BY FileOK DEF ClockDividerTypeOK, Ops, Locked
<1> DEFINE j == Writes(op, file.y, SavedOutputs, file.reference)
<1>2. j \in Jobs
  BY <1>1, FreshJobs
<1>3. /\ j.at = "write" /\ j.op = op /\ j.value = file.y /\ j.left = SavedOutputs
      /\ j.reference = file.reference /\ j.wasRunning = FALSE /\ j.store = mounted
      /\ j.misread = {}
  BY DEF Writes, Opens, Idle
<1> HIDE DEF j
<1>4. Sets(w, j) /\ JobsOK
  BY DEF j, JobsOK, ClockDividerTypeOK
<1>. QED BY <1>2, <1>3, <1>4, SetsIs DEF Fresh

\* divider-apply begins.
LEMMA BeganApply ==
  ASSUME ClockDividerTypeOK, NEW a \in ApplyRequests, BeginApply(a)
  PROVE  /\ Fresh("listener", "write", "apply",
                  [o \in Outputs |-> IF o \in a.outputs THEN a.divider ELSE 0],
                  a.outputs, ReferenceOf(a.reference))
         /\ JobsOK' /\ ReferenceOf(a.reference) \in Nat
<1> DEFINE value == [o \in Outputs |-> IF o \in a.outputs THEN a.divider ELSE 0]
           r == ReferenceOf(a.reference)
           k == Writes("apply", value, a.outputs, r)
           j == [k EXCEPT !.wasRunning = acquiring]
<1>1. value \in Dividers /\ r \in Nat /\ a.outputs \in SUBSET Outputs /\ "apply" \in Ops
  BY ClockDividerAssumption, FileOK DEF ReferenceOf, Dividers, Ops, Locked
<1>2. acquiring \in BOOLEAN /\ JobsOK /\ "listener" \in Workers /\ mounted \in Stores
  BY DEF ClockDividerTypeOK, JobsOK, Workers
<1>3. Sets("listener", j)
  BY Zenon DEF BeginApply
<1> HIDE DEF value, r
<1>4. j \in Jobs
  BY <1>1, <1>2, FreshJobs
<1>5. /\ j.at = "write" /\ j.op = "apply" /\ j.value = value /\ j.left = a.outputs
      /\ j.reference = r /\ j.misread = {}
  BY DEF Writes, Opens, Idle
<1> HIDE DEF j
<1>6. Fresh("listener", "write", "apply", value, a.outputs, r) /\ JobsOK'
  BY <1>2, <1>3, <1>4, <1>5, SetsIs DEF Fresh
<1>. QED BY <1>1, <1>6 DEF value, r

\* A command that only reads begins.
LEMMA BeganStatus ==
  ASSUME ClockDividerTypeOK, NEW op, NEW r \in References \cup {0}, BeginStatus(op, r)
  PROVE  /\ op \in {"status", "update"} /\ JobsOK' /\ ReferenceOf(r) \in Nat
         /\ BeginsReading("listener", op, ReferenceOf(r))
<1>1. ReferenceOf(r) \in Nat
  BY ClockDividerAssumption, FileOK DEF ReferenceOf
<1>2. /\ op \in {"status", "update"} /\ op \in Ops /\ JobsOK /\ "listener" \in Workers
      /\ mounted \in Stores
  BY DEF BeginStatus, Ops, ClockDividerTypeOK, JobsOK, Workers
<1>3. Sets("listener", Reads(Opens, op, ReferenceOf(r)))
  BY DEF BeginStatus
<1>. QED BY <1>1, <1>2, <1>3, SetsReads

LEMMA BeganStart ==
  ASSUME ClockDividerTypeOK, BeginStart
  PROVE  StartsOn("listener", files) /\ JobsOK'
<1>1. /\ file.reference \in Nat /\ "start" \in Ops /\ JobsOK /\ "listener" \in Workers
      /\ mounted \in Stores
  BY FileOK DEF Ops, Locked, ClockDividerTypeOK, JobsOK, Workers
<1>2. Sets("listener", Reads(Opens, "start", file.reference))
  BY DEF BeginStart
<1>. QED BY <1>1, <1>2, SetsReads DEF StartsOn, file

LEMMA Kept ==
  ASSUME ClockDividerTypeOK, JobsOK', chip' \in [Registers -> Nat],
         files' \in [Stores -> Contents], remains' \in [Stores -> SUBSET Contents],
         acquiring' \in BOOLEAN, inForce' \in BOOLEAN, promised' \in Dividers, faults' \in Nat,
         home' \in Stores, lost' \in SUBSET Outputs,
         UNCHANGED <<mounted, booting, overlap, commands, restarts>>
  PROVE  ClockDividerTypeOK'
BY DEF ClockDividerTypeOK, JobsOK

LEMMA TypesTransfer ==
  ASSUME ClockDividerTypeOK, PlacesInv, NEW w \in Workers, Transfer(w)
  PROVE  ClockDividerTypeOK'
<1> USE DEF Steady, Settled
<1>0. /\ chip \in [Registers -> Nat] /\ files \in [Stores -> Contents]
      /\ remains \in [Stores -> SUBSET Contents] /\ home \in Stores /\ lost \in SUBSET Outputs
      /\ acquiring \in BOOLEAN /\ inForce \in BOOLEAN /\ promised \in Dividers /\ faults \in Nat
  BY DEF ClockDividerTypeOK
<1>1. CASE WriteHigh(w)
  <2>1. High(job[w].value[Current(w)]) \in Nat
    BY <1>1, WroteHigh, Split
  <2>2. chip' \in [Registers -> Nat]
    BY <1>0, <1>1, <2>1, WroteHigh
  <2>. QED BY <1>0, <1>1, <2>2, WroteHigh, Kept
<1>2. CASE WriteLow(w) \/ WriteOne(w)
  <2>1. Low(job[w].value[Current(w)]) \in Nat /\ job[w].value[Current(w)] \in Nat
    BY <1>2, Wrote, Split
  <2>2. chip' \in [Registers -> Nat]
    BY <1>0, <1>2, <2>1, Wrote
  <2>. QED BY <1>0, <1>2, <2>2, Wrote, Kept
<1>3. CASE ReadHigh(w)
  BY <1>0, <1>3, HasReadHigh, Kept
<1>4. CASE ReadLow(w) \/ ReadOne(w) \/ Misread(w)
  BY <1>0, <1>4, GotOne, Kept
<1>5. CASE Fails(w)
  BY <1>0, <1>5, HasEnded, Kept
<1>. QED BY <1>1, <1>2, <1>3, <1>4, <1>5 DEF Transfer

\* Whoever shares a divider with something that is applied is promised that value.
LEMMA PromisesOne ==
  ASSUME ClockDividerTypeOK, NEW w \in Workers, NEW o \in Outputs, o \in Mates(Gets(w)),
         Promises(w)
  PROVE  \E p \in Gets(w): Pdiv(p) = Pdiv(o) /\ promised'[o] = job[w].value[p]
<1>1. \E p \in Gets(w): Pdiv(p) = Pdiv(o)
  BY DEF Mates
<1> DEFINE P == CHOOSE p \in Gets(w): Pdiv(p) = Pdiv(o)
<1>2. P \in Gets(w) /\ Pdiv(P) = Pdiv(o)
  BY <1>1, Zenon
<1>3. promised'[o] = job[w].value[P]
  BY DEF Promises
<1>. QED BY <1>2, <1>3, Zenon

LEMMA PromisesType ==
  ASSUME ClockDividerTypeOK, NEW w \in Workers, Promises(w)
  PROVE  promised' \in Dividers
<1>1. ASSUME NEW o \in Outputs PROVE promised'[o] \in Nat
  <2>1. CASE o \in Mates(Gets(w))
    BY <2>1, PromisesOne DEF Gets, ClockDividerTypeOK, Jobs, Dividers
  <2>2. CASE o \notin Mates(Gets(w))
    BY <2>2 DEF Promises, ClockDividerTypeOK, Dividers
  <2>. QED BY <2>1, <2>2
<1>2. promised' = [o \in Outputs |-> promised'[o]]
  BY DEF Promises
<1>. QED BY <1>1, <1>2 DEF Dividers

LEMMA TypesEnd ==
  ASSUME ClockDividerTypeOK, PlacesInv,
         EndRestore \/ \E w \in Workers: End(w)
  PROVE  ClockDividerTypeOK'
<1> USE DEF Steady
<1>0. /\ chip \in [Registers -> Nat] /\ files \in [Stores -> Contents]
      /\ remains \in [Stores -> SUBSET Contents] /\ home \in Stores /\ lost \in SUBSET Outputs
      /\ acquiring \in BOOLEAN /\ inForce \in BOOLEAN /\ promised \in Dividers /\ faults \in Nat
      /\ mounted \in Stores
  BY DEF ClockDividerTypeOK
<1>1. CASE EndRestore
  BY <1>0, <1>1, HasRestored, Kept
<1>2. ASSUME NEW w \in Workers, EndStatus(w) \/ EndStart(w)
      PROVE  ClockDividerTypeOK'
  BY <1>0, <1>2, HasEnded, Kept
<1>3. ASSUME NEW w \in Workers, Truncate(w)
      PROVE  ClockDividerTypeOK'
  <2>1. EmptyFile \in Contents
    BY FileOK
  <2>2. /\ files' \in [Stores -> Contents] /\ remains' \in [Stores -> SUBSET Contents]
        /\ lost' \in SUBSET Outputs
    BY <1>0, <1>3, <2>1, HasCutOff
  <2>. QED BY <1>0, <1>3, <2>2, HasCutOff, Kept
<1>4. ASSUME NEW w \in Workers, Flush(w) \/ DiskFull(w)
      PROVE  ClockDividerTypeOK'
  <2>1. promised' \in Dividers
    BY <1>4, HasSaved, PromisesType
  <2>2. home' \in Stores
    BY <1>4, HasSaved DEF ClockDividerTypeOK, Jobs
  <2>. QED BY <1>0, <1>4, <2>1, <2>2, HasSaved, Kept
<1>. QED BY <1>1, <1>2, <1>3, <1>4 DEF End

LEMMA Forgotten ==
  ASSUME ClockDividerTypeOK, NEW outputs, Forgets(outputs)
  PROVE  promised' \in Dividers /\ inForce' = TRUE /\ UNCHANGED <<home, lost>>
BY DEF Forgets, ClockDividerTypeOK, Dividers

LEMMA HasRestores ==
  ASSUME ClockDividerTypeOK, Restores
  PROVE  /\ promised' \in Dividers /\ inForce' \in BOOLEAN /\ UNCHANGED <<home, lost>>
         /\ inForce' => inForce /\ mounted = home
         /\ \A o \in Outputs: promised'[o] # 0 =>
              /\ promised'[o] = promised[o]
              /\ mounted = home \/ (o \notin lost /\ job["listener"].op # "update")
         /\ mounted = home => UNCHANGED <<promised, inForce>>
<1>0. promised \in [Outputs -> Nat] /\ inForce \in BOOLEAN
  BY DEF ClockDividerTypeOK, Dividers
<1>1. CASE mounted = home
  <2>1. UNCHANGED <<promised, home, lost, inForce>>
    BY <1>1 DEF Restores, promises
  <2>. QED BY <1>0, <1>1, <2>1 DEF Dividers
<1>2. CASE mounted # home
  <2>1. /\ inForce' = FALSE /\ UNCHANGED <<home, lost>>
        /\ promised' = [o \in Outputs |->
                          IF o \in lost \/ job["listener"].op = "update" THEN 0 ELSE promised[o]]
    BY <1>2 DEF Restores
  <2>2. \A o \in Outputs:
          promised'[o] = IF o \in lost \/ job["listener"].op = "update" THEN 0 ELSE promised[o]
    BY <2>1
  <2>3. promised' \in Dividers
    BY <1>0, <2>1 DEF Dividers
  <2>. QED BY <1>2, <2>1, <2>2, <2>3
<1>. QED BY <1>1, <1>2

LEMMA TypesBegin ==
  ASSUME ClockDividerTypeOK, PlacesInv, Begin
  PROVE  ClockDividerTypeOK'
<1> USE DEF Files
<1>0. "main" \in Workers /\ "listener" \in Workers
  BY DEF Workers
<1>1. CASE BeginRestore
  <2>1. overlap' \in BOOLEAN
    BY <1>1, Zenon DEF BeginRestore
  <2>2. JobsOK'
    BY <1>0, <1>1, SetsWrites DEF BeginRestore, JobsOK, ClockDividerTypeOK
  <2>3. promised' \in Dividers /\ inForce' \in BOOLEAN /\ UNCHANGED <<home, lost>>
    BY <1>1, HasRestores DEF BeginRestore, promises, ClockDividerTypeOK
  <2>. QED BY <1>1, <2>1, <2>2, <2>3 DEF BeginRestore, ClockDividerTypeOK, JobsOK
<1>2. ASSUME Command PROVE overlap' \in BOOLEAN /\ commands' \in Nat
  <2>1. overlap' \in BOOLEAN
    BY <1>2, Zenon DEF Command, ClockDividerTypeOK
  <2>. QED BY <1>2, <2>1 DEF Command, ClockDividerTypeOK
<1>3. CASE BeginInit
  <2>1. JobsOK' /\ Command
    BY <1>0, <1>3, SetsWrites DEF BeginInit
  <2>2. promised' \in Dividers /\ inForce' \in BOOLEAN /\ UNCHANGED <<home, lost>>
    BY <1>3, HasRestores DEF BeginInit
  <2>. QED BY <1>2, <1>3, <2>1, <2>2 DEF BeginInit, Command, ClockDividerTypeOK, JobsOK
<1>4. CASE BeginStart
  <2>1. JobsOK' /\ Command
    BY <1>4, BeganStart DEF BeginStart
  <2>. QED BY <1>2, <1>4, <2>1 DEF BeginStart, Command, promises, ClockDividerTypeOK, JobsOK
<1>5. CASE StopAcquiring
  <2>1. Command
    BY <1>5 DEF StopAcquiring
  <2>. QED BY <1>2, <1>5, <2>1 DEF StopAcquiring, Command, promises, ClockDividerTypeOK, JobsOK
<1>6. ASSUME NEW op \in {"status", "update"}, NEW r \in References \cup {0}, BeginStatus(op, r)
      PROVE  ClockDividerTypeOK'
  <2>1. JobsOK' /\ Command
    BY <1>6, BeganStatus DEF BeginStatus
  <2>2. promised' \in Dividers /\ inForce' \in BOOLEAN /\ UNCHANGED <<home, lost>>
    BY <1>6, Forgotten DEF BeginStatus, promises, ClockDividerTypeOK
  <2>. QED BY <1>2, <1>6, <2>1, <2>2 DEF BeginStatus, Command, ClockDividerTypeOK, JobsOK
<1>7. ASSUME NEW a \in ApplyRequests, BeginApply(a)
      PROVE  ClockDividerTypeOK'
  <2>1. JobsOK' /\ Command
    BY <1>7, BeganApply DEF BeginApply
  <2>2. promised' \in Dividers /\ inForce' \in BOOLEAN /\ UNCHANGED <<home, lost>>
    BY <1>7, Forgotten DEF BeginApply
  <2>. QED BY <1>2, <1>7, <2>1, <2>2 DEF BeginApply, Command, ClockDividerTypeOK, JobsOK
<1>. QED BY <1>1, <1>3, <1>4, <1>5, <1>6, <1>7 DEF Begin

\* Power may be lost only with the process; the kernel never waits for either.
LEMMA TypesRestart ==
  ASSUME ClockDividerTypeOK, NEW powerLoss \in BOOLEAN, Restart(powerLoss)
  PROVE  ClockDividerTypeOK'
<1>1. job' \in [Workers -> Jobs]
  BY IdleJob DEF Restart
<1>2. booting' \in BOOLEAN /\ acquiring' \in BOOLEAN /\ overlap' \in BOOLEAN
  BY Zenon DEF Restart
<1>3. commands' \in Nat /\ faults' \in Nat /\ restarts' \in Nat
  BY DEF Restart, ClockDividerTypeOK
<1>4. CASE powerLoss
  <2>1. PowerLoss
    BY <1>4 DEF Restart
  <2>2. chip' \in [Registers -> Nat] /\ mounted' \in Stores /\ inForce' \in BOOLEAN
        /\ UNCHANGED <<home, lost>>
    BY <2>1, ClockDividerAssumption DEF PowerLoss
  <2>3. promised' \in Dividers
    BY <2>1 DEF PowerLoss, ClockDividerTypeOK, Dividers
  <2>4. \A t \in Stores: files'[t] \in remains[t] /\ remains[t] \subseteq Contents
    BY <2>1 DEF PowerLoss, ClockDividerTypeOK
  <2>5. files' \in [Stores -> Contents]
    BY <2>1, <2>4 DEF PowerLoss
  <2>6. remains' \in [Stores -> SUBSET Contents]
    BY <2>1, <2>5 DEF PowerLoss
  <2>. QED BY <1>1, <1>2, <1>3, <2>2, <2>3, <2>5, <2>6, Zenon DEF ClockDividerTypeOK
<1>5. CASE ~powerLoss
  <2>1. UNCHANGED <<chip, files, remains, mounted, promised, home, lost, inForce>>
    BY <1>5 DEF Restart, Files, promises
  <2>. QED BY <1>1, <1>2, <1>3, <2>1 DEF ClockDividerTypeOK
<1>. QED BY <1>4, <1>5

\* Around the process only the files move.
LEMMA TypesAround ==
  ASSUME ClockDividerTypeOK, NEW store \in Stores, WriteBack(store) \/ Mount(store)
  PROVE  /\ ClockDividerTypeOK'
         /\ UNCHANGED <<chip, files, job, booting, acquiring, overlap>>
         /\ UNCHANGED <<promised, home, lost, inForce>>
<1>1. CASE WriteBack(store)
  <2>1. remains' \in [Stores -> SUBSET Contents]
    BY <1>1 DEF WriteBack, ClockDividerTypeOK
  <2>. QED BY <1>1, <2>1 DEF WriteBack, promises, ClockDividerTypeOK
<1>2. CASE Mount(store)
  BY <1>2 DEF Mount, Fault, promises, ClockDividerTypeOK
<1>. QED BY <1>1, <1>2

-----------------------------------------------------------------------------
\* Places.

\* When a worker moves, PlacesInv asks something of that worker only.
LEMMA PlacesKept ==
  ASSUME ClockDividerTypeOK, PlacesInv, NEW w \in Workers, Others(w), PlaceInv(w)',
         job'["main"].op \in {"none", "restore", "start"}, job'["listener"].op # "restore",
         booting' => job'["main"].at = "idle" /\ ~overlap',
         job'[w].op \in Locked => \A v \in Workers \ {w}: job[v].op \notin Locked,
         overlap' \/ job'["main"].at = "idle" \/ job'["listener"].at = "idle",
         chip'["r03"] < Radix,
         job'["listener"].at = "flush" => files'[job'["listener"].store] = EmptyFile
  PROVE  PlacesInv'
<1>1. ASSUME NEW v \in Workers, v # w PROVE PlaceInv(v)'
  BY <1>1 DEF PlacesInv, PlaceInv, Others, At, Writing, Reading, Saving, Current
<1>2. \A v \in Workers: PlaceInv(v)'
  BY <1>1
<1>3. ~(job'["main"].op \in Locked /\ job'["listener"].op \in Locked)
  BY DEF PlacesInv, Others, Workers
<1>. QED BY <1>2, <1>3 DEF PlacesInv, At

LEMMA PlacesTransfer ==
  ASSUME ClockDividerTypeOK, PlacesInv, NEW w \in Workers, Transfer(w)
  PROVE  PlacesInv'
<1> USE DEF Steady, Settled, Moving
<1>0. /\ PlaceInv(w) /\ chip["r03"] < Radix /\ chip \in [Registers -> Nat]
      /\ "main" \in Workers /\ "listener" \in Workers
  BY DEF PlacesInv, ClockDividerTypeOK, Workers
<1>1. ASSUME job'[w].op = job[w].op \/ job'[w].op = "none", Others(w),
             job[w].at # "idle", UNCHANGED <<booting, files, overlap>>,
             job'[w].at # "flush", PlaceInv(w)', chip'["r03"] < Radix
      PROVE  PlacesInv'
  <2>1. /\ job'["main"].op \in {"none", "restore", "start"} /\ job'["listener"].op # "restore"
        /\ booting' => job'["main"].at = "idle" /\ ~overlap'
        /\ job'["listener"].at = "flush" => files'[job'["listener"].store] = EmptyFile
        /\ overlap' \/ job'["main"].at = "idle" \/ job'["listener"].at = "idle"
    BY <1>1 DEF PlacesInv, PlaceInv, Others, Workers, At
  <2>2. job'[w].op \in Locked => \A v \in Workers \ {w}: job[v].op \notin Locked
    BY <1>1 DEF PlacesInv, Workers, Locked
  <2>. QED BY <1>1, <2>1, <2>2, PlacesKept
<1>2. CASE WriteHigh(w)
  <2>1. PlaceInv(w)'
    BY <1>0, <1>2, WroteHigh DEF PlaceInv, Going, At, Writing, Reading, Saving, Current
  <2>2. chip'["r03"] < Radix
    BY <1>0, <1>2, WroteHigh DEF Registers
  <2>. QED BY <1>1, <1>2, <2>1, <2>2, WroteHigh DEF Going, At
<1>3. CASE WriteLow(w) \/ WriteOne(w)
  <2>1. PlaceInv(w)'
    BY <1>0, <1>3, Wrote, OutputsOK DEF PlaceInv, Going, At, Writing, Reading, Saving
  <2>2. Low(job[w].value[Current(w)]) < Radix
    BY <1>3, Wrote, Split
  <2>3. chip'["r03"] < Radix
    BY <1>0, <1>3, <2>2, Wrote, PdivOf DEF Registers
  <2>. QED BY <1>1, <1>3, <2>1, <2>3, Wrote DEF Going, Writing
<1>4. CASE ReadHigh(w)
  <2>1. PlaceInv(w)'
    BY <1>0, <1>4, HasReadHigh DEF PlaceInv, Going, At, Writing, Reading, Saving, Current
  <2>. QED BY <1>0, <1>1, <1>4, <2>1, HasReadHigh DEF Going, At
<1>5. CASE ReadLow(w) \/ ReadOne(w) \/ Misread(w)
  <2>0. PICK d \in Nat, at \in {"done", "read"}, misread \in SUBSET Outputs:
          /\ at = "done" <=> job[w].left = {Current(w)}
          /\ Going(w, at, job[w].left \ {Current(w)}, job[w].high,
                   [job[w].got EXCEPT ![Current(w)] = d], misread)
          /\ \/ /\ misread = job[w].misread
                /\ OnPdiv1(Current(w)) =>
                     At(w, "readLow") /\ d = job[w].high * Radix + chip["r03"]
                /\ ~OnPdiv1(Current(w)) => d = chip[RegisterOf(Current(w))]
             \/ d = 0 /\ misread = job[w].misread \cup {Current(w)}
    BY <1>5, GotOne
  <2>1. /\ at = "done" <=> job[w].left = {Current(w)}
        /\ job'[w].at = at /\ job'[w].left = job[w].left \ {Current(w)}
        /\ job'[w].misread = misread /\ misread \subseteq job[w].misread \cup {Current(w)}
        /\ job'[w].op = job[w].op /\ job'[w].wasRunning = job[w].wasRunning /\ Others(w)
    BY <2>0 DEF Going
  <2>2. Current(w) \in job[w].left /\ Reading(w)
    BY <1>5, GotOne
  <2>3. PlaceInv(w)'
    BY <1>0, <2>1, <2>2 DEF PlaceInv, At, Writing, Reading, Saving
  <2>. QED BY <1>0, <1>1, <1>5, <2>1, <2>2, <2>3, GotOne DEF Reading
<1>6. CASE Fails(w)
  <2>1. Ends(w) /\ UNCHANGED <<booting, files, overlap, chip>> /\ job[w].at # "idle"
    BY <1>6, HasEnded DEF Fails, At
  <2>2. PlaceInv(w)'
    BY <2>1 DEF Ends, PlaceInv, At, Writing, Reading, Saving
  <2>. QED BY <1>0, <1>1, <2>1, <2>2 DEF Ends
<1>. QED BY <1>2, <1>3, <1>4, <1>5, <1>6 DEF Transfer

LEMMA EndedPlace ==
  ASSUME NEW w \in Workers, Ends(w)
  PROVE  PlaceInv(w)'
BY DEF Ends, PlaceInv, At, Writing, Reading, Saving

LEMMA ReadingPlace ==
  ASSUME NEW w \in Workers, NEW op, op # "none", NEW reference, BeginsReading(w, op, reference)
  PROVE  PlaceInv(w)'
BY OutputsOK DEF BeginsReading, Fresh, PlaceInv, At, Writing, Reading, Saving

LEMMA PlacesEnd ==
  ASSUME ClockDividerTypeOK, PlacesInv,
         EndRestore \/ \E w \in Workers: End(w)
  PROVE  PlacesInv'
<1> USE DEF Steady, Settled, Moving
<1>0. /\ chip["r03"] < Radix /\ "main" \in Workers /\ "listener" \in Workers
  BY DEF PlacesInv, Workers
<1>1. CASE EndRestore
  <2>1. Ends("main") \/ \E reference \in Nat: BeginsReading("main", "start", reference)
    BY <1>1, HasRestored DEF StartsOn
  <2>2. PlaceInv("main")'
    BY <1>0, <2>1, EndedPlace, ReadingPlace
  <2>3. /\ Others("main") /\ job'["main"].op \in {"none", "start"}
        /\ job["main"].op = "restore" /\ At("main", "done")
        /\ UNCHANGED <<booting, chip, files, overlap>>
    BY <1>1, <2>1, HasRestored DEF Ends, BeginsReading, Fresh
  <2>4. job["listener"].op \notin Locked /\ job'["listener"] = job["listener"]
    BY <2>3 DEF PlacesInv, Locked, Others, Workers
  <2>5. /\ job'["listener"].op # "restore" /\ (booting' => job'["main"].at = "idle" /\ ~overlap')
        /\ job'["listener"].at = "flush" => files'[job'["listener"].store] = EmptyFile
        /\ overlap' \/ job'["main"].at = "idle" \/ job'["listener"].at = "idle"
    BY <2>3, <2>4 DEF PlacesInv, At
  <2>6. job'["main"].op \in Locked => \A v \in Workers \ {"main"}: job[v].op \notin Locked
    BY <2>4 DEF Workers
  <2>. QED BY <1>0, <2>2, <2>3, <2>5, <2>6, PlacesKept
<1>2. ASSUME NEW w \in Workers, EndStatus(w) \/ EndStart(w)
      PROVE  PlacesInv'
  <2>1. Ends(w) /\ UNCHANGED <<booting, files, overlap, chip>>
    BY <1>2, HasEnded
  <2>2. PlaceInv(w)'
    BY <2>1, EndedPlace
  <2>3. /\ job'["main"].op \in {"none", "restore", "start"} /\ job'["listener"].op # "restore"
        /\ booting' => job'["main"].at = "idle" /\ ~overlap'
        /\ job'["listener"].at = "flush" => files'[job'["listener"].store] = EmptyFile
        /\ overlap' \/ job'["main"].at = "idle" \/ job'["listener"].at = "idle"
        /\ job'[w].op \notin Locked /\ Others(w)
    BY <2>1 DEF PlacesInv, Ends, Others, Workers, At, Locked
  <2>. QED BY <1>0, <2>1, <2>2, <2>3, PlacesKept
<1>3. ASSUME NEW w \in Workers, Truncate(w)
      PROVE  PlacesInv'
  <2>1. /\ w = "listener" /\ job[w].at = "done" /\ Saving(w) /\ Others(w)
        /\ job'[w].at = "flush" /\ job'[w].left = job[w].left
        /\ job'[w].misread = job[w].misread
        /\ job'[w].op = job[w].op /\ job'[w].wasRunning = job[w].wasRunning
        /\ files'[job'[w].store] = EmptyFile /\ UNCHANGED <<chip, booting, overlap>>
    BY <1>3, HasCutOff DEF At, ClockDividerTypeOK
  <2>2. PlaceInv(w)'
    BY <2>1 DEF PlacesInv, PlaceInv, At, Writing, Reading, Saving
  <2>3. /\ job'["main"].op \in {"none", "restore", "start"} /\ job'["listener"].op # "restore"
        /\ booting' => job'["main"].at = "idle" /\ ~overlap'
        /\ overlap' \/ job'["main"].at = "idle" \/ job'["listener"].at = "idle"
    BY <2>1 DEF PlacesInv, Others, Workers, At
  <2>4. job'[w].op \in Locked => \A v \in Workers \ {w}: job[v].op \notin Locked
    BY <2>1 DEF PlacesInv, Workers
  <2>. QED BY <1>0, <2>1, <2>2, <2>3, <2>4, PlacesKept
<1>4. ASSUME NEW w \in Workers, Flush(w) \/ DiskFull(w)
      PROVE  PlacesInv'
  <2>1. /\ w = "listener" /\ At(w, "flush") /\ UNCHANGED <<chip, booting, overlap>>
        /\ \/ Ends(w)
           \/ job[w].op = "apply" /\ \E reference \in Nat: BeginsReading(w, "start", reference)
    BY <1>4, HasSaved DEF StartsOn
  <2>2. PlaceInv(w)'
    BY <2>1, EndedPlace, ReadingPlace
  <2>3. /\ Others(w) /\ job'[w].op \in {"none", "start"} /\ job'[w].at # "flush"
        /\ job'[w].op \in Locked => job[w].op \in Locked
    BY <2>1 DEF Ends, BeginsReading, Fresh, Locked
  <2>4. /\ job'["main"].op \in {"none", "restore", "start"} /\ job'["listener"].op # "restore"
        /\ booting' => job'["main"].at = "idle" /\ ~overlap'
        /\ overlap' \/ job'["main"].at = "idle" \/ job'["listener"].at = "idle"
    BY <2>1, <2>3 DEF PlacesInv, Others, Workers, At
  <2>5. job'[w].op \in Locked => \A v \in Workers \ {w}: job[v].op \notin Locked
    BY <2>1, <2>3 DEF PlacesInv, Workers
  <2>. QED BY <1>0, <2>1, <2>2, <2>3, <2>4, <2>5, PlacesKept
<1>. QED BY <1>1, <1>2, <1>3, <1>4 DEF End

LEMMA PlacesBegin ==
  ASSUME ClockDividerTypeOK, PlacesInv, Begin
  PROVE  PlacesInv'
<1> USE DEF Files
<1>0. chip["r03"] < Radix /\ "main" \in Workers /\ "listener" \in Workers
  BY DEF PlacesInv, Workers
<1>1. CASE BeginRestore
  <2>1. /\ booting /\ Unlocked /\ booting' = FALSE /\ UNCHANGED <<chip, files>>
        /\ job["main"].at = "idle"
        /\ overlap' = (SavedOutputs # {} /\ ~At("listener", "idle"))
    BY <1>1 DEF BeginRestore, PlacesInv, At
  <2>2. CASE SavedOutputs = {}
    <3>1. job' = job
      BY <1>1, <2>2 DEF BeginRestore
    <3>. QED BY <2>1, <3>1 DEF PlacesInv, PlaceInv, At, Writing, Reading, Saving, Current
  <2>3. CASE SavedOutputs # {}
    <3>1. Fresh("main", "write", "restore", file.y, SavedOutputs, file.reference)
      BY <1>0, <1>1, <2>3, SetsWrites DEF BeginRestore
    <3>2. \A o \in SavedOutputs: file.y[o] # 0
      BY DEF SavedOutputs
    <3>3. PlaceInv("main")'
      BY <2>3, <3>1, <3>2 DEF Fresh, PlaceInv, At, Writing, Reading, Saving
    <3>4. /\ job'["listener"] = job["listener"] /\ job["listener"].op \notin Locked
          /\ job'["main"].op = "restore" /\ Others("main")
      BY <2>1, <3>1 DEF Fresh, Others, Workers, Unlocked
    <3>5. /\ job'["listener"].op # "restore"
          /\ job'["listener"].at = "flush" => files'[job'["listener"].store] = EmptyFile
          /\ overlap' \/ job'["main"].at = "idle" \/ job'["listener"].at = "idle"
      BY <2>1, <2>3, <3>4 DEF PlacesInv, At
    <3>6. \A v \in Workers \ {"main"}: job[v].op \notin Locked
      BY <3>4 DEF Workers
    <3>. QED BY <1>0, <2>1, <3>3, <3>4, <3>5, <3>6, PlacesKept
  <2>. QED BY <2>2, <2>3
<1>2. ASSUME UNCHANGED <<chip, files, booting>>, Others("listener"), PlaceInv("listener")',
             job'["listener"].op # "restore", job'["listener"].at # "flush", Command,
             job'["listener"].op \in Locked => Unlocked
      PROVE  PlacesInv'
  <2>1. job'["main"] = job["main"]
    BY <1>2 DEF Others, Workers
  <2>2. /\ job'["main"].op \in {"none", "restore", "start"}
        /\ booting' => job'["main"].at = "idle" /\ ~overlap'
    <3>1. job["main"].at = "idle" => ~overlap'
      BY <1>2, Zenon DEF Command, At
    <3>. QED BY <1>2, <2>1, <3>1 DEF PlacesInv, At
  <2>3. overlap' \/ job["main"].at = "idle"
    BY <1>2, Zenon DEF Command, At
  <2>4. job'["listener"].op \in Locked => \A v \in Workers \ {"listener"}: job[v].op \notin Locked
    BY <1>2 DEF Unlocked
  <2>. QED BY <1>0, <1>2, <2>1, <2>2, <2>3, <2>4, PlacesKept
<1>3. CASE BeginInit
  <2>1. Fresh("listener", "write", "init", file.y, SavedOutputs, file.reference)
    BY <1>0, <1>3, SetsWrites DEF BeginInit
  <2>2. SavedOutputs # {} /\ \A o \in SavedOutputs: file.y[o] # 0
    BY <1>3 DEF BeginInit, SavedOutputs
  <2>3. PlaceInv("listener")'
    BY <2>1, <2>2 DEF Fresh, PlaceInv, At, Writing, Reading, Saving
  <2>4. UNCHANGED <<chip, files, booting>> /\ Command
    BY <1>3 DEF BeginInit, Command
  <2>. QED BY <1>2, <2>1, <2>3, <2>4 DEF Fresh, Locked
<1>4. CASE BeginStart
  <2>1. \E reference \in Nat: BeginsReading("listener", "start", reference)
    BY <1>4, BeganStart DEF StartsOn
  <2>2. PlaceInv("listener")'
    BY <1>0, <2>1, ReadingPlace
  <2>3. UNCHANGED <<chip, files, booting>> /\ Unlocked /\ Command
    BY <1>4 DEF BeginStart, Command
  <2>. QED BY <1>2, <2>1, <2>2, <2>3 DEF BeginsReading, Fresh
<1>5. CASE StopAcquiring
  <2>1. /\ UNCHANGED <<chip, files, booting, job>> /\ At("listener", "idle") /\ Command
    BY <1>5 DEF StopAcquiring, Command
  <2>2. overlap' <=> ~At("main", "idle")
    BY <2>1, Zenon DEF Command
  <2>3. \A w \in Workers: PlaceInv(w)'
    BY <2>1 DEF PlacesInv, PlaceInv, At, Writing, Reading, Saving, Current
  <2>. QED BY <2>1, <2>2, <2>3 DEF PlacesInv, At
<1>6. ASSUME NEW op \in {"status", "update"}, NEW r \in References \cup {0}, BeginStatus(op, r)
      PROVE  PlacesInv'
  <2>1. BeginsReading("listener", op, ReferenceOf(r))
    BY <1>6, BeganStatus
  <2>2. PlaceInv("listener")'
    BY <1>0, <2>1, ReadingPlace
  <2>3. UNCHANGED <<chip, files, booting>> /\ Command
    BY <1>6 DEF BeginStatus, Command
  <2>. QED BY <1>2, <2>1, <2>2, <2>3 DEF BeginsReading, Fresh, Locked
<1>7. ASSUME NEW a \in ApplyRequests, BeginApply(a)
      PROVE  PlacesInv'
  <2> DEFINE value == [o \in Outputs |-> IF o \in a.outputs THEN a.divider ELSE 0]
  <2>1. Fresh("listener", "write", "apply", value, a.outputs, ReferenceOf(a.reference))
    BY <1>7, BeganApply
  <2>2. a.outputs # {} /\ \A o \in a.outputs: value[o] # 0
    BY ClockDividerAssumption
  <2> HIDE DEF value
  <2>3. PlaceInv("listener")'
    BY <2>1, <2>2 DEF Fresh, PlaceInv, At, Writing, Reading, Saving
  <2>4. UNCHANGED <<chip, files, booting>> /\ Unlocked /\ Command
    BY <1>7 DEF BeginApply, Command
  <2>. QED BY <1>2, <2>1, <2>3, <2>4 DEF Fresh
<1>. QED BY <1>1, <1>3, <1>4, <1>5, <1>6, <1>7 DEF Begin

LEMMA AllIdle ==
  ASSUME NEW powerLoss \in BOOLEAN, Restart(powerLoss)
  PROVE  /\ job' = [w \in Workers |-> Idle]
         /\ \A w \in Workers: /\ job'[w].at = "idle" /\ job'[w].op = "none"
                              /\ ~job'[w].wasRunning /\ job'[w].misread = {}
BY DEF Restart, Idle

LEMMA PlacesRestart ==
  ASSUME ClockDividerTypeOK, PlacesInv, NEW powerLoss \in BOOLEAN, Restart(powerLoss)
  PROVE  PlacesInv'
<1>1. "main" \in Workers /\ "listener" \in Workers
  BY DEF Workers
<1>2. chip'["r03"] < Radix
  BY ClockDividerAssumption DEF PlacesInv, Restart, PowerLoss
<1>3. (\A w \in Workers: PlaceInv(w)') /\ ~overlap'
  BY AllIdle DEF PlaceInv, At, Writing, Reading, Saving, Restart
<1>. QED BY <1>1, <1>2, <1>3, AllIdle DEF PlacesInv, At, Locked

LEMMA PlacesAround ==
  ASSUME PlacesInv, UNCHANGED <<chip, files, job, booting, overlap>>
  PROVE  PlacesInv'
<1>1. \A w \in Workers: PlaceInv(w)'
  BY DEF PlacesInv, PlaceInv, At, Writing, Reading, Saving, Current
<1>. QED BY <1>1 DEF PlacesInv, At

-----------------------------------------------------------------------------
\* Promises.

\* The chip has to keep a promise that is in force or being restored.
Held == inForce \/ \E v \in Workers: Faithful(v)

LEMMA FaithfulAlone ==
  ASSUME PlacesInv, NEW v \in Workers, Faithful(v), NEW w \in Workers, v # w
  PROVE  At(w, "idle")
<1>1. ~overlap /\ ~At(v, "idle")
  BY DEF Faithful, PlacesInv, PlaceInv
<1>2. (v = "main" /\ w = "listener") \/ (v = "listener" /\ w = "main")
  BY DEF Workers
<1>. QED BY <1>1, <1>2 DEF PlacesInv

LEMMA HeldBy ==
  ASSUME PlacesInv, NEW w \in Workers, Held, ~At(w, "idle")
  PROVE  inForce \/ Faithful(w)
BY FaithfulAlone DEF Held

\* The other worker stays as faithful as it was.
Undisturbed(w) ==
  \A v \in Workers \ {w}: /\ Faithful(v)' => Faithful(v)
                          /\ Writing(v) /\ inForce' => inForce
                          /\ Saving(v) /\ inForce => inForce'

\* When a worker moves, a promise asks something of that worker only.
LEMMA PromiseKept ==
  ASSUME ClockDividerTypeOK, NEW o \in Outputs, PromiseOf(o), promised'[o] = promised[o],
         NEW w \in Workers, Others(w),
         FileHolds(o)', ChipHolds(o)', WriteHolds(o, w)', SaveHolds(o, w)',
         Undisturbed(w),
         Held /\ Divider(o) = promised[o] => Divider(o)' = promised[o],
         Held /\ OnPdiv1(o) /\ chip["r02"] = High(promised[o]) => chip'["r02"] = High(promised[o])
  PROVE  PromiseOf(o)'
<1>1. ASSUME NEW v \in Workers, v # w PROVE WriteHolds(o, v)' /\ SaveHolds(o, v)'
  <2>1. job'[v] = job[v] /\ WriteHolds(o, v) /\ SaveHolds(o, v)
    BY <1>1 DEF PromiseOf, Others
  <2>2. /\ Faithful(v)' => Faithful(v) /\ Held
        /\ Writing(v) /\ inForce' => inForce /\ Held
        /\ Saving(v) /\ inForce => inForce'
    BY <1>1 DEF Held, Undisturbed
  <2>3. WriteHolds(o, v)'
    <3>1. Writing(v)' /\ (inForce' \/ Faithful(v)') =>
            \A m \in Mates({o}) \cap job'[v].left: job'[v].value[m] = promised'[o]
      BY <2>1, <2>2 DEF WriteHolds, Writing
    <3>2. Faithful(v)' => Divider(o)' = promised'[o]
                          \/ (Writing(v)' /\ Mates({o}) \cap job'[v].left # {})
      BY <2>1, <2>2 DEF WriteHolds, Writing
    <3>3. At(v, "writeLow")' /\ OnPdiv1(o) /\ Faithful(v)' => chip'["r02"] = High(promised'[o])
      BY <2>1, <2>2 DEF WriteHolds, At
    <3>. QED BY <3>1, <3>2, <3>3 DEF WriteHolds, Mates
  <2>4. SaveHolds(o, v)'
    BY <2>1, <2>2 DEF SaveHolds, Writing, Saving, At, GotIs
  <2>. QED BY <2>3, <2>4
<1>. QED BY <1>1 DEF PromiseOf

LEMMA OthersKeep ==
  ASSUME NEW w \in Workers, Others(w), UNCHANGED <<inForce, home, overlap>>
  PROVE  Undisturbed(w)
BY DEF Others, Faithful, Undisturbed

LEMMA SameFile ==
  ASSUME NEW o \in Outputs, FileHolds(o), promised'[o] = promised[o],
         UNCHANGED <<files, home, lost>>, inForce => inForce'
  PROVE  FileHolds(o)'
BY DEF FileHolds, Mates

LEMMA SameChip ==
  ASSUME chip' = chip, NEW o
  PROVE  Divider(o)' = Divider(o)
BY DEF Divider

LEMMA PromiseNat ==
  ASSUME ClockDividerTypeOK, NEW o \in Outputs
  PROVE  promised[o] \in Nat
BY DEF ClockDividerTypeOK, Dividers

\* Writing the first half of a promised divider does not change it.
LEMMA PromiseWriteHigh ==
  ASSUME ClockDividerTypeOK, ClockDividerTypeOK', PlacesInv, PlacesInv', PromiseInv,
         NEW w \in Workers, WriteHigh(w)
  PROVE  PromiseInv'
<1> SUFFICES ASSUME NEW o \in Outputs, promised'[o] # 0 PROVE PromiseOf(o)'
  BY DEF PromiseInv
<1> DEFINE c == Current(w)
<1>1. /\ job[w].at = "write" /\ c \in job[w].left /\ c \in Outputs /\ OnPdiv1(c)
      /\ job[w].value[c] \in Nat
      /\ chip' = [chip EXCEPT !["r02"] = High(job[w].value[c])]
      /\ job'[w].at = "writeLow" /\ job'[w].left = job[w].left /\ job'[w].op = job[w].op
      /\ job'[w].value = job[w].value /\ job'[w].got = job[w].got /\ job'[w].high = job[w].high
      /\ job'[w].misread = job[w].misread /\ Faithful(w)' = Faithful(w)
      /\ Others(w) /\ UNCHANGED <<files, home, lost, promised, inForce, overlap>>
  BY WroteHigh DEF Going, Moving, At, Settled, Steady, Faithful
<1> HIDE DEF c
<1>2. promised'[o] = promised[o] /\ promised[o] \in Nat /\ PromiseOf(o)
  BY <1>1, PromiseNat DEF PromiseInv
<1>3. FileHolds(o) /\ ChipHolds(o) /\ WriteHolds(o, w) /\ SaveHolds(o, w)
  BY <1>2 DEF PromiseOf
<1>4. OnPdiv1(o) => c \in Mates({o}) \cap job[w].left
  BY <1>1, MatesOf DEF OnPdiv1
<1>5. Held /\ OnPdiv1(o) => job[w].value[c] = promised[o]
  <2>1. Held => inForce \/ Faithful(w)
    BY <1>1, HeldBy DEF At
  <2>. QED BY <1>1, <1>3, <1>4, <2>1 DEF WriteHolds, Writing
<1>6. /\ chip'["r03"] = chip["r03"] /\ chip'["r26"] = chip["r26"] /\ chip'["r37"] = chip["r37"]
      /\ Held /\ OnPdiv1(o) => chip'["r02"] = High(promised[o])
  BY <1>1, <1>5 DEF ClockDividerTypeOK, Registers
<1>7. Held /\ Divider(o) = promised[o] => Divider(o)' = promised[o]
  <2>1. CASE OnPdiv1(o)
    <3>1. chip["r03"] < Radix /\ chip'["r03"] < Radix
      BY DEF PlacesInv
    <3>2. Divider(o) = promised[o] => chip["r02"] = High(promised[o])
      BY <1>2, <2>1, <3>1, DividerIs
    <3>. QED BY <1>6, <2>1, <3>2 DEF Divider, OnPdiv1
  <2>2. CASE ~OnPdiv1(o)
    BY <1>6, <2>2, PdivOf DEF Divider, OnPdiv1
  <2>. QED BY <2>1, <2>2
<1>8. FileHolds(o)'
  BY <1>1, <1>2, <1>3, SameFile
<1>9. ChipHolds(o)'
  BY <1>1, <1>2, <1>3, <1>7 DEF ChipHolds, Held
<1>10. WriteHolds(o, w)'
  <2>1. Faithful(w) => Held
    BY DEF Held
  <2>. QED BY <1>1, <1>2, <1>3, <1>6, <1>7, <2>1 DEF WriteHolds, Writing, At, Mates
<1>11. SaveHolds(o, w)'
  BY <1>1, <1>2, <1>3 DEF SaveHolds, Writing, Saving, At
<1>. QED BY <1>1, <1>2, <1>6, <1>7, <1>8, <1>9, <1>10, <1>11, OthersKeep, PromiseKept

\* Nor does writing the rest of it; if it had been lost, it is restored.
LEMMA PromiseWrite ==
  ASSUME ClockDividerTypeOK, ClockDividerTypeOK', PlacesInv, PlacesInv', PromiseInv,
         NEW w \in Workers, WriteLow(w) \/ WriteOne(w)
  PROVE  PromiseInv'
<1> SUFFICES ASSUME NEW o \in Outputs, promised'[o] # 0 PROVE PromiseOf(o)'
  BY DEF PromiseInv
<1> DEFINE c == Current(w)
<1>1. /\ Writing(w) /\ c \in job[w].left /\ c \in Outputs
      /\ OnPdiv1(c) <=> job[w].at = "writeLow"
      /\ job[w].value[c] \in Nat
      /\ OnPdiv1(c) => chip' = [chip EXCEPT !["r03"] = Low(job[w].value[c])]
      /\ ~OnPdiv1(c) => chip' = [chip EXCEPT ![RegisterOf(c)] = job[w].value[c]]
      /\ \/ job'[w].at = "read" /\ job'[w].left = Outputs /\ job[w].left = {c}
         \/ /\ job'[w].at = "write" /\ job'[w].left = job[w].left \ {c}
            /\ job[w].left # {c}
      /\ job'[w].op = job[w].op /\ job'[w].value = job[w].value
      /\ (job'[w].at = "read" => job'[w].misread = {}) /\ Faithful(w)' = Faithful(w)
      /\ Others(w) /\ UNCHANGED <<files, home, lost, promised, inForce, overlap>>
  BY Wrote DEF Going, Moving, At, Settled, Steady, Faithful
<1> HIDE DEF c
<1>2. promised'[o] = promised[o] /\ promised[o] \in Nat /\ PromiseOf(o)
  BY <1>1, PromiseNat DEF PromiseInv
<1>3. FileHolds(o) /\ ChipHolds(o) /\ WriteHolds(o, w) /\ SaveHolds(o, w)
  BY <1>2 DEF PromiseOf
<1>4. chip["r03"] < Radix /\ chip'["r03"] < Radix /\ chip \in [Registers -> Nat]
  BY DEF PlacesInv, ClockDividerTypeOK
<1>5. chip'["r02"] = chip["r02"]
  BY <1>1, <1>4, PdivOf DEF Registers
<1>6. ASSUME c \in Mates({o}), Held PROVE Divider(o)' = promised[o]
  <2>0. inForce \/ Faithful(w)
    BY <1>1, <1>6, HeldBy DEF Writing, At
  <2>1. Pdiv(c) = Pdiv(o) /\ job[w].value[c] = promised[o]
    BY <1>1, <1>3, <1>6, <2>0, MatesOf DEF WriteHolds
  <2>2. CASE OnPdiv1(o)
    <3>1. OnPdiv1(c)
      BY <2>1, <2>2 DEF OnPdiv1
    <3>2. chip'["r03"] = Low(promised[o])
      BY <1>1, <1>4, <2>1, <3>1 DEF Registers
    <3>3. CASE inForce
      <4>1. Divider(o) = promised[o]
        BY <1>3, <3>3 DEF ChipHolds
      <4>2. chip["r02"] = High(promised[o])
        BY <1>2, <1>4, <2>2, <4>1, DividerIs
      <4>. QED BY <1>2, <1>4, <1>5, <2>2, <3>2, <4>2, Split DEF Divider, OnPdiv1
    <3>4. CASE Faithful(w)
      <4>1. chip["r02"] = High(promised[o])
        BY <1>1, <1>3, <2>2, <3>1, <3>4 DEF WriteHolds, At
      <4>. QED BY <1>2, <1>4, <1>5, <2>2, <3>2, <4>1, Split DEF Divider, OnPdiv1
    <3>. QED BY <2>0, <3>3, <3>4
  <2>3. CASE ~OnPdiv1(o)
    <3>1. ~OnPdiv1(c) /\ RegisterOf(c) = RegisterOf(o) /\ RegisterOf(o) \in Registers
      BY <2>1, <2>3, PdivOf DEF OnPdiv1, Registers
    <3>2. chip'[RegisterOf(o)] = promised[o]
      BY <1>1, <1>4, <2>1, <3>1
    <3>. QED BY <2>3, <3>2 DEF Divider, OnPdiv1
  <2>. QED BY <2>2, <2>3
<1>7. ASSUME c \notin Mates({o}) PROVE Divider(o)' = Divider(o)
  <2>1. Pdiv(c) # Pdiv(o)
    BY <1>1, <1>7, MatesOf
  <2>2. CASE OnPdiv1(o)
    <3>1. ~OnPdiv1(c)
      BY <2>1, <2>2 DEF OnPdiv1
    <3>2. chip'["r03"] = chip["r03"]
      BY <1>1, <1>4, <3>1, PdivOf DEF Registers
    <3>. QED BY <1>5, <2>2, <3>2 DEF Divider, OnPdiv1
  <2>3. CASE ~OnPdiv1(o)
    <3>1. RegisterOf(o) \in {"r26", "r37"}
      BY PdivOf
    <3>2. ~OnPdiv1(c) => RegisterOf(c) # RegisterOf(o)
      BY <2>1, <2>3, PdivOf
    <3>3. chip'[RegisterOf(o)] = chip[RegisterOf(o)]
      BY <1>1, <1>4, <3>1, <3>2 DEF Registers
    <3>. QED BY <2>3, <3>3 DEF Divider, OnPdiv1
  <2>. QED BY <2>2, <2>3
<1>8. Held /\ Divider(o) = promised[o] => Divider(o)' = promised[o]
  BY <1>6, <1>7
<1>9. FileHolds(o)'
  BY <1>1, <1>2, <1>3, SameFile
<1>10. ChipHolds(o)'
  BY <1>1, <1>2, <1>3, <1>8 DEF ChipHolds, Held
<1>11. WriteHolds(o, w)'
  <2>1. Writing(w)' /\ (inForce' \/ Faithful(w)') =>
          \A m \in Mates({o}) \cap job'[w].left: job'[w].value[m] = promised'[o]
    BY <1>1, <1>2, <1>3 DEF WriteHolds, Writing
  <2>2. Faithful(w)' =>
          Divider(o)' = promised'[o] \/ (Writing(w)' /\ Mates({o}) \cap job'[w].left # {})
    <3>1. CASE c \in Mates({o})
      BY <1>1, <1>2, <1>6, <3>1 DEF Held
    <3>2. CASE c \notin Mates({o})
      BY <1>1, <1>2, <1>3, <1>7, <3>2 DEF WriteHolds, Writing
    <3>. QED BY <3>1, <3>2
  <2>. QED BY <1>1, <2>1, <2>2 DEF WriteHolds, At, Mates, Saving
<1>12. SaveHolds(o, w)'
  BY <1>1, <1>2, <1>3 DEF SaveHolds, Writing, Saving, At, GotIs, Mates
<1>. QED BY <1>1, <1>2, <1>5, <1>8, <1>9, <1>10, <1>11, <1>12, OthersKeep, PromiseKept

\* What is read of a promised divider is what was promised.
LEMMA PromiseReadHigh ==
  ASSUME ClockDividerTypeOK, ClockDividerTypeOK', PlacesInv, PlacesInv', PromiseInv,
         NEW w \in Workers, ReadHigh(w)
  PROVE  PromiseInv'
<1> SUFFICES ASSUME NEW o \in Outputs, promised'[o] # 0 PROVE PromiseOf(o)'
  BY DEF PromiseInv
<1>1. /\ job[w].at = "read" /\ job'[w].at = "readLow" /\ job'[w].left = job[w].left
      /\ job'[w].op = job[w].op /\ job'[w].got = job[w].got /\ job'[w].high = chip["r02"]
      /\ job'[w].misread = job[w].misread /\ Faithful(w)' = Faithful(w)
      /\ Others(w) /\ UNCHANGED <<chip, files, home, lost, promised, inForce, overlap>>
  BY HasReadHigh DEF Going, Moving, At, Settled, Steady, Faithful
<1>2. promised'[o] = promised[o] /\ promised[o] \in Nat /\ PromiseOf(o)
  BY <1>1, PromiseNat DEF PromiseInv
<1>3. FileHolds(o) /\ ChipHolds(o) /\ WriteHolds(o, w) /\ SaveHolds(o, w)
  BY <1>2 DEF PromiseOf
<1>4. Divider(o)' = Divider(o)
  BY <1>1, SameChip
<1>5. FileHolds(o)'
  BY <1>1, <1>2, <1>3, SameFile
<1>6. ChipHolds(o)'
  BY <1>1, <1>2, <1>3, <1>4 DEF ChipHolds
<1>7. WriteHolds(o, w)'
  BY <1>1, <1>2, <1>3, <1>4 DEF WriteHolds, Writing, At
<1>8. Saving(w) /\ OnPdiv1(o) => chip["r02"] = High(promised[o])
  <2>1. chip["r03"] < Radix
    BY DEF PlacesInv
  <2>2. Saving(w) => Divider(o) = promised[o]
    BY <1>3 DEF SaveHolds, ChipHolds
  <2>. QED BY <1>2, <2>1, <2>2, DividerIs
<1>9. SaveHolds(o, w)'
  BY <1>1, <1>2, <1>3, <1>8 DEF SaveHolds, Writing, Saving, At, GotIs
<1>. QED BY <1>1, <1>2, <1>4, <1>5, <1>6, <1>7, <1>9, OthersKeep, PromiseKept

LEMMA PromiseRead ==
  ASSUME ClockDividerTypeOK, ClockDividerTypeOK', PlacesInv, PlacesInv', PromiseInv,
         NEW w \in Workers, ReadLow(w) \/ ReadOne(w) \/ Misread(w)
  PROVE  PromiseInv'
<1> SUFFICES ASSUME NEW o \in Outputs, promised'[o] # 0 PROVE PromiseOf(o)'
  BY DEF PromiseInv
<1> DEFINE c == Current(w)
<1>1. PICK d \in Nat, at \in {"done", "read"}, misread \in SUBSET Outputs:
        /\ at = "done" <=> job[w].left = {c}
        /\ Going(w, at, job[w].left \ {c}, job[w].high, [job[w].got EXCEPT ![c] = d], misread)
        /\ \/ /\ misread = job[w].misread
              /\ OnPdiv1(c) => At(w, "readLow") /\ d = job[w].high * Radix + chip["r03"]
              /\ ~OnPdiv1(c) => d = chip[RegisterOf(c)]
           \/ d = 0 /\ misread = job[w].misread \cup {c}
  BY GotOne
<1>2. /\ Reading(w) /\ c \in job[w].left /\ c \in Outputs
      /\ UNCHANGED <<chip, files, home, lost, promised, inForce, overlap>>
  BY GotOne DEF Settled, Steady
<1> HIDE DEF c
<1>3. /\ job'[w].at = at /\ job'[w].left = job[w].left \ {c} /\ job'[w].op = job[w].op
      /\ job'[w].value = job[w].value /\ job'[w].misread = misread
      /\ job'[w].got = [job[w].got EXCEPT ![c] = d] /\ Others(w)
      /\ Faithful(w)' = Faithful(w)
  BY <1>1, <1>2 DEF Going, Moving, Faithful
<1>4. promised'[o] = promised[o] /\ promised[o] \in Nat /\ PromiseOf(o)
  BY <1>2, PromiseNat DEF PromiseInv
<1>5. FileHolds(o) /\ ChipHolds(o) /\ WriteHolds(o, w) /\ SaveHolds(o, w)
  BY <1>4 DEF PromiseOf
<1>6. Divider(o)' = Divider(o)
  BY <1>2, SameChip
<1>7. FileHolds(o)'
  BY <1>2, <1>4, <1>5, SameFile
<1>8. ChipHolds(o)'
  BY <1>2, <1>4, <1>5, <1>6 DEF ChipHolds
<1>9. WriteHolds(o, w)'
  BY <1>2, <1>3, <1>4, <1>5, <1>6 DEF WriteHolds, Writing, Reading, At
<1>10. ASSUME Saving(w), c \in Mates({o})
       PROVE  \/ misread = job[w].misread /\ d = promised[o]
              \/ misread = job[w].misread \cup {c} /\ d = 0
  <2>1. Pdiv(c) = Pdiv(o) /\ Divider(o) = promised[o] /\ chip["r03"] < Radix
    BY <1>5, <1>10, MatesOf DEF SaveHolds, ChipHolds, PlacesInv
  <2>2. ASSUME /\ OnPdiv1(c) => At(w, "readLow") /\ d = job[w].high * Radix + chip["r03"]
               /\ ~OnPdiv1(c) => d = chip[RegisterOf(c)]
        PROVE  d = promised[o]
    <3>1. CASE OnPdiv1(c)
      <4>1. OnPdiv1(o) /\ At(w, "readLow") /\ ~Writing(w)
        BY <2>1, <2>2, <3>1 DEF OnPdiv1, At, Writing
      <4>2. job[w].high = High(promised[o])
        BY <1>5, <1>10, <4>1 DEF SaveHolds
      <4>3. chip["r02"] = High(promised[o]) /\ Divider(o) = chip["r02"] * Radix + chip["r03"]
        BY <1>4, <2>1, <4>1, DividerIs
      <4>. QED BY <2>1, <2>2, <3>1, <4>2, <4>3
    <3>2. CASE ~OnPdiv1(c)
      <4>1. ~OnPdiv1(o) /\ RegisterOf(c) = RegisterOf(o)
        BY <2>1, <3>2, PdivOf DEF OnPdiv1
      <4>2. Divider(o) = chip[RegisterOf(o)]
        BY <2>1, <4>1, DividerIs
      <4>. QED BY <2>1, <2>2, <3>2, <4>1, <4>2
    <3>. QED BY <3>1, <3>2
  <2>. QED BY <1>1, <2>2
<1>11. SaveHolds(o, w)'
  <2> SUFFICES ASSUME Saving(w) PROVE SaveHolds(o, w)'
    BY <1>3 DEF SaveHolds, Saving
  <2>1. (\A m \in Mates({o}): GotIs(w, m, promised[o])) /\ inForce'
    BY <1>2, <1>5 DEF SaveHolds, Reading, Writing
  <2>2. job[w].got \in [Outputs -> Nat] /\ Mates({o}) \subseteq Outputs
    BY DEF ClockDividerTypeOK, Jobs, Dividers, Mates
  <2>3. ASSUME NEW m \in Mates({o}) PROVE GotIs(w, m, promised[o])'
    <3>1. CASE m = c
      <4>1. m \notin misread => d = promised[o]
        BY <1>10, <3>1
      <4>2. m \in misread => d = 0
        BY <1>2, <1>10, <3>1 DEF PlacesInv, PlaceInv
      <4>. QED BY <1>3, <1>4, <2>2, <3>1, <4>1, <4>2 DEF GotIs
    <3>2. CASE m # c
      <4>1. m \in misread <=> m \in job[w].misread
        BY <1>1, <3>2
      <4>. QED BY <1>2, <1>3, <1>4, <2>1, <2>2, <3>2, <4>1 DEF GotIs
    <3>. QED BY <3>1, <3>2
  <2>4. ~At(w, "readLow")'
    BY <1>3 DEF At
  <2>. QED BY <2>1, <2>3, <2>4 DEF SaveHolds, Mates
<1>. QED BY <1>2, <1>3, <1>4, <1>6, <1>7, <1>8, <1>9, <1>11, OthersKeep, PromiseKept

LEMMA Nothing ==
  ASSUME NEW o \in Outputs, NEW w \in Workers, job'[w].at \in {"idle", "read"},
         job'[w].op \in {"none", "start", "status"}
  PROVE  WriteHolds(o, w)' /\ SaveHolds(o, w)'
BY DEF WriteHolds, SaveHolds, Faithful, Writing, Saving, At

\* A promise stands when a job ends, or is followed by a start.
LEMMA PromiseAfter ==
  ASSUME ClockDividerTypeOK, NEW o \in Outputs, PromiseOf(o), promised'[o] = promised[o],
         NEW w \in Workers, Others(w), job'[w].at \in {"idle", "read"},
         job'[w].op \in {"none", "start", "status"}, Undisturbed(w),
         FileHolds(o)', chip' = chip, inForce' => inForce \/ Divider(o) = promised[o]
  PROVE  PromiseOf(o)'
<1>1. Divider(o)' = Divider(o)
  BY SameChip
<1>2. ChipHolds(o)'
  BY <1>1 DEF PromiseOf, ChipHolds
<1>. QED BY <1>1, <1>2, Nothing, PromiseKept

\* A restore that nobody interfered with is over.
LEMMA PromiseBack ==
  ASSUME ClockDividerTypeOK, PlacesInv, NEW o \in Outputs, PromiseOf(o),
         NEW w \in Workers, Others(w), job'[w].at \in {"idle", "read"},
         job'[w].op \in {"none", "start", "status"},
         UNCHANGED <<chip, files, home, lost, overlap>>, promised'[o] = promised[o],
         inForce => inForce', inForce' => inForce \/ (At(w, "done") /\ Faithful(w))
  PROVE  PromiseOf(o)'
<1>1. FileHolds(o)'
  BY SameFile DEF PromiseOf
<1>2. inForce' => inForce \/ Divider(o) = promised[o]
  BY DEF PromiseOf, WriteHolds, Writing, At
<1>3. ASSUME NEW v \in Workers, v # w, Writing(v), inForce' PROVE inForce
  BY <1>3, FaithfulAlone DEF Writing, At
<1>4. Undisturbed(w)
  BY <1>3 DEF Undisturbed, Others, Faithful
<1>. QED BY <1>1, <1>2, <1>4, PromiseAfter

LEMMA PromiseEnded ==
  ASSUME ClockDividerTypeOK, PlacesInv, PromiseInv, NEW w \in Workers,
         Fails(w) \/ EndStatus(w) \/ EndStart(w)
  PROVE  PromiseInv'
<1> SUFFICES ASSUME NEW o \in Outputs, promised'[o] # 0 PROVE PromiseOf(o)'
  BY DEF PromiseInv
<1>1. /\ Ends(w) /\ UNCHANGED <<chip, files, promised, home, lost, overlap>>
      /\ inForce => inForce'
      /\ inForce' => inForce \/ (At(w, "done") /\ Faithful(w))
  BY HasEnded
<1>2. promised'[o] = promised[o] /\ PromiseOf(o)
  BY <1>1 DEF PromiseInv
<1>. QED BY <1>1, <1>2, PromiseBack DEF Ends

LEMMA PromiseRestored ==
  ASSUME ClockDividerTypeOK, PlacesInv, PromiseInv, EndRestore
  PROVE  PromiseInv'
<1> SUFFICES ASSUME NEW o \in Outputs, promised'[o] # 0 PROVE PromiseOf(o)'
  BY DEF PromiseInv
<1>1. /\ "main" \in Workers /\ Others("main") /\ job'["main"].at \in {"idle", "read"}
      /\ job'["main"].op \in {"none", "start"}
  BY HasRestored DEF StartsOn, Ends, BeginsReading, Fresh, Workers
<1>2. /\ UNCHANGED <<chip, files, promised, home, lost, overlap>> /\ (inForce => inForce')
      /\ inForce' => inForce \/ (At("main", "done") /\ Faithful("main"))
  BY HasRestored DEF Steady
<1>3. promised'[o] = promised[o] /\ PromiseOf(o)
  BY <1>2 DEF PromiseInv
<1>. QED BY <1>1, <1>2, <1>3, PromiseBack

\* Cut off, the file holds none of the promises; the chip does.
LEMMA PromiseCutOff ==
  ASSUME ClockDividerTypeOK, PlacesInv, PromiseInv, NEW w \in Workers, Truncate(w)
  PROVE  PromiseInv'
<1> SUFFICES ASSUME NEW o \in Outputs, promised'[o] # 0 PROVE PromiseOf(o)'
  BY DEF PromiseInv
<1>1. /\ w = "listener" /\ job[w].at = "done" /\ job'[w].at = "flush"
      /\ job'[w].left = job[w].left /\ job'[w].op = job[w].op /\ Others(w) /\ Saving(w)
      /\ job'[w].value = job[w].value /\ job'[w].got = job[w].got
      /\ job'[w].misread = job[w].misread
      /\ files' = [files EXCEPT ![mounted] = EmptyFile]
      /\ lost' = IF mounted = home THEN Outputs ELSE lost
      /\ UNCHANGED <<chip, promised, home, inForce, overlap>>
  BY HasCutOff DEF Moving, At, Steady
<1>2. promised'[o] = promised[o] /\ PromiseOf(o)
  BY <1>1 DEF PromiseInv
<1>3. Divider(o)' = Divider(o)
  BY <1>1, SameChip
<1>4. FileHolds(o)'
  <2>1. inForce' /\ FileHolds(o)
    BY <1>1, <1>2 DEF PromiseOf, SaveHolds
  <2>2. CASE mounted = home
    <3>1. files'[home] = EmptyFile /\ \A m \in Outputs: EmptyFile.y[m] = 0
      BY <1>1, <2>2 DEF EmptyFile, Zero, ClockDividerTypeOK
    <3>. QED BY <1>1, <2>1, <2>2, <3>1 DEF FileHolds, Mates
  <2>3. CASE mounted # home
    <3>1. files'[home] = files[home]
      BY <1>1, <2>3 DEF ClockDividerTypeOK
    <3>. QED BY <1>1, <1>2, <2>1, <2>3, <3>1 DEF FileHolds, Mates
  <2>. QED BY <2>2, <2>3
<1>5. ChipHolds(o)'
  BY <1>1, <1>2, <1>3 DEF PromiseOf, ChipHolds
<1>6. ~Faithful(w)' /\ ~Writing(w)' /\ ~At(w, "writeLow")'
  BY <1>1 DEF Faithful, Saving, Writing, At
<1>7. WriteHolds(o, w)'
  BY <1>6 DEF WriteHolds
<1>8. SaveHolds(o, w)'
  BY <1>1, <1>2 DEF PromiseOf, SaveHolds, Writing, Saving, At, GotIs, Mates
<1>9. Undisturbed(w)
  BY <1>1, OthersKeep
<1>. QED BY <1>1, <1>2, <1>3, <1>4, <1>5, <1>7, <1>8, <1>9, PromiseKept

\* What is saved is what was promised before, or is promised with it.
LEMMA PromiseSaved ==
  ASSUME ClockDividerTypeOK, PlacesInv, PromiseInv, ApplyInv, NEW w \in Workers,
         Flush(w) \/ DiskFull(w)
  PROVE  PromiseInv'
<1> SUFFICES ASSUME NEW o \in Outputs, promised'[o] # 0 PROVE PromiseOf(o)'
  BY DEF PromiseInv
<1>1. /\ w = "listener" /\ job[w].at = "flush" /\ Saving(w)
      /\ Ends(w) \/ StartsOn(w, files')
      /\ UNCHANGED <<chip, inForce, overlap>> /\ Promises(w) /\ home' = job[w].store
      /\ \/ files' = [files EXCEPT ![job[w].store] = Save(w)] /\ lost' = job[w].misread
         \/ files' = files /\ lost' = Outputs
  BY HasSaved DEF At, Steady
<1>2. /\ job[w].left = {} /\ "main" \in Workers /\ "listener" \in Workers
      /\ job[w].got \in [Outputs -> Nat] /\ job[w].store \in Stores
      /\ files[job[w].store] = EmptyFile
  BY <1>1 DEF PlacesInv, PlaceInv, At, Workers, ClockDividerTypeOK, Jobs, Dividers
<1>3. /\ job'[w].at \in {"idle", "read"} /\ job'[w].op \in {"none", "start"} /\ Others(w)
  BY <1>1 DEF StartsOn, Ends, BeginsReading, Fresh
<1>4. Divider(o)' = Divider(o)
  BY <1>1, SameChip
<1>5. ASSUME inForce, \A m \in Mates({o}): GotIs(w, m, promised'[o])
      PROVE  FileHolds(o)'
  <2>1. o \in Mates({o}) /\ Mates({o}) \subseteq Outputs
    BY MatesOf
  <2>2. CASE files' = [files EXCEPT ![job[w].store] = Save(w)] /\ lost' = job[w].misread
    <3>1. files'[home'].y = job[w].got
      BY <1>1, <1>2, <2>2 DEF Save, ClockDividerTypeOK
    <3>2. \A m \in Mates({o}): job[w].got[m] = IF m \in lost' THEN 0 ELSE promised'[o]
      BY <1>2, <1>5, <2>2 DEF GotIs
    <3>. QED BY <1>1, <1>5, <2>1, <3>1, <3>2 DEF FileHolds, Mates
  <2>3. CASE files' = files /\ lost' = Outputs
    <3>1. \A m \in Outputs: files'[home'].y[m] = 0
      BY <1>1, <1>2, <2>3 DEF EmptyFile, Zero
    <3>. QED BY <1>1, <1>5, <2>3, <3>1 DEF FileHolds, Mates
  <2>. QED BY <1>1, <2>2, <2>3
<1>6. CASE o \in Mates(Gets(w))
  <2>1. PICK P \in Gets(w): Pdiv(P) = Pdiv(o) /\ promised'[o] = job[w].value[P]
    BY <1>1, <1>6, PromisesOne
  <2>2. /\ P \in Outputs /\ P \in Applied /\ job[w].op = "apply" /\ At("main", "idle")
        /\ inForce
    BY <1>1, <2>1 DEF Gets, Applied, ApplyInv
  <2>3. ApplyHolds(P) /\ Mates({P}) = Mates({o})
    BY <1>1, <2>1, <2>2, MatesOf DEF ApplyInv
  <2>4. /\ Divider(P) = job[w].value[P]
        /\ \A m \in Mates({o}): GotIs(w, m, job[w].value[P])
    BY <1>1, <2>3 DEF ApplyHolds, Writing
  <2>5. Divider(o) = Divider(P)
    BY <2>1 DEF Divider, RegisterOf
  <2>6. FileHolds(o)'
    BY <1>5, <2>1, <2>2, <2>4
  <2>7. ChipHolds(o)'
    BY <1>4, <2>1, <2>4, <2>5 DEF ChipHolds
  <2>8. ASSUME NEW v \in Workers PROVE WriteHolds(o, v)' /\ SaveHolds(o, v)'
    <3>1. CASE v = w
      BY <1>3, <3>1, Nothing
    <3>2. CASE v # w
      <4>1. v = "main" /\ job'[v] = job[v] /\ job[v].at = "idle"
        BY <1>1, <1>3, <2>2, <3>2 DEF Others, Workers, At
      <4>2. job[v].op = "none"
        BY <4>1 DEF PlacesInv, PlaceInv, At
      <4>. QED BY <4>1, <4>2, Nothing
    <3>. QED BY <3>1, <3>2
  <2>. QED BY <2>6, <2>7, <2>8 DEF PromiseOf
<1>7. CASE o \notin Mates(Gets(w))
  <2>1. promised'[o] = promised[o]
    BY <1>1, <1>7 DEF Promises
  <2>2. PromiseOf(o)
    BY <2>1 DEF PromiseInv
  <2>3. inForce /\ \A m \in Mates({o}): GotIs(w, m, promised[o])
    BY <1>1, <2>2 DEF PromiseOf, SaveHolds, Writing
  <2>4. FileHolds(o)'
    BY <1>5, <2>1, <2>3
  <2>5. ~Faithful("main")'
    <3>1. ASSUME Faithful("main")' PROVE FALSE
      <4>1. job["main"].op \in {"restore", "init"} /\ ~overlap
        BY <1>1, <1>2, <1>3, <3>1 DEF Faithful, Others, Workers
      <4>. QED BY <1>1, <1>2, <4>1 DEF PlacesInv, PlaceInv, At
    <3>. QED BY <3>1
  <2>6. Undisturbed(w)
    BY <1>1, <2>5 DEF Undisturbed, Workers
  <2>. QED BY <1>1, <1>3, <2>1, <2>2, <2>4, <2>6, PromiseAfter
<1>. QED BY <1>6, <1>7

\* What is written from the file of home is what was promised.
LEMMA PromiseWritten ==
  ASSUME ClockDividerTypeOK, PlacesInv, NEW o \in Outputs, promised[o] # 0, PromiseOf(o),
         promised'[o] = promised[o], UNCHANGED <<chip, home>>,
         inForce' => inForce /\ mounted = home, mounted = home => inForce' = inForce,
         NEW w \in Workers, NEW op \in {"restore", "init"},
         Fresh(w, "write", op, file.y, SavedOutputs, file.reference), job'[w].store = mounted
  PROVE  WriteHolds(o, w)' /\ SaveHolds(o, w)'
<1>1. /\ job'[w].at = "write" /\ job'[w].op = op /\ job'[w].value = file.y
      /\ job'[w].left = SavedOutputs
  BY DEF Fresh
<1>2. FileHolds(o) /\ ChipHolds(o) /\ o \in Mates({o})
  BY MatesOf DEF PromiseOf
<1>3. mounted = home => \A m \in Mates({o}) \cap SavedOutputs: file.y[m] = promised[o]
  BY <1>2 DEF FileHolds, SavedOutputs, file
<1>4. mounted = home => o \in SavedOutputs \/ Divider(o) = promised[o]
  BY <1>2 DEF FileHolds, ChipHolds, SavedOutputs, file
<1>5. Faithful(w)' => mounted = home
  BY DEF Faithful
<1>6. Divider(o)' = Divider(o)
  BY SameChip
<1>7. WriteHolds(o, w)'
  <2>1. Writing(w)' /\ (inForce' \/ Faithful(w)') =>
          \A m \in Mates({o}) \cap job'[w].left: job'[w].value[m] = promised'[o]
    BY <1>1, <1>3, <1>5
  <2>2. Faithful(w)' => Divider(o)' = promised'[o]
                        \/ (Writing(w)' /\ Mates({o}) \cap job'[w].left # {})
    BY <1>1, <1>2, <1>4, <1>5, <1>6 DEF Writing
  <2>3. ~At(w, "writeLow")'
    BY <1>1 DEF At
  <2>. QED BY <2>1, <2>2, <2>3 DEF WriteHolds, Mates
<1>8. SaveHolds(o, w)'
  BY <1>1 DEF SaveHolds, Saving
<1>. QED BY <1>7, <1>8

\* Before something is saved, what does not agree with it is forgotten.
LEMMA ForgottenIs ==
  ASSUME NEW outputs, Forgets(outputs), NEW o \in Outputs, promised'[o] # 0
  PROVE  /\ promised'[o] = promised[o] /\ inForce /\ inForce' = TRUE /\ o \notin outputs
         /\ UNCHANGED <<home, lost>>
BY DEF Forgets

\* A command that begins, begins alone, or the restore it meets is given up.
LEMMA CommandAlone ==
  ASSUME PlacesInv, Command, Others("listener"), inForce' => inForce
  PROVE  Undisturbed("listener")
<1>1. Workers \ {"listener"} = {"main"} /\ job'["main"] = job["main"]
  BY DEF Others, Workers
<1>2. ~Saving("main")
  BY DEF PlacesInv, Saving
<1>3. ASSUME Faithful("main")' PROVE FALSE
  <2>1. job["main"].op \in {"restore", "init"} /\ ~overlap'
    BY <1>1, <1>3 DEF Faithful
  <2>2. At("main", "idle")
    BY <2>1, Zenon DEF Command
  <2>. QED BY <2>1, <2>2 DEF PlacesInv, PlaceInv, Workers
<1>. QED BY <1>1, <1>2, <1>3 DEF Undisturbed

LEMMA PromiseBegin ==
  ASSUME ClockDividerTypeOK, PlacesInv, PromiseInv, Begin
  PROVE  PromiseInv'
<1> SUFFICES ASSUME NEW o \in Outputs, promised'[o] # 0 PROVE PromiseOf(o)'
  BY DEF PromiseInv
<1> USE DEF Files
<1>0. "main" \in Workers /\ "listener" \in Workers
  BY DEF Workers
<1>1. ASSUME UNCHANGED <<chip, files, home, lost>>, promised'[o] = promised[o],
             NEW w \in Workers, Others(w), WriteHolds(o, w)', SaveHolds(o, w)',
             Undisturbed(w), inForce' => inForce, inForce => inForce' \/ o \notin lost
      PROVE  PromiseOf(o)'
  <2>1. PromiseOf(o) /\ Divider(o)' = Divider(o)
    BY <1>1, SameChip DEF PromiseInv
  <2>2. FileHolds(o)'
    BY <1>1, <2>1 DEF PromiseOf, FileHolds, Mates
  <2>3. ChipHolds(o)'
    BY <1>1, <2>1 DEF PromiseOf, ChipHolds
  <2>. QED BY <1>1, <2>1, <2>2, <2>3, PromiseKept
<1>2. ASSUME Restores
      PROVE  /\ promised'[o] = promised[o] /\ UNCHANGED <<home, lost>> /\ PromiseOf(o)
             /\ inForce' => inForce /\ mounted = home
             /\ mounted = home => inForce' = inForce
             /\ inForce => inForce' \/ o \notin lost
             /\ job["listener"].op = "update" => inForce' = inForce
  BY <1>2, HasRestores DEF PromiseInv
<1>3. CASE BeginRestore
  <2>1. UNCHANGED <<chip, files>> /\ booting /\ At("main", "idle") /\ ~overlap /\ Unlocked
    BY <1>3 DEF BeginRestore, PlacesInv
  <2>2. CASE SavedOutputs = {}
    <3>1. UNCHANGED <<job, promised, inForce, home, lost>> /\ ~overlap'
      BY <1>3, <2>2 DEF BeginRestore, promises
    <3>2. job'["main"].at = "idle" /\ job'["main"].op = "none"
      BY <2>1, <3>1 DEF PlacesInv, PlaceInv, At, Workers
    <3>3. Others("main") /\ WriteHolds(o, "main")' /\ SaveHolds(o, "main")'
      BY <1>0, <3>1, <3>2, Nothing DEF Others
    <3>4. Undisturbed("main")
      BY <2>1, <3>1 DEF Undisturbed, Faithful
    <3>. QED BY <1>0, <1>1, <2>1, <3>1, <3>3, <3>4
  <2>3. CASE SavedOutputs # {}
    <3>1. /\ Fresh("main", "write", "restore", file.y, SavedOutputs, file.reference)
          /\ job'["main"].store = mounted /\ Restores
      BY <1>0, <1>3, <2>3, SetsWrites DEF BeginRestore
    <3>2. WriteHolds(o, "main")' /\ SaveHolds(o, "main")'
      BY <1>0, <1>2, <2>1, <3>1, PromiseWritten
    <3>3. job["listener"].op # "apply" /\ job'["listener"] = job["listener"]
      BY <1>0, <2>1, <3>1 DEF Unlocked, Locked, Fresh, Others
    <3>4. overlap' = ~At("listener", "idle")
      BY <1>3, <2>3, Zenon DEF BeginRestore
    <3>5. Saving("listener") /\ inForce => inForce'
      BY <1>2, <3>1, <3>3 DEF Saving
    <3>6. ~Faithful("listener")'
      <4>1. ASSUME Faithful("listener")' PROVE FALSE
        <5>1. job["listener"].op \in {"restore", "init"} /\ ~overlap'
          BY <3>3, <4>1 DEF Faithful
        <5>2. At("listener", "idle")
          BY <3>4, <5>1, Zenon
        <5>. QED BY <1>0, <5>1, <5>2 DEF PlacesInv, PlaceInv
      <4>. QED BY <4>1
    <3>7. Undisturbed("main")
      BY <1>2, <3>1, <3>5, <3>6 DEF Undisturbed, Workers
    <3>. QED BY <1>0, <1>1, <1>2, <2>1, <3>1, <3>2, <3>7 DEF Fresh
  <2>. QED BY <2>2, <2>3
<1>4. ASSUME Command PROVE UNCHANGED <<chip, files>>
  BY <1>4 DEF Command
<1>5. CASE BeginInit
  <2>1. Command /\ Restores
    BY <1>5 DEF BeginInit
  <2>2. /\ Fresh("listener", "write", "init", file.y, SavedOutputs, file.reference)
        /\ job'["listener"].store = mounted
    BY <1>0, <1>5, SetsWrites DEF BeginInit
  <2>3. WriteHolds(o, "listener")' /\ SaveHolds(o, "listener")'
    BY <1>0, <1>2, <1>4, <2>1, <2>2, PromiseWritten
  <2>4. Others("listener") /\ Undisturbed("listener")
    BY <1>2, <2>1, <2>2, CommandAlone DEF Fresh
  <2>. QED BY <1>0, <1>1, <1>2, <1>4, <2>1, <2>3, <2>4
<1>6. ASSUME Command, UNCHANGED promises, Others("listener"),
             job'["listener"].at \in {"idle", "read"},
             job'["listener"].op \in {"none", "start", "status"}
      PROVE  PromiseOf(o)'
  <2>1. WriteHolds(o, "listener")' /\ SaveHolds(o, "listener")'
    BY <1>0, <1>6, Nothing
  <2>2. UNCHANGED <<promised, home, lost, inForce>>
    BY <1>6 DEF promises
  <2>3. Undisturbed("listener")
    BY <1>6, <2>2, CommandAlone
  <2>. QED BY <1>0, <1>1, <1>4, <1>6, <2>1, <2>2, <2>3
<1>7. CASE BeginStart
  <2>1. Command /\ UNCHANGED promises
    BY <1>7 DEF BeginStart
  <2>. QED BY <1>6, <1>7, <2>1, BeganStart DEF StartsOn, BeginsReading, Fresh
<1>8. CASE StopAcquiring
  <2>1. Command /\ UNCHANGED job /\ UNCHANGED promises /\ At("listener", "idle")
    BY <1>8 DEF StopAcquiring, Command
  <2>2. job'["listener"].at = "idle" /\ job'["listener"].op = "none" /\ Others("listener")
    BY <1>0, <2>1 DEF Others, PlacesInv, PlaceInv, At
  <2>. QED BY <1>6, <2>1, <2>2
<1>9. ASSUME NEW op \in {"status", "update"}, NEW r \in References \cup {0}, BeginStatus(op, r)
      PROVE  PromiseOf(o)'
  <2>1. Command /\ BeginsReading("listener", op, ReferenceOf(r))
    BY <1>9, BeganStatus DEF BeginStatus
  <2>2. /\ job'["listener"].at = "read" /\ job'["listener"].op = op
        /\ job'["listener"].left = Outputs /\ Others("listener")
    BY <2>1 DEF BeginsReading, Fresh
  <2>3. CASE op = "status"
    <3>1. UNCHANGED promises
      BY <1>9, <2>3 DEF BeginStatus
    <3>. QED BY <1>6, <2>1, <2>2, <2>3, <3>1
  <2>4. CASE op = "update"
    <3>1. Forgets({})
      BY <1>9, <2>4 DEF BeginStatus
    <3>2. promised'[o] = promised[o] /\ inForce /\ inForce' = TRUE /\ UNCHANGED <<home, lost>>
      BY <3>1, ForgottenIs
    <3>3. WriteHolds(o, "listener")'
      BY <2>2, <2>4 DEF WriteHolds, Faithful, Writing, At
    <3>4. SaveHolds(o, "listener")'
      BY <2>2, <2>4, <3>2 DEF SaveHolds, Writing, GotIs, At, Mates
    <3>5. Undisturbed("listener")
      BY <2>1, <2>2, <3>2, CommandAlone
    <3>. QED BY <1>0, <1>1, <1>4, <2>1, <2>2, <3>2, <3>3, <3>4, <3>5
  <2>. QED BY <2>3, <2>4
<1>10. ASSUME NEW a \in ApplyRequests, BeginApply(a)
       PROVE  PromiseOf(o)'
  <2>1. Command /\ Forgets(Mates(a.outputs))
    BY <1>10 DEF BeginApply
  <2>2. /\ job'["listener"].at = "write" /\ job'["listener"].op = "apply"
        /\ job'["listener"].left = a.outputs /\ Others("listener")
    BY <1>10, BeganApply DEF Fresh
  <2>3. /\ promised'[o] = promised[o] /\ inForce /\ inForce' = TRUE
        /\ o \notin Mates(a.outputs) /\ UNCHANGED <<home, lost>>
    BY <2>1, ForgottenIs
  <2>4. Mates({o}) \cap a.outputs = {}
    BY <2>3 DEF Mates
  <2>5. WriteHolds(o, "listener")'
    BY <2>2, <2>4 DEF WriteHolds, Faithful, Writing, At, Mates
  <2>6. SaveHolds(o, "listener")'
    BY <2>2, <2>3 DEF SaveHolds, Writing
  <2>7. Undisturbed("listener")
    BY <2>1, <2>2, <2>3, CommandAlone
  <2>. QED BY <1>0, <1>1, <1>4, <2>1, <2>2, <2>3, <2>5, <2>6, <2>7
<1>. QED BY <1>3, <1>5, <1>7, <1>8, <1>9, <1>10 DEF Begin

\* A promise that outlives the power is one whose file had been written back.
LEMMA PromiseRestart ==
  ASSUME ClockDividerTypeOK, PromiseInv, NEW powerLoss \in BOOLEAN, Restart(powerLoss)
  PROVE  PromiseInv'
<1> SUFFICES ASSUME NEW o \in Outputs, promised'[o] # 0 PROVE PromiseOf(o)'
  BY DEF PromiseInv
<1>1. \A w \in Workers: WriteHolds(o, w)' /\ SaveHolds(o, w)'
  BY AllIdle, Nothing
<1>2. CASE powerLoss
  <2>1. PowerLoss
    BY <1>2 DEF Restart
  <2>2. /\ promised'[o] = promised[o] /\ remains[home] = {files[home]} /\ o \notin lost
        /\ UNCHANGED <<home, lost>> /\ inForce' = FALSE /\ home \in Stores
    BY <2>1 DEF PowerLoss, ClockDividerTypeOK
  <2>3. files'[home] \in remains[home]
    BY <2>1, <2>2 DEF PowerLoss
  <2>4. files'[home] = files[home] /\ PromiseOf(o)
    BY <2>2, <2>3 DEF PromiseInv
  <2>5. FileHolds(o)'
    BY <2>2, <2>4 DEF PromiseOf, FileHolds, Mates
  <2>. QED BY <1>1, <2>2, <2>5 DEF PromiseOf, ChipHolds
<1>3. CASE ~powerLoss
  <2>1. UNCHANGED <<chip, files, promised, home, lost, inForce>>
    BY <1>3 DEF Restart, Files, promises
  <2>2. PromiseOf(o) /\ Divider(o)' = Divider(o)
    BY <2>1, SameChip DEF PromiseInv
  <2>3. FileHolds(o)' /\ ChipHolds(o)'
    BY <2>1, <2>2, SameFile DEF PromiseOf, ChipHolds
  <2>. QED BY <1>1, <2>3 DEF PromiseOf
<1>. QED BY <1>2, <1>3

LEMMA PromiseAround ==
  ASSUME PromiseInv, UNCHANGED <<chip, files, job, overlap>>,
         UNCHANGED <<promised, home, lost, inForce>>
  PROVE  PromiseInv'
<1> SUFFICES ASSUME NEW o \in Outputs, promised'[o] # 0 PROVE PromiseOf(o)'
  BY DEF PromiseInv
<1>1. PromiseOf(o) /\ Divider(o)' = Divider(o) /\ promised'[o] = promised[o]
  BY SameChip DEF PromiseInv
<1>2. FileHolds(o)' /\ ChipHolds(o)'
  BY <1>1, SameFile DEF PromiseOf, ChipHolds
<1>3. ASSUME NEW w \in Workers PROVE WriteHolds(o, w)' /\ SaveHolds(o, w)'
  BY <1>1 DEF PromiseOf, WriteHolds, SaveHolds, Faithful, Writing, Saving, At, GotIs, Mates
<1>. QED BY <1>2, <1>3 DEF PromiseOf

-----------------------------------------------------------------------------
\* What divider-apply is about to promise.

LEMMA ApplyOver ==
  ASSUME job'["listener"].op # "apply"
  PROVE  ApplyInv'
BY DEF ApplyInv

\* Nobody else does anything while it is carried out.
LEMMA ApplyAlone ==
  ASSUME ClockDividerTypeOK, PlacesInv, ApplyInv, NEW w \in Workers,
         w = "main" => job[w].at # "idle", Others(w), job'["listener"].op = "apply",
         w = "listener" => job'[w].op = job[w].op
  PROVE  /\ w = "listener" /\ job["listener"].op = "apply" /\ At("main", "idle")
         /\ At("main", "idle")'
<1>1. w = "listener" \/ w = "main"
  BY DEF Workers
<1>2. w = "listener"
  <2>1. CASE w = "main"
    <3>1. job'["listener"] = job["listener"]
      BY <2>1 DEF Others, Workers
    <3>. QED BY <2>1, <3>1 DEF ApplyInv, At
  <2>. QED BY <1>1, <2>1
<1>3. job["listener"].op = "apply" /\ At("main", "idle")
  BY <1>2 DEF ApplyInv
<1>4. job'["main"] = job["main"]
  BY <1>2 DEF Others, Workers
<1>. QED BY <1>2, <1>3, <1>4 DEF At

LEMMA ApplyTransfer ==
  ASSUME ClockDividerTypeOK, ClockDividerTypeOK', PlacesInv, PlacesInv', ApplyInv,
         NEW w \in Workers, Transfer(w)
  PROVE  ApplyInv'
<1> SUFFICES ASSUME job'["listener"].op = "apply" PROVE ApplyInv'
  BY ApplyOver
<1> USE DEF Settled, Moving
<1> DEFINE L == "listener"
           c == Current(L)
<1>0. /\ L \in Workers /\ job[L].value \in [Outputs -> Nat] /\ job[L].got \in [Outputs -> Nat]
      /\ chip \in [Registers -> Nat] /\ chip["r03"] < Radix /\ chip'["r03"] < Radix
      /\ promised \in [Outputs -> Nat]
  BY DEF Workers, ClockDividerTypeOK, Jobs, Dividers, PlacesInv
<1>1. CASE WriteHigh(w)
  <2>1. Others(w) /\ job[w].at = "write" /\ job'[w].op = job[w].op
    BY <1>1, WroteHigh DEF Going, At
  <2>2. w = L /\ job[L].op = "apply" /\ At("main", "idle")'
    BY <2>1, ApplyAlone
  <2>3. /\ c \in job[L].left /\ c \in Outputs /\ OnPdiv1(c) /\ job[L].at = "write"
        /\ chip' = [chip EXCEPT !["r02"] = High(job[L].value[c])]
        /\ job'[L].at = "writeLow" /\ job'[L].left = job[L].left
        /\ job'[L].value = job[L].value /\ UNCHANGED <<promised, inForce>>
    BY <1>1, <2>2, WroteHigh DEF Going, At
  <2>4. Current(L)' = c
    BY <2>3 DEF Current
  <2>5. chip'["r02"] = High(job[L].value[c])
    BY <1>0, <2>3 DEF Registers
  <2>6. ASSUME NEW p \in Applied PROVE ApplyHolds(p)'
    <3>1. p \in Outputs /\ ApplyHolds(p)
      BY <2>2, <2>6 DEF Applied, ApplyInv
    <3>2. CASE OnPdiv1(p)
      <4>1. c \in Mates({p})
        BY <2>3, <3>1, <3>2, MatesOf DEF OnPdiv1
      <4>. QED BY <2>3, <4>1 DEF ApplyHolds, Writing, Mates
    <3>3. CASE ~OnPdiv1(p)
      <4>1. chip'[RegisterOf(p)] = chip[RegisterOf(p)]
        BY <1>0, <2>3, PdivOf DEF Registers
      <4>2. Divider(p)' = Divider(p)
        BY <3>3, <4>1 DEF Divider, OnPdiv1
      <4>. QED BY <2>3, <3>1, <4>2 DEF ApplyHolds, Writing, Mates
    <3>. QED BY <3>2, <3>3
  <2> HIDE DEF L, c
  <2>. QED BY <2>2, <2>3, <2>4, <2>5, <2>6 DEF ApplyInv, Applied, Mates, Writing, L
<1>2. CASE WriteLow(w) \/ WriteOne(w)
  <2>1. Others(w) /\ job[w].at # "idle" /\ job'[w].op = job[w].op
    BY <1>2, Wrote DEF Going, Writing
  <2>2. w = L /\ job[L].op = "apply" /\ At("main", "idle")'
    BY <2>1, ApplyAlone
  <2>3. /\ Writing(L) /\ c \in job[L].left /\ c \in Outputs
        /\ OnPdiv1(c) <=> job[L].at = "writeLow"
        /\ job[L].value[c] \in Nat
        /\ OnPdiv1(c) => chip' = [chip EXCEPT !["r03"] = Low(job[L].value[c])]
        /\ ~OnPdiv1(c) => chip' = [chip EXCEPT ![RegisterOf(c)] = job[L].value[c]]
        /\ \/ job'[L].at = "read" /\ job'[L].left = Outputs /\ job[L].left = {c}
           \/ /\ job'[L].at = "write" /\ job'[L].left = job[L].left \ {c}
              /\ job[L].left # {c}
        /\ job'[L].value = job[L].value /\ UNCHANGED <<promised, inForce>>
    BY <1>2, <2>2, Wrote DEF Going, At
  <2>4. /\ c \in Applied /\ job[L].left \subseteq Applied
        /\ \A p \in Applied: job[L].value[p] = job[L].value[c] /\ ApplyHolds(p)
        /\ job[L].at = "writeLow" => chip["r02"] = High(job[L].value[c])
        /\ \A o \in Mates(Applied): promised[o] = 0
        /\ \A p, q \in Applied: job[L].value[p] = job[L].value[q]
    BY <2>2, <2>3 DEF ApplyInv, At
  <2>5. chip'["r02"] = chip["r02"]
    BY <1>0, <2>3, PdivOf DEF Registers
  <2>6. ASSUME NEW p \in Applied PROVE ApplyHolds(p)'
    <3>1. p \in Outputs /\ ApplyHolds(p)
      BY <2>4, <2>6 DEF Applied
    <3>2. CASE c \in Mates({p})
      <4>1. Pdiv(c) = Pdiv(p) /\ job[L].value[c] = job[L].value[p]
        BY <2>3, <2>4, <3>1, <3>2, MatesOf
      <4>2. CASE OnPdiv1(p)
        <5>1. OnPdiv1(c)
          BY <4>1, <4>2 DEF OnPdiv1
        <5>2. chip'["r03"] = Low(job[L].value[p]) /\ chip'["r02"] = High(job[L].value[p])
          BY <1>0, <2>3, <2>4, <2>5, <4>1, <5>1 DEF Registers
        <5>3. Divider(p)' = job[L].value[p]
          BY <1>0, <2>3, <3>1, <4>1, <4>2, <5>2, Split DEF Divider, OnPdiv1
        <5>. QED BY <2>3, <5>3 DEF ApplyHolds, GotIs, Mates, Writing, At
      <4>3. CASE ~OnPdiv1(p)
        <5>1. ~OnPdiv1(c) /\ RegisterOf(c) = RegisterOf(p) /\ RegisterOf(p) \in Registers
          BY <4>1, <4>3, PdivOf DEF OnPdiv1, Registers
        <5>2. chip'[RegisterOf(p)] = job[L].value[p]
          BY <1>0, <2>3, <4>1, <5>1
        <5>3. Divider(p)' = job[L].value[p]
          BY <4>3, <5>2 DEF Divider, OnPdiv1
        <5>. QED BY <2>3, <5>3 DEF ApplyHolds, GotIs, Mates, Writing, At
      <4>. QED BY <4>2, <4>3
    <3>3. CASE c \notin Mates({p})
      <4>1. Pdiv(c) # Pdiv(p)
        BY <2>3, <3>1, <3>3, MatesOf
      <4>2. Divider(p)' = Divider(p)
        <5>1. CASE OnPdiv1(p)
          <6>1. chip'["r03"] = chip["r03"]
            BY <1>0, <2>3, <4>1, <5>1, PdivOf DEF Registers, OnPdiv1
          <6>. QED BY <2>5, <5>1, <6>1 DEF Divider, OnPdiv1
        <5>2. CASE ~OnPdiv1(p)
          <6>1. RegisterOf(p) \in {"r26", "r37"} /\ (~OnPdiv1(c) => RegisterOf(c) # RegisterOf(p))
            BY <4>1, <5>2, PdivOf
          <6>2. chip'[RegisterOf(p)] = chip[RegisterOf(p)]
            BY <1>0, <2>3, <6>1 DEF Registers
          <6>. QED BY <5>2, <6>2 DEF Divider, OnPdiv1
        <5>. QED BY <5>1, <5>2
      <4>. QED BY <2>3, <3>1, <3>3, <4>2 DEF ApplyHolds, GotIs, Mates, Writing, At
    <3>. QED BY <3>2, <3>3
  <2> HIDE DEF L, c
  <2>. QED BY <2>2, <2>3, <2>4, <2>6 DEF ApplyInv, Applied, Mates, Writing, At, L
<1>3. CASE ReadHigh(w)
  <2>1. Others(w) /\ job[w].at # "idle" /\ job'[w].op = job[w].op
    BY <1>3, HasReadHigh DEF Going, At
  <2>2. w = L /\ job[L].op = "apply" /\ At("main", "idle")'
    BY <2>1, ApplyAlone
  <2>3. /\ job[L].at = "read" /\ job'[L].at = "readLow" /\ job'[L].high = chip["r02"]
        /\ job'[L].left = job[L].left /\ job'[L].got = job[L].got
        /\ job'[L].value = job[L].value /\ job'[L].misread = job[L].misread
        /\ UNCHANGED <<chip, promised, inForce>>
    BY <1>3, <2>2, HasReadHigh DEF Going, At
  <2>4. ASSUME NEW p \in Applied PROVE ApplyHolds(p)'
    <3>1. /\ p \in Outputs /\ ApplyHolds(p) /\ Divider(p)' = Divider(p)
          /\ job[L].value[p] \in Nat
      BY <1>0, <2>2, <2>3, <2>4, SameChip DEF Applied, ApplyInv
    <3>2. Divider(p) = job[L].value[p]
      BY <2>3, <3>1 DEF ApplyHolds, Writing
    <3>3. OnPdiv1(p) => chip["r02"] = High(job[L].value[p])
      BY <1>0, <3>1, <3>2, DividerIs
    <3>. QED BY <2>3, <3>1, <3>2, <3>3 DEF ApplyHolds, GotIs, Mates, Writing, At
  <2> HIDE DEF L
  <2>. QED BY <2>2, <2>3, <2>4 DEF ApplyInv, Applied, Mates, Writing, At, L
<1>4. CASE ReadLow(w) \/ ReadOne(w) \/ Misread(w)
  <2>1. Others(w) /\ job[w].at # "idle" /\ job'[w].op = job[w].op
    BY <1>4, GotOne DEF Going, Reading
  <2>2. w = L /\ job[L].op = "apply" /\ At("main", "idle")'
    BY <2>1, ApplyAlone
  <2>3. PICK d \in Nat, at \in {"done", "read"}, misread \in SUBSET Outputs:
          /\ at = "done" <=> job[L].left = {c}
          /\ Going(L, at, job[L].left \ {c}, job[L].high, [job[L].got EXCEPT ![c] = d], misread)
          /\ \/ /\ misread = job[L].misread
                /\ OnPdiv1(c) => At(L, "readLow") /\ d = job[L].high * Radix + chip["r03"]
                /\ ~OnPdiv1(c) => d = chip[RegisterOf(c)]
             \/ d = 0 /\ misread = job[L].misread \cup {c}
    BY <1>4, <2>2, GotOne
  <2>4. /\ Reading(L) /\ c \in job[L].left /\ c \in Outputs /\ c \notin job[L].misread
        /\ UNCHANGED <<chip, promised, inForce>>
    BY <1>4, <2>2, GotOne DEF PlacesInv, PlaceInv
  <2>5. /\ job'[L].at = at /\ job'[L].left = job[L].left \ {c}
        /\ job'[L].value = job[L].value /\ job'[L].got = [job[L].got EXCEPT ![c] = d]
        /\ job'[L].misread = misread
    BY <2>3 DEF Going
  <2>6. inForce' /\ \A o \in Mates(Applied): promised'[o] = 0
    BY <2>2, <2>4 DEF ApplyInv
  <2>7. ASSUME NEW p \in Applied PROVE ApplyHolds(p)'
    <3>1. /\ p \in Outputs /\ ApplyHolds(p) /\ Divider(p)' = Divider(p)
          /\ job[L].value[p] \in Nat /\ ~Writing(L)
      BY <1>0, <2>2, <2>4, <2>7, SameChip DEF Applied, ApplyInv, Reading, Writing
    <3>2. Divider(p) = job[L].value[p]
      BY <3>1 DEF ApplyHolds
    <3>3. c \in Mates({p}) => d = IF c \in misread THEN 0 ELSE job[L].value[p]
      <4> SUFFICES ASSUME c \in Mates({p}), c \notin misread PROVE d = job[L].value[p]
        BY <2>3, <2>4
      <4>1. Pdiv(c) = Pdiv(p)
        BY <3>1, MatesOf
      <4>2. CASE OnPdiv1(c)
        <5>1. OnPdiv1(p) /\ At(L, "readLow") /\ d = job[L].high * Radix + chip["r03"]
          BY <2>3, <4>1, <4>2 DEF OnPdiv1
        <5>2. job[L].high = High(job[L].value[p])
          BY <3>1, <5>1 DEF ApplyHolds
        <5>3. chip["r02"] = High(job[L].value[p]) /\ Divider(p) = chip["r02"] * Radix + chip["r03"]
          BY <1>0, <3>1, <3>2, <5>1, DividerIs
        <5>. QED BY <3>2, <5>1, <5>2, <5>3
      <4>3. CASE ~OnPdiv1(c)
        <5>1. d = chip[RegisterOf(c)] /\ ~OnPdiv1(p) /\ RegisterOf(c) = RegisterOf(p)
          BY <2>3, <4>1, <4>3, PdivOf DEF OnPdiv1
        <5>. QED BY <1>0, <3>1, <3>2, <5>1, DividerIs
      <4>. QED BY <4>2, <4>3
    <3>4. \A m \in Mates({p}): GotIs(L, m, job[L].value[p]) /\ m \in Outputs
      BY <3>1 DEF ApplyHolds, Mates
    <3>5. ASSUME NEW m \in Mates({p}) PROVE GotIs(L, m, job[L].value[p])'
      <4>1. CASE m = c
        BY <1>0, <2>4, <2>5, <3>3, <4>1 DEF GotIs
      <4>2. CASE m # c
        <5>1. m \in misread <=> m \in job[L].misread
          BY <2>3, <4>2
        <5>. QED BY <1>0, <2>4, <2>5, <3>4, <4>2, <5>1 DEF GotIs
      <4>. QED BY <4>1, <4>2
    <3>. QED BY <2>5, <3>1, <3>2, <3>5 DEF ApplyHolds, Mates, Writing, At
  <2> HIDE DEF L, c
  <2>. QED BY <2>2, <2>5, <2>6, <2>7 DEF ApplyInv, Applied, Mates, Writing, At, L
<1>5. CASE Fails(w)
  <2>1. Ends(w) /\ job[w].at # "idle"
    BY <1>5, HasEnded DEF Fails, At
  <2>2. w # L
    BY <2>1 DEF Ends
  <2>. QED BY <2>1, <2>2, ApplyAlone DEF Ends
<1>. QED BY <1>1, <1>2, <1>3, <1>4, <1>5 DEF Transfer

LEMMA ApplyEnd ==
  ASSUME ClockDividerTypeOK, PlacesInv, ApplyInv,
         EndRestore \/ \E w \in Workers: End(w)
  PROVE  ApplyInv'
<1> SUFFICES ASSUME job'["listener"].op = "apply" PROVE ApplyInv'
  BY ApplyOver
<1>0. "main" \in Workers /\ "listener" \in Workers
  BY DEF Workers
<1>1. CASE EndRestore
  <2>1. Others("main") /\ job["main"].at # "idle"
    BY <1>1, HasRestored DEF At, Ends, StartsOn, BeginsReading, Fresh
  <2>. QED BY <1>0, <2>1, ApplyAlone
<1>2. ASSUME NEW w \in Workers, EndStatus(w) \/ EndStart(w) PROVE FALSE
  <2>1. Ends(w) /\ job[w].at # "idle"
    BY <1>2, HasEnded DEF EndStatus, EndStart, Done, At
  <2>2. w # "listener"
    BY <2>1 DEF Ends
  <2>. QED BY <2>1, <2>2, ApplyAlone DEF Ends
<1>3. ASSUME NEW w \in Workers, Flush(w) \/ DiskFull(w) PROVE FALSE
  BY <1>3, HasSaved DEF Ends, StartsOn, BeginsReading, Fresh
<1>4. ASSUME NEW w \in Workers, Truncate(w) PROVE ApplyInv'
  <2> DEFINE L == "listener"
  <2>1. /\ w = L /\ job[L].at = "done" /\ job'[L].at = "flush" /\ Others(L)
        /\ job'[L].left = job[L].left /\ job'[L].op = job[L].op
        /\ job'[L].value = job[L].value /\ job'[L].got = job[L].got
        /\ job'[L].misread = job[L].misread /\ UNCHANGED <<chip, promised, inForce>>
    BY <1>4, HasCutOff DEF Moving, At
  <2>2. job[L].op = "apply" /\ At("main", "idle")'
    BY <2>1, ApplyAlone
  <2>3. ASSUME NEW p \in Applied PROVE ApplyHolds(p)'
    <3>1. ApplyHolds(p) /\ Divider(p)' = Divider(p)
      BY <2>1, <2>2, <2>3, SameChip DEF ApplyInv
    <3>. QED BY <2>1, <3>1 DEF ApplyHolds, GotIs, Mates, Writing, At
  <2> HIDE DEF L
  <2>. QED BY <2>1, <2>2, <2>3 DEF ApplyInv, Applied, Mates, Writing, At, L
<1>. QED BY <1>1, <1>2, <1>3, <1>4 DEF End

LEMMA ApplyBegin ==
  ASSUME ClockDividerTypeOK, PlacesInv, ApplyInv, Begin
  PROVE  ApplyInv'
<1> SUFFICES ASSUME job'["listener"].op = "apply" PROVE ApplyInv'
  BY ApplyOver
<1>0. "main" \in Workers /\ "listener" \in Workers
  BY DEF Workers
<1>1. CASE BeginRestore
  <2>1. Unlocked
    BY <1>1 DEF BeginRestore
  <2>2. job["listener"].op # "apply"
    BY <1>0, <2>1 DEF Unlocked, Locked
  <2>3. job'["listener"] = job["listener"]
    BY <1>0, <1>1, SetsWrites DEF BeginRestore, Fresh, Others
  <2>. QED BY <2>2, <2>3
<1>2. CASE BeginInit
  BY <1>0, <1>2, SetsWrites DEF BeginInit, Fresh
<1>3. CASE BeginStart
  BY <1>3, BeganStart DEF StartsOn, BeginsReading, Fresh
<1>4. CASE StopAcquiring
  <2>1. job' = job /\ Unlocked
    BY <1>4 DEF StopAcquiring
  <2>. QED BY <1>0, <2>1 DEF Unlocked, Locked
<1>5. ASSUME NEW op \in {"status", "update"}, NEW r \in References \cup {0}, BeginStatus(op, r)
      PROVE  ApplyInv'
  BY <1>5, BeganStatus DEF BeginsReading, Fresh
<1>6. ASSUME NEW a \in ApplyRequests, BeginApply(a)
      PROVE  ApplyInv'
  <2> DEFINE value == [o \in Outputs |-> IF o \in a.outputs THEN a.divider ELSE 0]
  <2>1. /\ job'["listener"].at = "write" /\ job'["listener"].left = a.outputs
        /\ job'["listener"].value = value /\ Others("listener")
    BY <1>6, BeganApply DEF Fresh
  <2>2. a.outputs \subseteq Outputs /\ a.divider \in Nat \ {0}
    BY ClockDividerAssumption
  <2>3. /\ \A o \in Outputs: value[o] # 0 <=> o \in a.outputs
        /\ \A p, q \in a.outputs: value[p] = value[q]
    BY <2>2
  <2> HIDE DEF value
  <2>4. Applied' = a.outputs
    BY <2>1, <2>2, <2>3 DEF Applied
  <2>5. At("main", "idle")'
    <3>1. job["main"].op = "none"
      BY <1>0, <1>6 DEF BeginApply, Unlocked, Locked, PlacesInv
    <3>2. job["main"].at = "idle"
      BY <1>0, <3>1 DEF PlacesInv, PlaceInv, At
    <3>. QED BY <1>0, <2>1, <3>2 DEF Others, At
  <2>6. ASSUME NEW p \in a.outputs PROVE ApplyHolds(p)'
    <3>1. p \in Mates({p}) \cap a.outputs
      BY <2>2, MatesOf
    <3>. QED BY <2>1, <3>1 DEF ApplyHolds, Writing, Mates
  <2>7. inForce' /\ \A o \in Mates(a.outputs): promised'[o] = 0
    <3>1. Forgets(Mates(a.outputs))
      BY <1>6 DEF BeginApply
    <3>. QED BY <3>1 DEF Forgets, Mates
  <2>. QED BY <2>1, <2>3, <2>4, <2>5, <2>6, <2>7 DEF ApplyInv, Writing, At, Mates
<1>. QED BY <1>1, <1>2, <1>3, <1>4, <1>5, <1>6 DEF Begin

LEMMA ApplyRestart ==
  ASSUME NEW powerLoss \in BOOLEAN, Restart(powerLoss)
  PROVE  ApplyInv'
BY AllIdle, ApplyOver DEF Workers

LEMMA ApplyAround ==
  ASSUME ApplyInv, UNCHANGED <<chip, job, promised, inForce>>
  PROVE  ApplyInv'
<1>1. \A p \in Applied: ApplyHolds(p) => ApplyHolds(p)'
  BY SameChip DEF Applied, ApplyHolds, GotIs, At, Writing, Mates
<1>. QED BY <1>1 DEF ApplyInv, Applied, At, Writing, Mates, Current

-----------------------------------------------------------------------------
\* What a start goes by.

\* The worker that moves is the only one that does anything.
LEMMA StartAlone ==
  ASSUME PlacesInv, ~overlap, NEW w \in Workers,
         job[w].at # "idle", Others(w), job'[w].op = "start" => StartOf(w)'
  PROVE  StartInv'
<1>1. PICK v \in Workers: v # w /\ \A u \in Workers: u \in {v, w}
  BY DEF Workers
<1>2. job[v].at = "idle" /\ v \in {"main", "listener"}
  BY <1>1 DEF PlacesInv, At, Workers
<1>3. job'[v] = job[v] /\ job[v].op = "none"
  BY <1>1, <1>2 DEF Others, PlacesInv, PlaceInv, At
<1>4. \A u \in Workers: job'[u].op = "start" => StartOf(u)'
  BY <1>1, <1>3
<1>. QED BY <1>4 DEF StartInv

LEMMA StartReading ==
  ASSUME NEW w \in Workers, StartsOn(w, files')
  PROVE  StartOf(w)' /\ Others(w) /\ job'[w].op = "start"
BY DEF StartsOn, BeginsReading, Fresh, StartOf, At

LEMMA StartTransfer ==
  ASSUME ClockDividerTypeOK, PlacesInv, StartInv, NEW w \in Workers, Transfer(w)
  PROVE  StartInv'
<1> USE DEF Steady, Settled, Moving
<1>0. \A o \in Outputs: UNCHANGED chip => Divider(o)' = Divider(o)
  BY SameChip
<1>1. overlap' = overlap
  BY DEF Transfer, WriteHigh, WriteLow, WriteOne, ReadHigh, ReadLow, ReadOne, Misread, Fails,
         RestUnchanged
<1> SUFFICES ASSUME ~overlap PROVE StartInv'
  BY <1>1 DEF StartInv
<1>2. CASE WriteHigh(w)
  <2>1. job[w].at = "write" /\ Others(w) /\ job'[w].op = job[w].op
    BY <1>2, WroteHigh DEF Going, At
  <2>2. job[w].op # "start"
    BY <2>1 DEF PlacesInv, PlaceInv, Writing
  <2>. QED BY <2>1, <2>2, StartAlone
<1>3. CASE WriteLow(w) \/ WriteOne(w)
  <2>1. Writing(w) /\ Others(w) /\ job'[w].op = job[w].op
    BY <1>3, Wrote DEF Going
  <2>2. job[w].op # "start" /\ job[w].at # "idle"
    BY <2>1 DEF PlacesInv, PlaceInv, Writing
  <2>. QED BY <2>1, <2>2, StartAlone
<1>4. CASE ReadHigh(w)
  <2>1. /\ job[w].at = "read" /\ Others(w) /\ job'[w].op = job[w].op
        /\ job'[w].at = "readLow" /\ job'[w].left = job[w].left /\ job'[w].high = chip["r02"]
        /\ job'[w].got = job[w].got /\ job'[w].reference = job[w].reference
        /\ job'[w].misread = job[w].misread /\ job'[w].store = job[w].store
        /\ UNCHANGED <<chip, files>>
    BY <1>4, HasReadHigh DEF Going, At
  <2>2. ASSUME job'[w].op = "start" PROVE StartOf(w)'
    <3>1. StartOf(w)
      BY <2>1, <2>2 DEF StartInv
    <3>. QED BY <1>0, <2>1, <3>1 DEF StartOf, At
  <2>. QED BY <2>1, <2>2, StartAlone
<1>5. CASE ReadLow(w) \/ ReadOne(w) \/ Misread(w)
  <2> DEFINE c == Current(w)
  <2>1. Reading(w) /\ c \in job[w].left /\ c \in Outputs /\ UNCHANGED <<chip, files>>
    BY <1>5, GotOne
  <2>2. PICK d \in Nat, at \in {"done", "read"}, misread \in SUBSET Outputs:
          /\ at = "done" <=> job[w].left = {c}
          /\ Going(w, at, job[w].left \ {c}, job[w].high, [job[w].got EXCEPT ![c] = d], misread)
          /\ \/ /\ misread = job[w].misread
                /\ OnPdiv1(c) => At(w, "readLow") /\ d = job[w].high * Radix + chip["r03"]
                /\ ~OnPdiv1(c) => d = chip[RegisterOf(c)]
             \/ d = 0 /\ misread = job[w].misread \cup {c}
    BY <1>5, GotOne
  <2> HIDE DEF c
  <2>3. /\ job'[w].at = at /\ job'[w].left = job[w].left \ {c} /\ job'[w].op = job[w].op
        /\ job'[w].got = [job[w].got EXCEPT ![c] = d] /\ job'[w].misread = misread
        /\ job'[w].reference = job[w].reference /\ job'[w].store = job[w].store /\ Others(w)
    BY <2>2 DEF Going
  <2>4. ASSUME job'[w].op = "start" PROVE StartOf(w)'
    <3>1. StartOf(w)
      BY <2>3, <2>4 DEF StartInv
    <3>2. ASSUME NEW o \in Outputs \ job'[w].left, o \notin misread
          PROVE  job'[w].got[o] = Divider(o)'
      <4>1. job[w].got \in [Outputs -> Nat] /\ chip["r03"] < Radix
        BY DEF ClockDividerTypeOK, Jobs, Dividers, PlacesInv
      <4>2. o \notin job[w].misread /\ o \in (Outputs \ job[w].left) \cup {c}
        BY <2>2, <2>3, <3>2
      <4>3. CASE o = c
        <5>1. /\ OnPdiv1(c) => At(w, "readLow") /\ d = job[w].high * Radix + chip["r03"]
              /\ ~OnPdiv1(c) => d = chip[RegisterOf(c)]
          BY <2>2, <3>2, <4>3
        <5>2. d = Divider(c)
          BY <2>1, <3>1, <4>1, <5>1, DividerIs DEF StartOf
        <5>. QED BY <1>0, <2>1, <2>3, <4>1, <4>3, <5>2
      <4>4. CASE o # c
        <5>1. job[w].got[o] = Divider(o)
          BY <3>1, <4>2, <4>4 DEF StartOf
        <5>. QED BY <1>0, <2>1, <2>3, <4>1, <4>4, <5>1
      <4>. QED BY <4>3, <4>4
    <3>. QED BY <2>1, <2>3, <3>1, <3>2 DEF StartOf, At
  <2>5. job[w].at # "idle"
    BY <2>1 DEF Reading
  <2>. QED BY <2>3, <2>4, <2>5, StartAlone
<1>6. CASE Fails(w)
  <2>1. Ends(w) /\ job[w].at # "idle"
    BY <1>6, HasEnded DEF Fails, At
  <2>. QED BY <2>1, StartAlone DEF Ends
<1>. QED BY <1>2, <1>3, <1>4, <1>5, <1>6 DEF Transfer

LEMMA StartEnd ==
  ASSUME ClockDividerTypeOK, PlacesInv, StartInv,
         EndRestore \/ \E w \in Workers: End(w)
  PROVE  StartInv'
<1> USE DEF Steady
<1>0. "main" \in Workers /\ "listener" \in Workers
  BY DEF Workers
<1>1. overlap' = overlap
  BY HasRestored, HasEnded, HasCutOff, HasSaved DEF End
<1> SUFFICES ASSUME ~overlap PROVE StartInv'
  BY <1>1 DEF StartInv
<1>2. ASSUME NEW w \in Workers, Ends(w) \/ StartsOn(w, files'), job[w].at # "idle"
      PROVE  StartInv'
  <2>1. Others(w) /\ (job'[w].op = "start" => StartOf(w)')
    BY <1>2, StartReading DEF Ends
  <2>. QED BY <1>2, <2>1, StartAlone
<1>3. CASE EndRestore
  BY <1>0, <1>2, <1>3, HasRestored DEF At
<1>4. ASSUME NEW w \in Workers, EndStatus(w) \/ EndStart(w) PROVE StartInv'
  BY <1>2, <1>4, HasEnded DEF EndStatus, EndStart, Done, At
<1>5. ASSUME NEW w \in Workers, Truncate(w) PROVE StartInv'
  <2>1. job[w].at # "idle" /\ Others(w) /\ job'[w].op # "start"
    BY <1>5, HasCutOff DEF Moving, At, Saving
  <2>. QED BY <2>1, StartAlone
<1>6. ASSUME NEW w \in Workers, Flush(w) \/ DiskFull(w) PROVE StartInv'
  BY <1>2, <1>6, HasSaved DEF At
<1>. QED BY <1>3, <1>4, <1>5, <1>6 DEF End

LEMMA StartBegin ==
  ASSUME ClockDividerTypeOK, PlacesInv, StartInv, Begin
  PROVE  StartInv'
<1> SUFFICES ASSUME ~overlap' PROVE StartInv'
  BY DEF StartInv
<1>0. "main" \in Workers /\ "listener" \in Workers
  BY DEF Workers
<1>1. CASE BeginRestore
  <2>1. job["main"].op # "start" /\ job["listener"].op # "start"
    BY <1>0, <1>1 DEF BeginRestore, Unlocked, Locked
  <2>2. job'["listener"] = job["listener"] /\ job'["main"].op \in {job["main"].op, "restore"}
    <3>1. CASE SavedOutputs = {}
      BY <1>1, <3>1 DEF BeginRestore
    <3>2. CASE SavedOutputs # {}
      BY <1>0, <1>1, <3>2, SetsWrites DEF BeginRestore, Fresh, Others
    <3>. QED BY <3>1, <3>2
  <2>. QED BY <2>1, <2>2 DEF StartInv, Workers
<1>2. ASSUME Command PROVE UNCHANGED <<files, mounted>> /\ At("main", "idle")
  <2>1. At("main", "idle")
    BY <1>2, Zenon DEF Command
  <2>. QED BY <1>2, <2>1 DEF Command, Files
<1>3. ASSUME Command, Others("listener"), job'["listener"].op = "start" => StartOf("listener")'
      PROVE  StartInv'
  <2>1. job'["main"] = job["main"] /\ job["main"].at = "idle"
    BY <1>2, <1>3 DEF Others, At, Workers
  <2>2. job["main"].op = "none"
    BY <1>0, <2>1 DEF PlacesInv, PlaceInv, At
  <2>. QED BY <1>3, <2>1, <2>2 DEF StartInv, Workers
<1>4. CASE BeginInit
  <2>1. Fresh("listener", "write", "init", file.y, SavedOutputs, file.reference) /\ Command
    BY <1>0, <1>4, SetsWrites DEF BeginInit
  <2>. QED BY <1>3, <2>1 DEF Fresh
<1>5. CASE BeginStart
  <2>1. Command /\ StartsOn("listener", files)
    BY <1>5, BeganStart DEF BeginStart
  <2>2. files' = files
    BY <1>2, <2>1
  <2>3. StartOf("listener")' /\ Others("listener")
    BY <1>0, <2>1, <2>2, StartReading
  <2>. QED BY <1>3, <2>1, <2>3
<1>6. CASE StopAcquiring
  <2>1. Command /\ job' = job
    BY <1>6 DEF StopAcquiring
  <2>2. job'["listener"].op # "start"
    BY <1>0, <2>1 DEF Command, PlacesInv, PlaceInv, At
  <2>. QED BY <1>3, <2>1, <2>2 DEF Others
<1>7. ASSUME NEW op \in {"status", "update"}, NEW r \in References \cup {0}, BeginStatus(op, r)
      PROVE  StartInv'
  <2>1. Command /\ BeginsReading("listener", op, ReferenceOf(r))
    BY <1>7, BeganStatus DEF BeginStatus
  <2>. QED BY <1>3, <2>1 DEF BeginsReading, Fresh
<1>8. ASSUME NEW a \in ApplyRequests, BeginApply(a)
      PROVE  StartInv'
  <2>1. Command /\ Others("listener") /\ job'["listener"].op = "apply"
    BY <1>8, BeganApply DEF BeginApply, Fresh
  <2>. QED BY <1>3, <2>1
<1>. QED BY <1>1, <1>4, <1>5, <1>6, <1>7, <1>8 DEF Begin

LEMMA StartRestart ==
  ASSUME NEW powerLoss \in BOOLEAN, Restart(powerLoss)
  PROVE  StartInv'
BY AllIdle DEF StartInv

LEMMA StartAround ==
  ASSUME StartInv, UNCHANGED <<chip, files, job, overlap>>
  PROVE  StartInv'
BY SameChip DEF StartInv, StartOf, At

-----------------------------------------------------------------------------
\* The theorems.

LEMMA InitialDividers == ClockDividerInit => IInv
<1> SUFFICES ASSUME ClockDividerInit PROVE IInv
  OBVIOUS
<1>1. JobsOK
  BY IdleJob DEF ClockDividerInit, JobsOK
<1>2. EmptyFile \in Contents /\ "root" \in Stores /\ Registers # {}
  BY IdleJob, ClockDividerAssumption DEF EmptyFile, Contents, Stores, Registers
<1>3. ClockDividerTypeOK
  BY <1>1, <1>2, IdleJob, ClockDividerAssumption DEF ClockDividerInit, ClockDividerTypeOK, JobsOK
<1>4. \A w \in Workers: /\ job[w].at = "idle" /\ job[w].op = "none" /\ ~job[w].wasRunning
                         /\ job[w].misread = {}
  BY DEF ClockDividerInit, Idle
<1>5. PlacesInv
  BY <1>4, ClockDividerAssumption
     DEF ClockDividerInit, PlacesInv, PlaceInv, At, Writing, Reading, Saving, Workers, Locked
<1>6. PromiseInv
  BY DEF ClockDividerInit, PromiseInv, Zero
<1>7. ApplyInv /\ StartInv
  BY <1>4 DEF ApplyInv, StartInv, At, Workers
<1>. QED BY <1>3, <1>5, <1>6, <1>7 DEF IInv

LEMMA StutterDividers == IInv /\ UNCHANGED dividerVars => IInv'
<1> SUFFICES ASSUME IInv, UNCHANGED dividerVars PROVE IInv'
  OBVIOUS
<1>1. /\ UNCHANGED <<chip, files, remains, mounted, job, booting, acquiring, overlap>>
      /\ UNCHANGED <<promised, home, lost, inForce, commands, faults, restarts>>
  BY DEF dividerVars, promises
<1>2. ClockDividerTypeOK'
  BY <1>1 DEF IInv, ClockDividerTypeOK
<1>. QED
  BY <1>1, <1>2, PlacesAround, PromiseAround, ApplyAround, StartAround DEF IInv

LEMMA InvarianceOfDividers == IInv /\ [ClockDividerNext]_dividerVars => IInv'
<1> SUFFICES ASSUME IInv, ClockDividerNext PROVE IInv'
  BY StutterDividers
<1>0. ClockDividerTypeOK /\ PlacesInv /\ PromiseInv /\ ApplyInv /\ StartInv
  BY DEF IInv
<1>1. CASE Begin
  BY <1>0, <1>1, TypesBegin, PlacesBegin, PromiseBegin, ApplyBegin, StartBegin DEF IInv
<1>2. CASE EndRestore
  BY <1>0, <1>2, TypesEnd, PlacesEnd, PromiseRestored, ApplyEnd, StartEnd DEF IInv
<1>3. ASSUME NEW w \in Workers, Transfer(w) PROVE IInv'
  <2>1. ClockDividerTypeOK' /\ PlacesInv' /\ StartInv'
    BY <1>0, <1>3, TypesTransfer, PlacesTransfer, StartTransfer
  <2>2. ApplyInv'
    BY <1>0, <1>3, <2>1, ApplyTransfer
  <2>3. PromiseInv'
    BY <1>0, <1>3, <2>1, PromiseWriteHigh, PromiseWrite, PromiseReadHigh, PromiseRead,
       PromiseEnded DEF Transfer
  <2>. QED BY <2>1, <2>2, <2>3 DEF IInv
<1>4. ASSUME NEW w \in Workers, End(w) PROVE IInv'
  <2>1. ClockDividerTypeOK' /\ PlacesInv' /\ ApplyInv' /\ StartInv'
    BY <1>0, <1>4, TypesEnd, PlacesEnd, ApplyEnd, StartEnd
  <2>2. PromiseInv'
    BY <1>0, <1>4, PromiseEnded, PromiseCutOff, PromiseSaved DEF End
  <2>. QED BY <2>1, <2>2 DEF IInv
<1>5. ASSUME NEW powerLoss \in BOOLEAN, Restart(powerLoss) PROVE IInv'
  BY <1>0, <1>5, TypesRestart, PlacesRestart, PromiseRestart, ApplyRestart, StartRestart DEF IInv
<1>6. ASSUME NEW store \in Stores, WriteBack(store) \/ Mount(store) PROVE IInv'
  <2>1. /\ ClockDividerTypeOK' /\ UNCHANGED <<chip, files, job, booting, acquiring, overlap>>
        /\ UNCHANGED <<promised, home, lost, inForce>>
    BY <1>0, <1>6, TypesAround
  <2>. QED BY <1>0, <2>1, PlacesAround, PromiseAround, ApplyAround, StartAround DEF IInv
<1>. QED BY <1>1, <1>2, <1>3, <1>4, <1>5, <1>6 DEF ClockDividerNext

\* The registers, the files and the jobs have their types in every state, whatever
\* transfers fail, whatever is mounted and whenever the process or the power ends.
THEOREM ClockDividerTypes == ClockDividerSpec => []ClockDividerTypeOK
<1>1. IInv => ClockDividerTypeOK
  BY DEF IInv
<1>. QED BY InitialDividers, InvarianceOfDividers, <1>1, PTL DEF ClockDividerSpec

\* What divider-apply has answered is in the file it was saved in, but for what is
\* known to be lost there, and in the chip while it is in force, and in one of them;
\* a file that was not written back when the power went keeps nothing.
THEOREM ApplySurvives == ClockDividerSpec => []AppliedSurvives
<1>1. IInv => AppliedSurvives
  BY DEF IInv, PromiseInv, PromiseOf, FileHolds, ChipHolds, AppliedSurvives
<1>. QED BY InitialDividers, InvarianceOfDividers, <1>1, PTL DEF ClockDividerSpec

\* What a start has read is what the chip holds, so its check is about the chip.
LEMMA StartChecksChip ==
  ASSUME IInv, ClockDividerNext, ~acquiring, acquiring', ~overlap
  PROVE  \E w \in Workers: /\ Done(w, {"start"})
                           /\ \/ Safe(Hardware, files[job[w].store].reference)
                              \/ job[w].misread \cap Acquiring # {}
<1>1. PICK w \in Workers: EndStart(w)
  <2>1. ~Begin
    BY DEF Begin, BeginRestore, BeginInit, BeginStart, BeginStatus, BeginApply, StopAcquiring
  <2>2. ~EndRestore /\ \A w \in Workers: ~Transfer(w)
    <3>1. ClockDividerTypeOK /\ PlacesInv
      BY DEF IInv
    <3>. QED BY <3>1, HasRestored, WroteHigh, Wrote, HasReadHigh, GotOne, Zenon
         DEF Transfer, Steady, Fails
  <2>3. /\ \A store \in Stores: ~WriteBack(store) /\ ~Mount(store)
        /\ \A powerLoss \in BOOLEAN: ~Restart(powerLoss)
    BY DEF WriteBack, Mount, Restart
  <2>4. PICK w \in Workers: End(w)
    BY <2>1, <2>2, <2>3 DEF ClockDividerNext
  <2>5. ~EndStatus(w) /\ ~Truncate(w) /\ ~Flush(w) /\ ~DiskFull(w)
    BY DEF EndStatus, Truncate, Flush, DiskFull
  <2>. QED BY <2>4, <2>5 DEF End
<1>2. Safe(job[w].got, job[w].reference) /\ Done(w, {"start"})
  BY <1>1 DEF EndStart
<1>3. job[w].left = {} /\ StartOf(w)
  BY <1>2 DEF IInv, PlacesInv, PlaceInv, StartInv, Done, At
<1>4. ASSUME job[w].misread \cap Acquiring = {}
      PROVE  Safe(Hardware, files[job[w].store].reference)
  <2>1. \A o \in Acquiring: job[w].got[o] = Hardware[o]
    BY <1>3, <1>4 DEF StartOf, Hardware, Acquiring
  <2>. QED BY <1>2, <1>3, <2>1 DEF Safe, StartOf
<1>. QED BY <1>2, <1>4

\* The acquisition is started on a clock that is safe by the file its start has read.
THEOREM StartsOnSafeClock == ClockDividerSpec => StartedOnSafeClock
<1> DEFINE A == ~acquiring /\ acquiring' =>
                  \/ overlap
                  \/ \E w \in Workers:
                       /\ Done(w, {"start"})
                       /\ \/ Safe(Hardware, files[job[w].store].reference)
                          \/ job[w].misread \cap Acquiring # {}
<1>1. IInv /\ [ClockDividerNext]_dividerVars => [A]_dividerVars
  BY StartChecksChip, Zenon DEF dividerVars
<1>2. ClockDividerSpec => [][A]_dividerVars
  BY InitialDividers, InvarianceOfDividers, <1>1, PTL DEF ClockDividerSpec
<1>. QED BY <1>2, Zenon DEF StartedOnSafeClock
=============================================================================
