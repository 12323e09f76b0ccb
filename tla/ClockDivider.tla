----------------------------- MODULE ClockDivider ----------------------------
(***************************************************************************)
(* The dividers of the CDCE937 clock chip, and the file they are saved in: *)
(* AcquisitionDivider.cpp, AcquisitionDividerState.cpp and their callers   *)
(* in AcquisitionRuntime.cpp (src/services/JNDM123AcquisitionAgent/src).   *)
(*                                                                         *)
(* Outputs share divider registers, one divider is spread over two         *)
(* registers, every transfer may fail, a register that cannot be read      *)
(* counts as 0.  The file is truncated before it is written, and never     *)
(* synchronised; which file it is, is looked up in /proc/mounts each time. *)
(*                                                                         *)
(* Two threads get here: main, for the restore at startup, and the DDS     *)
(* listener, for one command at a time.  A step is one I2C transfer of a   *)
(* divider register or one effect on the file.                             *)
(***************************************************************************)
EXTENDS Naturals, FiniteSets, FiniteSetsExt

CONSTANTS
  Outputs,          \* Y1..Y7 are 0..6
  Radix,            \* 256: what one register holds
  PowerUp,          \* the registers after power-up
  ApplyRequests,    \* [outputs, divider, reference]: valid divider-apply requests
  References,       \* the reference clocks of the other commands
  FallbackReference,\* kFallbackReferenceClockHz
  SafeHz,           \* kMaxSafeAcquisitionClockHz
  Partitions,       \* persistentMounts
  DividerCommands,  \* bound: commands
  DividerFaults,    \* bound: failing transfers, full disks, mounts
  DividerRestarts   \* bound: crashes and power losses

Registers == {"r02", "r03", "r26", "r37"}
Acquiring == Outputs \cap 0..5      \* kDividerAcquisitionOutputCount
Stores == Partitions \cup {"root"}  \* where a state file may be
Workers == {"main", "listener"}
Locked == {"restore", "apply", "start"}  \* under _controlMutex

Pdiv(o) == IF o <= 2 THEN "Pdiv1" ELSE IF o <= 5 THEN "Pdiv4" ELSE "Pdiv7"
Mates(outputs) == {o \in Outputs: \E p \in outputs: Pdiv(o) = Pdiv(p)}
RegisterOf(o) == IF Pdiv(o) = "Pdiv4" THEN "r26" ELSE "r37"

ASSUME ClockDividerAssumption ==
  /\ Outputs \subseteq 0..6 /\ Outputs # {} /\ Radix \in Nat \ {0}
  /\ PowerUp \in [Registers -> Nat] /\ PowerUp["r03"] < Radix
  /\ \A a \in ApplyRequests: /\ a.outputs \subseteq Outputs /\ a.outputs # {}
                             /\ a.divider \in Nat \ {0} /\ a.reference \in Nat
  /\ References \subseteq Nat /\ FallbackReference \in Nat /\ SafeHz \in Nat
  /\ {DividerCommands, DividerFaults, DividerRestarts} \subseteq Nat

VARIABLES
  chip,             \* the divider registers
  files,            \* store -> its state file; an output that is not in it has divider 0
  remains,          \* store -> the files a loss of power may leave there
  mounted,          \* the store dividerStateFilePath finds now
  job,              \* worker -> what it is doing
  booting,          \* main has not come to the restore yet
  acquiring,        \* _running
  promised,         \* ghost: output -> divider of the last answered apply, or 0
  home,             \* ghost: the store the promises were saved in
  lost,             \* ghost: the outputs whose entry there is gone
  inForce,          \* ghost: the chip holds the promises, or is being made to
  overlap,          \* ghost: a command was begun during the restore
  commands, faults, restarts \* counted against the bounds

promises == <<promised, home, lost, inForce>>
dividerVars == <<chip, files, remains, mounted, job, booting, acquiring, promises, overlap,
                 commands, faults, restarts>>

Zero == [o \in Outputs |-> 0]
EmptyFile == [reference |-> FallbackReference, y |-> Zero]
Idle == [at |-> "idle", op |-> "none", store |-> "root", value |-> Zero, left |-> {},
         reference |-> 0, high |-> 0, got |-> Zero, misread |-> {}, wasRunning |-> FALSE]

ClockDividerInit ==
  /\ chip = PowerUp /\ mounted \in Stores /\ job = [w \in Workers |-> Idle]
  /\ files = [s \in Stores |-> EmptyFile] /\ remains = [s \in Stores |-> {EmptyFile}]
  /\ booting = TRUE /\ acquiring = FALSE
  /\ promised = Zero /\ home = "root" /\ lost = {} /\ inForce = TRUE /\ overlap = FALSE
  /\ commands = 0 /\ faults = 0 /\ restarts = 0

Divider(o) == IF Pdiv(o) = "Pdiv1" THEN chip["r02"] * Radix + chip["r03"]
              ELSE chip[RegisterOf(o)]
Hardware == [o \in Outputs |-> Divider(o)]
file == files[mounted]   \* what loadSavedDividerConfiguration reads
SavedOutputs == {o \in Outputs: file.y[o] # 0}

\* acquisitionClockSafetyMessage is empty; divider 0 means 0 Hz.
Safe(dividers, reference) ==
  \A o \in Acquiring: dividers[o] = 0 \/ reference <= SafeHz * dividers[o]

Unlocked == \A w \in Workers: job[w].op \notin Locked
At(w, place) == job[w].at = place
Sets(w, j) == job' = [job EXCEPT ![w] = j]

-----------------------------------------------------------------------------
\* Beginning.

\* The file a job goes by is the one that is mounted when it begins.
Opens == [Idle EXCEPT !.store = mounted]
Writes(op, value, outputs, reference) ==
  [Opens EXCEPT !.at = "write", !.op = op, !.value = value, !.left = outputs,
                !.reference = reference]
Reads(j, op, reference) ==
  [j EXCEPT !.at = "read", !.op = op, !.left = Outputs, !.reference = reference,
            !.misread = {}]

Files == <<files, remains, mounted>>

\* The file of another store is restored: the chip loses the promises, and those
\* that are not in the file of home either, or are being saved anew, are void.
Restores ==
  IF mounted = home THEN UNCHANGED promises
  ELSE /\ inForce' = FALSE /\ UNCHANGED <<home, lost>>
       /\ promised' = [o \in Outputs |->
                         IF o \in lost \/ job["listener"].op = "update" THEN 0 ELSE promised[o]]

\* initializeFromSavedConfigurationLocked; nothing saved is a NotFoundException.
BeginRestore ==
  /\ booting /\ Unlocked /\ booting' = FALSE
  /\ IF SavedOutputs = {} THEN UNCHANGED <<job, promises>>
     ELSE /\ Sets("main", Writes("restore", file.y, SavedOutputs, file.reference))
          /\ Restores
  /\ overlap' = (SavedOutputs # {} /\ ~At("listener", "idle"))
  /\ UNCHANGED <<chip, Files, acquiring, commands, faults, restarts>>

Command == /\ At("listener", "idle") /\ commands < DividerCommands
           /\ commands' = commands + 1
           /\ overlap' = ~At("main", "idle")
           /\ UNCHANGED <<chip, Files, booting, faults, restarts>>

BeginInit ==
  /\ Command /\ SavedOutputs # {} /\ Restores
  /\ Sets("listener", Writes("init", file.y, SavedOutputs, file.reference))
  /\ UNCHANGED acquiring

\* A request without a reference clock gets the saved one.
ReferenceOf(r) == IF r = 0 THEN file.reference ELSE r

\* What is about to be saved is what the chip holds, restored or not.
Forgets(outputs) ==
  /\ promised' = [o \in Outputs |-> IF inForce /\ o \notin outputs THEN promised[o] ELSE 0]
  /\ inForce' = TRUE /\ UNCHANGED <<home, lost>>

BeginStatus(op, r) ==
  /\ Command /\ op \in {"status", "update"}
  /\ Sets("listener", Reads(Opens, op, ReferenceOf(r)))
  /\ IF op = "update" THEN Forgets({}) ELSE UNCHANGED promises
  /\ UNCHANGED acquiring

\* The acquisition is paused before the dividers are written.
BeginApply(a) ==
  /\ Command /\ Unlocked
  /\ Sets("listener",
          [Writes("apply", [o \in Outputs |-> IF o \in a.outputs THEN a.divider ELSE 0],
                  a.outputs, ReferenceOf(a.reference))
             EXCEPT !.wasRunning = acquiring])
  /\ acquiring' = FALSE
  /\ Forgets(Mates(a.outputs))

\* Mutant: the check goes by the fallback reference, not by the saved one.
BeginStartFallback ==
  /\ Command /\ Unlocked /\ ~acquiring
  /\ Sets("listener", Reads(Opens, "start", FallbackReference))
  /\ UNCHANGED <<acquiring, promises>>

BeginStart ==
  /\ Command /\ Unlocked /\ ~acquiring
  /\ Sets("listener", Reads(Opens, "start", file.reference))
  /\ UNCHANGED <<acquiring, promises>>

StopAcquiring ==
  /\ Command /\ Unlocked /\ acquiring /\ acquiring' = FALSE
  /\ UNCHANGED <<job, promises>>

-----------------------------------------------------------------------------
\* Transfers.  withCdce937 goes through the outputs in ascending order.

Current(w) == Min(job[w].left)
RestUnchanged == UNCHANGED <<booting, overlap, commands, restarts>>
NoFault == UNCHANGED faults
Fault == faults < DividerFaults /\ faults' = faults + 1

\* writeDividerRegister: the high bits of Pdiv1 first.
WriteHigh(w) ==
  /\ At(w, "write") /\ Pdiv(Current(w)) = "Pdiv1"
  /\ chip' = [chip EXCEPT !["r02"] = job[w].value[Current(w)] \div Radix]
  /\ Sets(w, [job[w] EXCEPT !.at = "writeLow"])
  /\ NoFault /\ RestUnchanged /\ UNCHANGED <<Files, acquiring, promises>>

Written(w) ==
  LET left == job[w].left \ {Current(w)}
      next == [job[w] EXCEPT !.at = "write", !.left = left]
  IN  Sets(w, IF left = {} THEN Reads(next, job[w].op, job[w].reference) ELSE next)

WriteLow(w) ==
  /\ At(w, "writeLow")
  /\ chip' = [chip EXCEPT !["r03"] = job[w].value[Current(w)] % Radix]
  /\ Written(w)
  /\ NoFault /\ RestUnchanged /\ UNCHANGED <<Files, acquiring, promises>>

WriteOne(w) ==
  /\ At(w, "write") /\ Pdiv(Current(w)) # "Pdiv1"
  /\ chip' = [chip EXCEPT ![RegisterOf(Current(w))] = job[w].value[Current(w)]]
  /\ Written(w)
  /\ NoFault /\ RestUnchanged /\ UNCHANGED <<Files, acquiring, promises>>

\* readDividerRegister.
HasRead(w, divider) ==
  LET left == job[w].left \ {Current(w)}
  IN  Sets(w, [job[w] EXCEPT !.at = IF left = {} THEN "done" ELSE "read",
                             !.left = left, !.got[Current(w)] = divider,
                             !.misread = IF faults' = faults THEN @
                                         ELSE @ \cup {Current(w)}])

ReadHigh(w) ==
  /\ At(w, "read") /\ Pdiv(Current(w)) = "Pdiv1"
  /\ Sets(w, [job[w] EXCEPT !.at = "readLow", !.high = chip["r02"]])
  /\ NoFault /\ RestUnchanged /\ UNCHANGED <<chip, Files, acquiring, promises>>

ReadLow(w) ==
  /\ At(w, "readLow") /\ NoFault
  /\ HasRead(w, job[w].high * Radix + chip["r03"])
  /\ RestUnchanged /\ UNCHANGED <<chip, Files, acquiring, promises>>

ReadOne(w) ==
  /\ At(w, "read") /\ Pdiv(Current(w)) # "Pdiv1" /\ NoFault
  /\ HasRead(w, chip[RegisterOf(Current(w))])
  /\ RestUnchanged /\ UNCHANGED <<chip, Files, acquiring, promises>>

\* Mutant: the error code of the transfer is taken for the divider.
MisreadAsError(w) ==
  /\ job[w].at \in {"read", "readLow"} /\ Fault
  /\ HasRead(w, 0 - 1)
  /\ RestUnchanged /\ UNCHANGED <<chip, Files, acquiring, promises>>

\* A transfer that fails reads as divider 0, which may end up in the file.
Misread(w) ==
  /\ job[w].at \in {"read", "readLow"} /\ Fault
  /\ HasRead(w, 0)
  /\ RestUnchanged /\ UNCHANGED <<chip, Files, acquiring, promises>>

\* No device, a failing write, a file that cannot be opened, a start that fails
\* after the check: an exception, the command is answered with the error; a
\* paused acquisition stays stopped.
Fails(w) ==
  /\ \/ job[w].at \in {"write", "writeLow"}
     \/ At(w, "read") /\ job[w].left = Outputs
     \/ At(w, "done") /\ job[w].op \in {"apply", "update", "start"}
  /\ Fault /\ Sets(w, Idle)
  /\ RestUnchanged /\ UNCHANGED <<chip, Files, acquiring, promises>>

-----------------------------------------------------------------------------
\* What follows when everything has been read.

Done(w, ops) == At(w, "done") /\ job[w].op \in ops

\* Restored from the file of home with nothing else going on, the chip holds the
\* promises again.
Restored(w) ==
  /\ inForce' = (inForce \/ (job[w].op # "status" /\ job[w].store = home /\ ~overlap))
  /\ UNCHANGED <<promised, home, lost>>

EndStatus(w) ==
  /\ Done(w, {"status", "init"}) /\ Sets(w, Idle) /\ Restored(w)
  /\ NoFault /\ RestUnchanged /\ UNCHANGED <<chip, Files, acquiring>>

\* startAcquisitionLocked follows if the clock is safe; it reads and checks again.
GoesOn(w) ==
  Sets(w, IF Safe(job[w].got, job[w].reference)
          THEN Reads(Opens, "start", file'.reference) ELSE Idle)

EndRestore ==
  /\ NoFault /\ RestUnchanged /\ UNCHANGED <<chip, Files, acquiring>>
  /\ Done("main", {"restore"}) /\ GoesOn("main") /\ Restored("main")

EndStart(w) ==
  /\ Done(w, {"start"}) /\ Sets(w, Idle)
  /\ acquiring' = Safe(job[w].got, job[w].reference)
  /\ NoFault /\ RestUnchanged /\ UNCHANGED <<chip, Files, promises>>

\* The kernel shows the new content at once; which of the contents a loss of power
\* leaves is open until it is written back.
Shows(store, content) ==
  /\ files' = [files EXCEPT ![store] = content]
  /\ remains' = [remains EXCEPT ![store] = @ \cup {content}]

\* saveDividerConfiguration: std::ios::trunc now, the buffer when the file is closed.
Truncate(w) ==
  /\ Done(w, {"apply", "update"})
  /\ Sets(w, [job[w] EXCEPT !.at = "flush", !.store = mounted])
  /\ Shows(mounted, EmptyFile)
  /\ lost' = IF mounted = home THEN Outputs ELSE lost
  /\ NoFault /\ RestUnchanged
  /\ UNCHANGED <<chip, mounted, acquiring, promised, home, inForce>>

\* Mutant: six outputs are saved, as many as the safety check looks at.
SaveSix(w) == [reference |-> job[w].reference,
               y |-> [o \in Outputs |-> IF o \in Acquiring THEN job[w].got[o] ELSE 0]]

Save(w) == [reference |-> job[w].reference, y |-> job[w].got]

\* The command is answered as carried out: what it has applied is promised, and
\* with it what is saved of earlier promises.
Answers(w, missing) ==
  LET applied == {o \in Outputs: job[w].value[o] # 0 /\ job[w].op = "apply"}
  IN  /\ promised' = [o \in Outputs |->
                        IF o \in Mates(applied)
                        THEN job[w].value[CHOOSE p \in applied: Pdiv(p) = Pdiv(o)]
                        ELSE promised[o]]
      /\ home' = job[w].store /\ lost' = missing /\ UNCHANGED inForce
      /\ IF job[w].wasRunning THEN GoesOn(w) ELSE Sets(w, Idle)

Flush(w) ==
  /\ At(w, "flush") /\ NoFault /\ UNCHANGED mounted
  /\ Shows(job[w].store, Save(w)) /\ Answers(w, job[w].misread)
  /\ RestUnchanged /\ UNCHANGED <<chip, acquiring>>

\* good() was asked before the buffer was written: a full disk goes unnoticed.
DiskFull(w) ==
  /\ At(w, "flush") /\ Fault /\ UNCHANGED Files
  /\ Answers(w, Outputs)
  /\ RestUnchanged /\ UNCHANGED <<chip, acquiring>>

-----------------------------------------------------------------------------
\* Around the process.

\* The kernel writes a file back; nothing in the code asks it to.
WriteBack(store) ==
  /\ remains[store] # {files[store]}
  /\ remains' = [remains EXCEPT ![store] = {files[store]}]
  /\ UNCHANGED <<chip, files, mounted, job, booting, acquiring, promises, overlap,
                 commands, faults, restarts>>

\* A partition is mounted, or unmounted.
Mount(store) ==
  /\ Fault /\ store # mounted /\ mounted' = store
  /\ UNCHANGED <<chip, files, remains, job, booting, acquiring, promises, overlap,
                 commands, restarts>>

\* The chip loses its promises; those the file of home does not hold for certain
\* are void.  The agent is started before the partition is mounted, or after.
PowerLoss ==
  /\ chip' = PowerUp /\ inForce' = FALSE /\ mounted' \in Stores
  /\ files' \in {f \in [Stores -> UNION {remains[s]: s \in Stores}]:
                 \A s \in Stores: f[s] \in remains[s]}
  /\ remains' = [s \in Stores |-> {files'[s]}]
  /\ promised' = [o \in Outputs |->
                    IF remains[home] = {files[home]} /\ o \notin lost THEN promised[o] ELSE 0]
  /\ UNCHANGED <<home, lost>>

\* The process ends anywhere and is started again; with it, perhaps, the power.
Restart(powerLoss) ==
  /\ restarts < DividerRestarts /\ restarts' = restarts + 1
  /\ job' = [w \in Workers |-> Idle] /\ booting' = TRUE
  /\ acquiring' = FALSE /\ overlap' = FALSE
  /\ IF powerLoss THEN PowerLoss ELSE UNCHANGED <<chip, Files, promises>>
  /\ UNCHANGED <<commands, faults>>

Begin == \/ BeginRestore \/ BeginInit \/ BeginStart \/ StopAcquiring
         \/ \E op \in {"status", "update"}, r \in References \cup {0}: BeginStatus(op, r)
         \/ \E a \in ApplyRequests: BeginApply(a)
Transfer(w) == \/ WriteHigh(w) \/ WriteLow(w) \/ WriteOne(w)
               \/ ReadHigh(w) \/ ReadLow(w) \/ ReadOne(w) \/ Misread(w) \/ Fails(w)
End(w) == EndStatus(w) \/ EndStart(w) \/ Truncate(w) \/ Flush(w) \/ DiskFull(w)
ClockDividerNext == \/ Begin \/ EndRestore
                    \/ \E w \in Workers: Transfer(w) \/ End(w)
                    \/ \E store \in Stores: WriteBack(store) \/ Mount(store)
                    \/ \E powerLoss \in BOOLEAN: Restart(powerLoss)

ClockDividerSpec == ClockDividerInit /\ [][ClockDividerNext]_dividerVars

-----------------------------------------------------------------------------
Dividers == [Outputs -> Nat]
Places == {"idle", "write", "writeLow", "read", "readLow", "done", "flush"}
Ops == Locked \cup {"none", "init", "status", "update"}
Jobs == [at: Places, op: Ops, store: Stores, value: Dividers, left: SUBSET Outputs,
         reference: Nat, high: Nat, got: Dividers, misread: SUBSET Outputs,
         wasRunning: BOOLEAN]
Contents == [reference: Nat, y: Dividers]

ClockDividerTypeOK ==
  /\ chip \in [Registers -> Nat]
  /\ files \in [Stores -> Contents] /\ remains \in [Stores -> SUBSET Contents]
  /\ mounted \in Stores /\ home \in Stores
  /\ job \in [Workers -> Jobs]
  /\ booting \in BOOLEAN /\ acquiring \in BOOLEAN /\ inForce \in BOOLEAN
  /\ overlap \in BOOLEAN /\ promised \in Dividers /\ lost \subseteq Outputs
  /\ commands \in Nat /\ faults \in Nat /\ restarts \in Nat

\* What divider-apply has answered is kept twice, for every output on the divider
\* and through failed commands, restarts, other partitions and losses of power: in
\* the file it was saved in, but for what was misread, cut off or did not fit when
\* that file was last written, and in the chip, until it loses power or takes the
\* file of another partition, and again after a restore.  It is given up when both
\* are gone - the power is lost before the file is written back, or while the entry
\* is missing - and when registers that hold something else are saved.
AppliedSurvives ==
  \A o \in Outputs: promised[o] # 0 =>
    /\ o \in lost \/ files[home].y[o] = promised[o]
    /\ inForce => Divider(o) = promised[o]
    /\ o \notin lost \/ inForce

\* The acquisition is started on a clock below the safety limit by the file the
\* start has read, unless the register of an acquisition clock could not be read or
\* a command has interfered with the restore.
StartedOnSafeClock ==
  [][~acquiring /\ acquiring' =>
       \/ overlap
       \/ \E w \in Workers:
            /\ Done(w, {"start"})
            /\ \/ Safe(Hardware, files[job[w].store].reference)
               \/ job[w].misread \cap Acquiring # {}]_dividerVars
=============================================================================
