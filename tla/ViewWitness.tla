----------------------------- MODULE ViewWitness -----------------------------
(***************************************************************************)
(* One rank's view of a model, file by file: how `model_library.py         *)
(* verify-hot` decides that the view holds what its stamp's manifest says, *)
(* and the serve witness that lets a launch skip the hashing.              *)
(*                                                                         *)
(* A verification reads the files one after the other while other programs *)
(* may write them.  A witness records the metadata (device, inode, size,   *)
(* mtime, ctime) the files had when they were hashed; here a file's        *)
(* metadata is one tick, and a write always gives it a tick it never had:  *)
(* the clock behind ctime is taken to be finer than two writes.            *)
(*                                                                         *)
(* The commands hold the hot lock, shared or exclusive.  On a remote rank  *)
(* verify-hot runs behind ssh, and one whose connection is lost goes on    *)
(* after its command has let the lock go.                                  *)
(***************************************************************************)
EXTENDS Naturals, FiniteSets, FiniteSetsExt

CONSTANTS
  Files,       \* the view's files, in the order they are read: numbers
  Ops,         \* commands at work
  MaxTicks,    \* bound on the writes to files
  MaxHangups   \* bound on lost connections

ASSUME FilesAssumption == Files \subseteq Nat /\ Files # {}
ASSUME TicksAssumption == MaxTicks \in Nat \ {0} /\ MaxHangups \in Nat

VARIABLES
  blob,        \* the files: their tick, and which halves are as the manifest says
  view,        \* the instance directory: is it there, its data, stamp and witness
  cmd,         \* what each command is doing
  tick,        \* the last tick given
  hangups
wvars == <<blob, view, cmd, tick, hangups>>

Halves == {1, 2}
Ticks == 0..MaxTicks
Missing == 0       \* the tick of a file that is not there
Metadata == [Files -> Ticks]
NoWitness == [f \in Files |-> Missing]

Views == [there : BOOLEAN, stamp : {"none", "verifying", "ready"}, witness : Metadata]
NoView == [there |-> FALSE, stamp |-> "none", witness |-> NoWitness]

\* ref: the metadata the observations are compared with; pass: which of the
\* observations runs; todo: the files it has still to read; open: the files
\* being hashed, their tick and first half when they were opened.  orphan: the
\* connection is lost, and the hot lock with it.  Histories: the files that
\* were whole at some moment since the verification began, and whether all were
\* so at once.
Commands == [kind : {"none", "launch", "pin", "prepare", "purge"},
             pc : {"idle", "observe", "load", "hash", "write", "accepted",
                   "clear", "copy", "publish", "remove"},
             pass : 0..6, todo : SUBSET Files, ref : Metadata,
             open : [Files -> [tick : Ticks, half : BOOLEAN]],
             orphan : BOOLEAN, were : SUBSET Files, whole : BOOLEAN]

Closed == [f \in Files |-> [tick |-> Missing, half |-> FALSE]]
Idle == [kind |-> "none", pc |-> "idle", pass |-> 0, todo |-> {}, ref |-> NoWitness,
         open |-> Closed, orphan |-> FALSE, were |-> {}, whole |-> FALSE]

\* Every variable keeps its type.
WitnessTypeOK ==
  /\ blob \in [Files -> [tick : Ticks, good : SUBSET Halves]]
  /\ view \in Views
  /\ cmd \in [Ops -> Commands]
  /\ tick \in Ticks /\ hangups \in 0..MaxHangups

Current == [f \in Files |-> blob[f].tick]
WholeFiles(b) == {f \in Files : b[f].tick # Missing /\ b[f].good = Halves}

\* The histories of the verifications that run, over the files b.
Remember(c, b) ==
  [p \in Ops |-> IF c[p].pc \in {"observe", "load", "hash", "write"}
                   THEN [c[p] EXCEPT !.were = @ \cup WholeFiles(b),
                                     !.whole = @ \/ WholeFiles(b) = Files]
                   ELSE c[p]]
Becomes(p, c) == cmd' = Remember([cmd EXCEPT ![p] = c], blob)
Ends(p) == Becomes(p, Idle)

-----------------------------------------------------------------------------
(* The hot lock and the commands.                                          *)

Holds(p) == cmd[p].pc # "idle" /\ ~cmd[p].orphan

LockFree(p, kind) ==
  \A q \in Ops \ {p} : Holds(q) => kind = "launch" /\ cmd[q].kind = "launch"

Begin(p, kind) == cmd[p] = Idle /\ LockFree(p, kind)

\* The first step of a verification in one of the three modes: the stored
\* witness may answer; a witness is written anew; no witness is involved.
Verify(kind) ==
  LET c == [Idle EXCEPT !.kind = kind, !.todo = Files, !.pc = "observe"] IN
  CASE kind = "launch" -> [c EXCEPT !.pass = 1]
    [] kind = "prepare" -> [c EXCEPT !.pass = 3]
    [] kind = "pin" -> [c EXCEPT !.pc = "hash"]

\* check-weights and launch find a view that is ready; so do pin and unpin.  A
\* view another preparation left verifying is not found.
Discovered == view.there /\ view.stamp = "ready"

Check(p) ==
  /\ Begin(p, "launch") /\ Discovered
  /\ Becomes(p, Verify("launch"))
  /\ UNCHANGED <<blob, view, tick, hangups>>

Pin(p) ==
  /\ Begin(p, "pin") /\ Discovered
  /\ Becomes(p, Verify("pin"))
  /\ UNCHANGED <<blob, view, tick, hangups>>

\* A preparation verifies the view that is ready, or replaces what there is.
Prepare(p) ==
  /\ Begin(p, "prepare")
  /\ Becomes(p, IF Discovered THEN Verify("prepare")
                              ELSE [Idle EXCEPT !.kind = "prepare", !.pc = "clear"])
  /\ UNCHANGED <<blob, view, tick, hangups>>

\* The instance is removed, with whatever it holds.
NoFiles == [f \in Files |-> [tick |-> Missing, good |-> {}]]
Purge(p) ==
  /\ Begin(p, "purge") /\ view.there
  /\ view' = NoView /\ blob' = NoFiles
  /\ UNCHANGED <<cmd, tick, hangups>>

-----------------------------------------------------------------------------
(* Observation: the metadata of every file, one after the other.           *)

\* What follows the observations of a pass.
Then(c) ==
  CASE c.pass = 2 -> [c EXCEPT !.pc = "load"]
    [] c.pass = 4 -> [c EXCEPT !.pc = "hash", !.todo = Files]
    [] c.pass = 6 -> [c EXCEPT !.pc = "write"]
    [] OTHER -> [c EXCEPT !.pass = @ + 1, !.todo = Files]

\* A refusal.  A preparation then replaces a view that was ready, unless its
\* plan was to keep it, and removes one it had just copied.
Refuses(p) ==
  IF cmd[p].kind = "prepare" /\ ~cmd[p].orphan
    THEN \/ view.stamp = "ready" /\ Becomes(p, [Idle EXCEPT !.kind = "prepare", !.pc = "clear"])
         \/ view.stamp = "ready" /\ Ends(p)
         \/ view.stamp # "ready" /\ Becomes(p, [Idle EXCEPT !.kind = "prepare", !.pc = "remove"])
    ELSE Ends(p)

\* Mutant: the observations after the hashing are not compared.
ComparedBeforeOnly(c, f) == c.pass \in {1, 3, 5, 6} \/ c.ref[f] = blob[f].tick

\* The first observation is recorded, the others must agree with it.
Agrees(c, f) == c.pass \in {1, 3} \/ c.ref[f] = blob[f].tick

Observe(p) ==
  LET c == cmd[p]
      f == Min(c.todo)
      read == [c EXCEPT !.ref[f] = IF c.pass \in {1, 3} THEN blob[f].tick ELSE @,
                        !.todo = @ \ {f}]
  IN /\ c.pc = "observe"
     /\ IF blob[f].tick # Missing /\ Agrees(c, f)
          THEN Becomes(p, IF c.todo = {f} THEN Then(read) ELSE read)
          ELSE Refuses(p)
     /\ UNCHANGED <<blob, view, tick, hangups>>

\* The stored witness answers when it records what was just observed.
Matches(c) == view.witness = c.ref

Load(p) ==
  /\ cmd[p].pc = "load"
  /\ Becomes(p, IF Matches(cmd[p]) THEN [cmd[p] EXCEPT !.pc = "accepted"]
                  ELSE [cmd[p] EXCEPT !.pc = "observe", !.pass = 3, !.todo = Files])
  /\ UNCHANGED <<blob, view, tick, hangups>>

-----------------------------------------------------------------------------
(* Hashing: threads read the files, in any order, half by half.            *)

OpenFile(p, f) ==
  /\ cmd[p].pc = "hash" /\ f \in cmd[p].todo
  /\ cmd[p].open[f].tick = Missing
  /\ IF blob[f].tick = Missing
       THEN Refuses(p)
       ELSE Becomes(p, [cmd[p] EXCEPT !.open[f] = [tick |-> blob[f].tick,
                                                   half |-> 1 \in blob[f].good]])
  /\ UNCHANGED <<blob, view, tick, hangups>>

\* sha256_file compares the metadata before and after; a file that was replaced
\* or removed meanwhile has lost a link, which changes its ctime too.
Stable(p, f) == cmd[p].open[f].tick = blob[f].tick

Hashed(c) == [c EXCEPT !.open = Closed,
                       !.pc = IF c.kind = "pin" THEN "accepted" ELSE "observe",
                       !.pass = IF c.kind = "pin" THEN 0 ELSE 5,
                       !.todo = IF c.kind = "pin" THEN {} ELSE Files]

CloseFile(p, f) ==
  LET c == cmd[p]
      done == [c EXCEPT !.todo = @ \ {f}]
  IN /\ c.pc = "hash" /\ f \in c.todo
     /\ c.open[f].tick # Missing
     /\ IF Stable(p, f) /\ c.open[f].half /\ 2 \in blob[f].good
          THEN Becomes(p, IF c.todo = {f} THEN Hashed(c) ELSE done)
          ELSE Refuses(p)
     /\ UNCHANGED <<blob, view, tick, hangups>>

\* Mutant: the metadata is read once more when the witness is written.
WriteWitnessNow(p) ==
  /\ cmd[p].pc = "write"
  /\ view' = [view EXCEPT !.witness = Current, !.there = TRUE]
  /\ Becomes(p, [cmd[p] EXCEPT !.pc = "accepted"])
  /\ UNCHANGED <<blob, tick, hangups>>

\* The witness replaces the stored one in one rename; its directory is made
\* when it is not there.
WriteWitness(p) ==
  /\ cmd[p].pc = "write"
  /\ view' = [view EXCEPT !.witness = cmd[p].ref, !.there = TRUE]
  /\ Becomes(p, [cmd[p] EXCEPT !.pc = "accepted"])
  /\ UNCHANGED <<blob, tick, hangups>>

\* The command goes on; a preparation publishes what it copied.
Accepted(p) ==
  /\ cmd[p].pc = "accepted"
  /\ IF cmd[p].kind = "prepare" /\ view.stamp = "verifying" /\ ~cmd[p].orphan
       THEN Becomes(p, [Idle EXCEPT !.kind = "prepare", !.pc = "publish"])
       ELSE Ends(p)
  /\ UNCHANGED <<blob, view, tick, hangups>>

-----------------------------------------------------------------------------
(* What a preparation does to the view.                                    *)

\* The old data goes; the old stamp and witness stay beside the copy.
Clear(p) ==
  /\ cmd[p].pc = "clear"
  /\ blob' = NoFiles
  /\ view' = [view EXCEPT !.there = TRUE]
  /\ cmd' = [cmd EXCEPT ![p].pc = "copy"]
  /\ UNCHANGED <<tick, hangups>>

\* New files, as the home had them; then the provisional stamp.
Copy(p) ==
  /\ cmd[p].pc = "copy" /\ tick < MaxTicks
  /\ \E bad \in {{}, {Min(Files)}} :
       blob' = [f \in Files |-> [tick |-> tick + 1,
                                 good |-> IF f \in bad THEN {1} ELSE Halves]]
  /\ tick' = tick + 1
  /\ view' = [view EXCEPT !.stamp = "verifying"]
  /\ cmd' = Remember([cmd EXCEPT ![p] = Verify("prepare")], blob')
  /\ UNCHANGED hangups

Publish(p) ==
  /\ cmd[p].pc = "publish"
  /\ view' = [view EXCEPT !.stamp = "ready", !.there = TRUE]
  /\ Ends(p)
  /\ UNCHANGED <<blob, tick, hangups>>

Remove(p) ==
  /\ cmd[p].pc = "remove"
  /\ view' = NoView /\ blob' = NoFiles
  /\ Ends(p)
  /\ UNCHANGED <<tick, hangups>>

-----------------------------------------------------------------------------
(* The world.                                                              *)

\* Another program writes one half of a file.
Write ==
  /\ tick < MaxTicks
  /\ \E f \in Files, h \in Halves :
       /\ blob[f].tick # Missing
       /\ blob' = [blob EXCEPT ![f].tick = tick + 1,
                     ![f].good = IF h \in @ THEN @ \ {h} ELSE @ \cup {h}]
  /\ tick' = tick + 1
  /\ cmd' = Remember(cmd, blob')
  /\ UNCHANGED <<view, hangups>>

\* The connection of a remote verification is lost: the command ends and its
\* lock is free, while the verification goes on.
Hangup(p) ==
  /\ hangups < MaxHangups
  /\ cmd[p].pc \in {"observe", "load", "hash", "write"} /\ ~cmd[p].orphan
  /\ cmd' = [cmd EXCEPT ![p].orphan = TRUE]
  /\ hangups' = hangups + 1
  /\ UNCHANGED <<blob, view, tick>>

\* A view that is ready, with its witness; or one damaged since, without.
WitnessInit ==
  /\ \E bad \in {{}, {Min(Files)}} :
       /\ blob = [f \in Files |-> [tick |-> 1, good |-> IF f \in bad THEN {1} ELSE Halves]]
       /\ view = [there |-> TRUE, stamp |-> "ready",
                  witness |-> [f \in Files |-> IF bad = {} THEN 1 ELSE Missing]]
  /\ cmd = [p \in Ops |-> Idle]
  /\ tick = 1 /\ hangups = 0

Verifying(p) == \/ Observe(p) \/ Load(p) \/ WriteWitness(p) \/ Accepted(p)
                \/ \E f \in Files : OpenFile(p, f) \/ CloseFile(p, f)
Materializing(p) == Prepare(p) \/ Clear(p) \/ Copy(p) \/ Publish(p) \/ Remove(p)

WitnessNext ==
  \/ \E p \in Ops : \/ Check(p) \/ Pin(p) \/ Purge(p) \/ Verifying(p) \/ Materializing(p) \/ Hangup(p)
  \/ Write

WitnessSpec == WitnessInit /\ [][WitnessNext]_wvars

-----------------------------------------------------------------------------
(* Properties                                                              *)

\* What a verification accepts, by the witness or by hashing, it saw as the
\* manifest says: at one moment since it began all files were whole at once,
\* whatever was written while it read them.  Without observations around the
\* hashing (pin, unpin) every file was whole at some moment, not all together.
AcceptedWasWhole ==
  \A p \in Ops : cmd[p].pc = "accepted" =>
    /\ cmd[p].were = Files
    /\ cmd[p].kind # "pin" => cmd[p].whole

\* The stored witness vouches for the bytes: while the files have the metadata
\* it records, they are what the manifest says, whoever wrote it and however many
\* copies, purges and verifications there were since.
WitnessVouches == view.witness = Current /\ Current # NoWitness => WholeFiles(blob) = Files
=============================================================================
