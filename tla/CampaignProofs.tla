--------------------------- MODULE CampaignProofs ---------------------------
(***************************************************************************)
(* Proofs about FinalCampaign and the ExperimentRun it repeats, for every   *)
(* choice of the waits, the queue, the number of planned runs and the       *)
(* number of mishaps.                                                       *)
(*                                                                         *)
(* The invariant has three parts.  ProcessInv relates what the runner knows *)
(* to the processes: which of them can exist in each of its phases, and     *)
(* what a return code stands for.  FlowInv follows the readings: while      *)
(* gateway and collector live or have ended well, what was sent is on the   *)
(* wire or collected unless a line was counted and not appended, no more is *)
(* collected than was written, and the collector is not done before the     *)
(* connection is closed and read to the end.  CampaignInv carries both into *)
(* the evidence of the admitted runs.                                       *)
(***************************************************************************)
EXTENDS FinalCampaign, TLAPS

ProcState ==
    {"none", "booting", "up", "stopping", "writing", "finishing", "exited"}
Flow == [accepted : Nat, dropped : Nat, abandoned : Nat, unsent : Nat,
         pending : {0, 1}, sent : Nat, wire : Nat, counted : Nat, got : Nat]
Conn == {"none", "open", "dead"}
Tree == {"frozen", "edited", "other"}
Phase == {"idle", "checked", "start", "listen", "measure", "stop", "cleanup",
          "summary", "returned", "raised"}

TypeInv ==
    /\ rpc \in Phase
    /\ cur \in Child
    /\ status \in {"failed", "interrupted", "success"}
    /\ cut \in BOOLEAN
    /\ manifest \in Tree \cup {"none"}
    /\ summary \in {"none", "failed", "interrupted", "success"}
    /\ proc \in [Child -> ProcState]
    /\ rc \in [Child -> {"none", "ok", "error", "killed"}]
    /\ file \in [Child -> {"none", "truncated", "complete"}]
    /\ flow \in Flow
    /\ conn \in Conn
    /\ tree \in Tree
    /\ strayed \in BOOLEAN
    /\ moved \in BOOLEAN

\* The children that run_once has not started: those after cur, and cur itself.
NotStarted ==
    /\ rpc \in {"idle", "checked", "start"} => proc[cur] = "none"
    /\ rpc \in {"idle", "checked", "start", "listen"} =>
          /\ cur # "simulator" => proc["simulator"] = "none"
          /\ cur = "collector" => proc["gateway"] = "none"
    /\ rpc \in {"idle", "checked"} => cur = "collector"
    /\ rpc = "listen" => cur # "simulator"

\* A return code belongs to a process that has exited, and 0 means that it wrote
\* its summary.  Only the simulator is interrupted while it writes it.
ReturnCodes ==
    \A c \in Child :
       /\ proc[c] = "exited" <=> rc[c] # "none"
       /\ rc[c] = "ok" => file[c] = "complete"
       /\ proc[c] = "finishing" => c = "simulator"

\* What the phases of run_once have established.
Phases ==
    /\ rpc = "stop" => rc["simulator"] = "ok" /\ cur # "simulator"
    /\ rpc = "cleanup" =>
          /\ cur # "simulator" => Gone("simulator")
          /\ cur = "collector" => Gone("gateway")
    /\ rpc \in {"summary", "returned"} => \A c \in Child : Gone(c)
    /\ rpc \notin {"cleanup", "summary", "returned", "raised"} =>
          status = "failed"
    /\ status = "success" => \A c \in Child : rc[c] = "ok"
    /\ cut => rpc = "raised"
    /\ rpc \notin {"returned", "raised"} => summary = "none"
    /\ rpc = "idle" => manifest = "none"
    /\ rpc = "raised" /\ ~cut =>
          /\ \A c \in Child : Gone(c)
          /\ summary # "success"
          /\ \/ manifest = "none"
             \/ \E c \in Child : file[c] = "truncated"
             \/ summary # "none"
    /\ rpc = "returned" => summary = "success" /\ status = "success"

ProcessInv == NotStarted /\ ReturnCodes /\ Phases

Bad(c) == rc[c] \in {"error", "killed"}

\* Where the readings are.  The last record written may be collected before its
\* drain() returns.  A connection is dead because of a line that was counted and
\* not appended, and with it everything behind that line is gone.
FlowInv ==
    /\ proc["gateway"] \in {"none", "booting", "up", "stopping"} =>
          flow.abandoned = 0
    /\ conn # "none" => proc["gateway"] \in {"up", "stopping"}
    /\ ~Bad("gateway") =>
          /\ flow.sent + flow.unsent + flow.abandoned = flow.accepted
          /\ flow.pending <= flow.unsent
          /\ proc["gateway"] \in {"writing", "exited"} => flow.unsent = 0
    /\ ~Bad("gateway") /\ ~Bad("collector") =>
          /\ flow.got <= flow.counted
          /\ \/ flow.got + flow.wire <= flow.sent + flow.pending
             \/ flow.got + flow.wire <= flow.sent + 1 /\ flow.abandoned > 0
          /\ flow.counted = flow.got =>
                flow.sent + flow.pending <= flow.got + flow.wire
          /\ conn = "dead" =>
                /\ flow.wire = 0
                /\ flow.got <= flow.sent
                /\ flow.counted # flow.got
    /\ ~Bad("collector") /\ proc["collector"] \in {"writing", "exited"} =>
          conn # "open" /\ flow.wire = 0

\* What the manifest says of the worktree the processes were started from.
WorktreeInv ==
    /\ rpc \in {"idle", "checked"} => ~strayed
    /\ rpc \notin {"idle", "checked", "raised"} => manifest # "none"
    /\ manifest # "none" /\ ~moved => tree = manifest
    /\ manifest = "frozen" /\ strayed => moved

RunInv == TypeInv /\ ProcessInv /\ FlowInv /\ WorktreeInv

EvidenceOf == [manifest : Tree, passed : BOOLEAN, missing : Int,
               unwritten : Int, strayed : BOOLEAN, moved : BOOLEAN]

CampaignInv ==
    /\ admitted \in Seq(EvidenceOf)
    /\ \A i \in DOMAIN admitted :
          /\ admitted[i].passed => admitted[i].missing = admitted[i].unwritten
          /\ admitted[i].manifest = "frozen" /\ admitted[i].strayed =>
                admitted[i].moved
    /\ accepted =>
          /\ cpc = "ended"
          /\ plan = "frozen"
          /\ Len(admitted) = Planned
          /\ \A i \in DOMAIN admitted : ValidRun(admitted[i])

IInv == RunInv /\ CampaignInv

-----------------------------------------------------------------------------
(* The steps of a run                                                       *)

USE DEF Child, ProcState, Flow, Conn, Tree, Phase, Gone, Exited

\* What is left of the state when process c has died.
DiedAlone(c) ==
    /\ proc' \in [Child -> ProcState] /\ proc'[c] = "exited"
    /\ rc' \in [Child -> {"none", "ok", "error", "killed"}]
    /\ file' \in [Child -> {"none", "truncated", "complete"}]
    /\ flow' \in Flow
    /\ conn' \in Conn
    /\ \A d \in Child \ {c} :
          proc'[d] = proc[d] /\ rc'[d] = rc[d] /\ file'[d] = file[d]

\* What SIGINT leaves as it is: what is gone, what was not started, the readings.
Signalled ==
    /\ proc' \in [Child -> ProcState]
    /\ rc' \in [Child -> {"none", "ok", "error", "killed"}]
    /\ file' \in [Child -> {"none", "truncated", "complete"}]
    /\ flow' = flow /\ conn' = conn
    /\ \A d \in Child :
          /\ Gone(d) =>
                proc'[d] = proc[d] /\ rc'[d] = rc[d] /\ file'[d] = file[d]
          /\ proc'[d] = "none" <=> proc[d] = "none"

\* A process that dies keeps the invariant's facts about processes and readings:
\* its return code is bad, so nothing more is claimed of the readings.
LEMMA DiesKeeps ==
    ASSUME RunInv, NEW c \in Child, ~Gone(c), NEW code \in {"error", "killed"},
           Dies(c, code)
    PROVE  DiedAlone(c) /\ ReturnCodes' /\ FlowInv'
<1>1. /\ proc' = [proc EXCEPT ![c] = "exited"] /\ rc' = [rc EXCEPT ![c] = code]
      /\ file' = [file EXCEPT ![c] =
                     IF proc[c] \in {"writing", "finishing"}
                     THEN "truncated" ELSE @]
  BY DEF Dies
<1>2. TypeInv /\ ReturnCodes /\ FlowInv
  BY DEF RunInv, ProcessInv
<1>3. /\ proc' \in [Child -> ProcState] /\ proc'[c] = "exited"
      /\ rc' \in [Child -> {"none", "ok", "error", "killed"}]
      /\ file' \in [Child -> {"none", "truncated", "complete"}]
      /\ conn' \in Conn
  <2>1. conn' \in {"none", conn, Cut(conn)}
    BY DEF Dies, traffic
  <2> QED  BY <1>1, <1>2, <2>1 DEF TypeInv, Cut
<1>4. \A d \in Child \ {c} :
         proc'[d] = proc[d] /\ rc'[d] = rc[d] /\ file'[d] = file[d]
  BY <1>1, <1>2 DEF TypeInv
<1>5. ReturnCodes'
  BY <1>1, <1>2 DEF TypeInv, ReturnCodes
<1>6. CASE c = "gateway"
  <2>1. /\ conn' = "none"
        /\ \E w \in 0 .. flow.wire :
              flow' = [flow EXCEPT !.unsent = 0, !.pending = 0, !.wire = w]
    BY <1>6 DEF Dies
  <2>2. flow' \in Flow
    <3>1. flow \in Flow
      BY <1>2 DEF TypeInv
    <3>2. PICK w \in 0 .. flow.wire :
             flow' = [flow EXCEPT !.unsent = 0, !.pending = 0, !.wire = w]
      BY <2>1
    <3>3. w \in Nat
      BY <3>1
    <3> QED  BY <3>1, <3>2, <3>3
  <2>3. FlowInv'
    BY <1>1, <1>2, <1>6, <2>1 DEF TypeInv, FlowInv, Bad
  <2> QED  BY <1>3, <1>4, <1>5, <2>2, <2>3 DEF DiedAlone
<1>7. CASE c = "collector"
  <2>1. flow' = [flow EXCEPT !.wire = 0] /\ conn' = Cut(conn)
    BY <1>7 DEF Dies
  <2>2. flow' \in Flow
    BY <1>2, <2>1 DEF TypeInv
  <2>3. FlowInv'
    BY <1>1, <1>2, <1>7, <2>1 DEF TypeInv, FlowInv, Bad, Cut
  <2> QED  BY <1>3, <1>4, <1>5, <2>2, <2>3 DEF DiedAlone
<1>8. CASE c = "simulator"
  <2>1. flow' = flow /\ conn' = conn
    BY <1>8 DEF Dies, traffic
  <2>2. FlowInv'
    BY <1>1, <1>2, <1>8, <2>1 DEF TypeInv, FlowInv, Bad
  <2> QED  BY <1>2, <1>3, <1>4, <1>5, <2>1, <2>2 DEF TypeInv, DiedAlone
<1> QED  BY <1>6, <1>7, <1>8

\* SIGINT ends no process that has not just been started, and starts none.
LEMMA SigIntKeeps ==
    ASSUME RunInv, NEW to \in SUBSET Child, SigInt(to)
    PROVE  Signalled /\ ReturnCodes' /\ FlowInv'
<1>1. TypeInv /\ ReturnCodes /\ FlowInv
  BY DEF RunInv, ProcessInv
<1>2. \A d \in Child : Interrupted(d) \in ProcState
  BY <1>1 DEF TypeInv, Interrupted
<1>3. proc' \in [Child -> ProcState]
  BY <1>1, <1>2 DEF TypeInv, SigInt
<1>4. \/ file' = file
      \/ /\ proc["simulator"] = "finishing"
         /\ \E f \in {"none", "truncated", "complete"} :
               file' = [file EXCEPT !["simulator"] = f]
  BY DEF SigInt
<1>5. /\ rc' \in [Child -> {"none", "ok", "error", "killed"}]
      /\ file' \in [Child -> {"none", "truncated", "complete"}]
      /\ flow' = flow /\ conn' = conn
  <2>1. file' \in [Child -> {"none", "truncated", "complete"}]
    BY <1>1, <1>4 DEF TypeInv
  <2> QED  BY <1>1, <2>1 DEF TypeInv, SigInt, traffic
<1>6. /\ proc' = [d \in Child |-> IF d \in to THEN Interrupted(d) ELSE proc[d]]
      /\ rc' = [d \in Child |->
                  IF d \in to /\ proc[d] = "booting" THEN "error" ELSE rc[d]]
      /\ \A d \in Child :
            proc[d] # "finishing" \/ d # "simulator" => file'[d] = file[d]
  BY <1>1, <1>4 DEF TypeInv, SigInt
<1>7. \A d \in Child :
         /\ Gone(d) =>
               proc'[d] = proc[d] /\ rc'[d] = rc[d] /\ file'[d] = file[d]
         /\ proc'[d] = "none" <=> proc[d] = "none"
  BY <1>1, <1>6 DEF TypeInv, Interrupted
<1>8. ReturnCodes'
  BY <1>1, <1>6 DEF TypeInv, ReturnCodes, Interrupted
<1>9. FlowInv'
  BY <1>1, <1>5, <1>6 DEF TypeInv, ReturnCodes, FlowInv, Bad, Interrupted
<1> QED  BY <1>3, <1>5, <1>7, <1>8, <1>9 DEF Signalled

\* A refused run has started nothing.
LEMMA ChecksWorktreeInv ==
    ASSUME RunInv, ChecksWorktree
    PROVE  RunInv'
<1> USE DEF ChecksWorktree, Dirty, children, traffic, worktree
<1>1. TypeInv'
  BY DEF RunInv, ProcessInv, TypeInv
<1>2. NotStarted'
  BY DEF RunInv, ProcessInv, TypeInv, NotStarted
<1>3. ReturnCodes'
  BY DEF RunInv, ProcessInv, TypeInv, NotStarted, ReturnCodes
<1>4. Phases'
  BY DEF RunInv, ProcessInv, TypeInv, NotStarted, ReturnCodes, Phases
<1>5. FlowInv'
  BY DEF RunInv, ProcessInv, TypeInv, NotStarted, ReturnCodes, FlowInv, Bad
<1>6. WorktreeInv'
  BY DEF RunInv, ProcessInv, TypeInv, NotStarted, WorktreeInv
<1> QED  BY <1>1, <1>2, <1>3, <1>4, <1>5, <1>6 DEF RunInv, ProcessInv

\* The manifest names the worktree of this moment.
LEMMA WritesManifestInv ==
    ASSUME RunInv, WritesManifest
    PROVE  RunInv'
<1> USE DEF WritesManifest, children, traffic, worktree
<1>1. TypeInv'
  BY DEF RunInv, ProcessInv, TypeInv
<1>2. NotStarted'
  BY DEF RunInv, ProcessInv, TypeInv, NotStarted
<1>3. ReturnCodes'
  BY DEF RunInv, ProcessInv, TypeInv, NotStarted, ReturnCodes
<1>4. Phases'
  BY DEF RunInv, ProcessInv, TypeInv, NotStarted, ReturnCodes, Phases
<1>5. FlowInv'
  BY DEF RunInv, ProcessInv, TypeInv, NotStarted, ReturnCodes, FlowInv, Bad
<1>6. WorktreeInv'
  BY DEF RunInv, ProcessInv, TypeInv, NotStarted, WorktreeInv
<1> QED  BY <1>1, <1>2, <1>3, <1>4, <1>5, <1>6 DEF RunInv, ProcessInv

\* The child that is started did not exist before, so no return code is lost.
LEMMA StartsChildInv ==
    ASSUME RunInv, StartsChild
    PROVE  RunInv'
<1> USE DEF StartsChild, traffic, worktree
<1>1. TypeInv'
  BY DEF RunInv, ProcessInv, TypeInv
<1>2. NotStarted'
  BY DEF RunInv, ProcessInv, TypeInv, NotStarted
<1>3. ReturnCodes'
  BY DEF RunInv, ProcessInv, TypeInv, NotStarted, ReturnCodes
<1>4. Phases'
  BY DEF RunInv, ProcessInv, TypeInv, NotStarted, ReturnCodes, Phases
<1>5. FlowInv'
  BY DEF RunInv, ProcessInv, TypeInv, NotStarted, ReturnCodes, FlowInv, Bad
<1>6. WorktreeInv'
  BY DEF RunInv, ProcessInv, TypeInv, NotStarted, WorktreeInv
<1> QED  BY <1>1, <1>2, <1>3, <1>4, <1>5, <1>6 DEF RunInv, ProcessInv

\* The cleanup begins with the last child.
LEMMA StartFailsInv ==
    ASSUME RunInv, StartFails
    PROVE  RunInv'
<1> USE DEF StartFails, ToCleanup, CleanupFirst, traffic, worktree
<1>1. TypeInv'
  BY DEF RunInv, ProcessInv, TypeInv
<1>2. NotStarted'
  BY DEF RunInv, ProcessInv, TypeInv, NotStarted
<1>3. ReturnCodes'
  BY DEF RunInv, ProcessInv, TypeInv, NotStarted, ReturnCodes
<1>4. Phases'
  BY DEF RunInv, ProcessInv, TypeInv, NotStarted, ReturnCodes, Phases
<1>5. FlowInv'
  BY DEF RunInv, ProcessInv, TypeInv, NotStarted, ReturnCodes, FlowInv, Bad
<1>6. WorktreeInv'
  BY DEF RunInv, ProcessInv, TypeInv, NotStarted, WorktreeInv
<1> QED  BY <1>1, <1>2, <1>3, <1>4, <1>5, <1>6 DEF RunInv, ProcessInv

\* The next child has not been started yet.
LEMMA PortAnswersInv ==
    ASSUME RunInv, PortAnswers
    PROVE  RunInv'
<1> USE DEF PortAnswers, children, traffic, worktree
<1>1. TypeInv'
  BY DEF RunInv, ProcessInv, TypeInv
<1>2. NotStarted'
  BY DEF RunInv, ProcessInv, TypeInv, NotStarted
<1>3. ReturnCodes'
  BY DEF RunInv, ProcessInv, TypeInv, NotStarted, ReturnCodes
<1>4. Phases'
  BY DEF RunInv, ProcessInv, TypeInv, NotStarted, ReturnCodes, Phases
<1>5. FlowInv'
  BY DEF RunInv, ProcessInv, TypeInv, NotStarted, ReturnCodes, FlowInv, Bad
<1>6. WorktreeInv'
  BY DEF RunInv, ProcessInv, TypeInv, NotStarted, WorktreeInv
<1> QED  BY <1>1, <1>2, <1>3, <1>4, <1>5, <1>6 DEF RunInv, ProcessInv

\* As StartFails, with the children started so far.
LEMMA PortFailsInv ==
    ASSUME RunInv, PortFails
    PROVE  RunInv'
<1> USE DEF PortFails, ToCleanup, CleanupFirst, children, traffic, worktree
<1>1. TypeInv'
  BY DEF RunInv, ProcessInv, TypeInv
<1>2. NotStarted'
  BY DEF RunInv, ProcessInv, TypeInv, NotStarted
<1>3. ReturnCodes'
  BY DEF RunInv, ProcessInv, TypeInv, NotStarted, ReturnCodes
<1>4. Phases'
  BY DEF RunInv, ProcessInv, TypeInv, NotStarted, ReturnCodes, Phases
<1>5. FlowInv'
  BY DEF RunInv, ProcessInv, TypeInv, NotStarted, ReturnCodes, FlowInv, Bad
<1>6. WorktreeInv'
  BY DEF RunInv, ProcessInv, TypeInv, NotStarted, WorktreeInv
<1> QED  BY <1>1, <1>2, <1>3, <1>4, <1>5, <1>6 DEF RunInv, ProcessInv

\* The stop phase is entered only with a simulator that exited with 0.
LEMMA MeasuredInv ==
    ASSUME RunInv, Measured
    PROVE  RunInv'
<1> USE DEF Measured, ToCleanup, CleanupFirst, children, traffic, worktree
<1>1. TypeInv'
  BY DEF RunInv, ProcessInv, TypeInv
<1>2. NotStarted'
  BY DEF RunInv, ProcessInv, TypeInv, NotStarted
<1>3. ReturnCodes'
  BY DEF RunInv, ProcessInv, TypeInv, NotStarted, ReturnCodes
<1>4. Phases'
  BY DEF RunInv, ProcessInv, TypeInv, NotStarted, ReturnCodes, Phases
<1>5. FlowInv'
  BY DEF RunInv, ProcessInv, TypeInv, NotStarted, ReturnCodes, FlowInv, Bad
<1>6. WorktreeInv'
  BY DEF RunInv, ProcessInv, TypeInv, NotStarted, WorktreeInv
<1> QED  BY <1>1, <1>2, <1>3, <1>4, <1>5, <1>6 DEF RunInv, ProcessInv

\* SIGINT from _stop_child.
LEMMA StopInterruptsInv ==
    ASSUME RunInv, StopInterrupts
    PROVE  RunInv'
<1> USE DEF StopInterrupts, Stopping, worktree
<1>0. Signalled /\ ReturnCodes' /\ FlowInv'
  BY SigIntKeeps DEF RunInv, TypeInv
<1>1. TypeInv'
  BY <1>0 DEF Signalled, RunInv, ProcessInv, TypeInv
<1>2. NotStarted'
  BY <1>0 DEF Signalled, RunInv, ProcessInv, TypeInv, NotStarted
<1>3. ReturnCodes'
  BY <1>0
<1>4. Phases'
  BY <1>0 DEF Signalled, RunInv, ProcessInv, TypeInv, NotStarted, ReturnCodes, Phases
<1>5. FlowInv'
  BY <1>0
<1>6. WorktreeInv'
  BY <1>0 DEF Signalled, RunInv, ProcessInv, TypeInv, NotStarted, WorktreeInv
<1> QED  BY <1>1, <1>2, <1>3, <1>4, <1>5, <1>6 DEF RunInv, ProcessInv

\* SIGTERM ends only the simulator, and with a bad return code.
LEMMA StopTerminatesInv ==
    ASSUME RunInv, StopTerminates
    PROVE  RunInv'
<1> USE DEF StopTerminates, Stopping, worktree
<1>0. cur \in Child
  BY DEF RunInv, TypeInv
<1>1. CASE cur # "simulator"
  <2>1. TypeInv'
    BY <1>1 DEF RunInv, ProcessInv, TypeInv, traffic
  <2>2. NotStarted' /\ ReturnCodes' /\ Phases'
    BY <1>1 DEF RunInv, ProcessInv, TypeInv, NotStarted, ReturnCodes, Phases, traffic
  <2>3. FlowInv' /\ WorktreeInv'
    BY <1>1 DEF RunInv, ProcessInv, TypeInv, FlowInv, Bad, WorktreeInv, traffic
  <2> QED  BY <2>1, <2>2, <2>3 DEF RunInv, ProcessInv
<1>2. CASE cur = "simulator"
  <2>0. DiedAlone(cur) /\ ReturnCodes' /\ FlowInv'
    BY <1>0, <1>2, DiesKeeps
  <2>1. TypeInv'
    BY <2>0 DEF DiedAlone, RunInv, TypeInv
  <2>2. NotStarted' /\ Phases'
    BY <1>2, <2>0 DEF DiedAlone, RunInv, ProcessInv, TypeInv, NotStarted,
       ReturnCodes, Phases
  <2>3. WorktreeInv'
    BY <2>0 DEF DiedAlone, RunInv, TypeInv, WorktreeInv
  <2> QED  BY <2>0, <2>1, <2>2, <2>3 DEF DiedAlone, RunInv, ProcessInv
<1> QED  BY <1>1, <1>2

\* SIGKILL leaves a bad return code.
LEMMA StopKillsInv ==
    ASSUME RunInv, StopKills
    PROVE  RunInv'
<1> USE DEF StopKills, Stopping, worktree
<1>0. DiedAlone(cur) /\ ReturnCodes' /\ FlowInv'
  BY DiesKeeps DEF RunInv, TypeInv
<1>1. TypeInv'
  BY <1>0 DEF DiedAlone, RunInv, ProcessInv, TypeInv
<1>2. NotStarted'
  BY <1>0 DEF DiedAlone, RunInv, ProcessInv, TypeInv, NotStarted
<1>3. ReturnCodes'
  BY <1>0
<1>4. Phases'
  BY <1>0 DEF DiedAlone, RunInv, ProcessInv, TypeInv, NotStarted, ReturnCodes, Phases
<1>5. FlowInv'
  BY <1>0
<1>6. WorktreeInv'
  BY <1>0 DEF DiedAlone, RunInv, ProcessInv, TypeInv, NotStarted, WorktreeInv
<1> QED  BY <1>1, <1>2, <1>3, <1>4, <1>5, <1>6 DEF RunInv, ProcessInv

\* Success needs the return codes of all three; in the cleanup the children that
\* were passed are gone.
LEMMA StopDoneInv ==
    ASSUME RunInv, StopDone
    PROVE  RunInv'
<1> USE DEF StopDone, Stopping, ReturncodesOk, ToCleanup, CleanupFirst, children,
           traffic, worktree
<1>1. TypeInv'
  BY DEF RunInv, ProcessInv, TypeInv
<1>2. NotStarted'
  BY DEF RunInv, ProcessInv, TypeInv, NotStarted
<1>3. ReturnCodes'
  BY DEF RunInv, ProcessInv, TypeInv, NotStarted, ReturnCodes
<1>4. Phases'
  BY DEF RunInv, ProcessInv, TypeInv, NotStarted, ReturnCodes, Phases
<1>5. FlowInv'
  BY DEF RunInv, ProcessInv, TypeInv, NotStarted, ReturnCodes, FlowInv, Bad
<1>6. WorktreeInv'
  BY DEF RunInv, ProcessInv, TypeInv, NotStarted, WorktreeInv
<1> QED  BY <1>1, <1>2, <1>3, <1>4, <1>5, <1>6 DEF RunInv, ProcessInv

\* run_summary.json carries the status.
LEMMA BuildsSummaryInv ==
    ASSUME RunInv, BuildsSummary
    PROVE  RunInv'
<1> USE DEF BuildsSummary, children, traffic, worktree
<1>1. TypeInv'
  BY DEF RunInv, ProcessInv, TypeInv
<1>2. NotStarted'
  BY DEF RunInv, ProcessInv, TypeInv, NotStarted
<1>3. ReturnCodes'
  BY DEF RunInv, ProcessInv, TypeInv, NotStarted, ReturnCodes
<1>4. Phases'
  BY DEF RunInv, ProcessInv, TypeInv, NotStarted, ReturnCodes, Phases
<1>5. FlowInv'
  BY DEF RunInv, ProcessInv, TypeInv, NotStarted, ReturnCodes, FlowInv, Bad
<1>6. WorktreeInv'
  BY DEF RunInv, ProcessInv, TypeInv, NotStarted, WorktreeInv
<1> QED  BY <1>1, <1>2, <1>3, <1>4, <1>5, <1>6 DEF RunInv, ProcessInv

\* Waiting changes nothing but the clock.
LEMMA TickInv ==
    ASSUME RunInv, Tick
    PROVE  RunInv'
<1> USE DEF Tick, Waiting, Stopping, traffic, worktree
<1>1. TypeInv'
  BY DEF RunInv, ProcessInv, TypeInv
<1>2. NotStarted'
  BY DEF RunInv, ProcessInv, TypeInv, NotStarted
<1>3. ReturnCodes'
  BY DEF RunInv, ProcessInv, TypeInv, NotStarted, ReturnCodes
<1>4. Phases'
  BY DEF RunInv, ProcessInv, TypeInv, NotStarted, ReturnCodes, Phases
<1>5. FlowInv'
  BY DEF RunInv, ProcessInv, TypeInv, NotStarted, ReturnCodes, FlowInv, Bad
<1>6. WorktreeInv'
  BY DEF RunInv, ProcessInv, TypeInv, NotStarted, WorktreeInv
<1> QED  BY <1>1, <1>2, <1>3, <1>4, <1>5, <1>6 DEF RunInv, ProcessInv

\* A Ctrl-C never makes a run successful.
LEMMA CtrlCInv ==
    ASSUME RunInv, CtrlC
    PROVE  RunInv'
<1> USE DEF CtrlC, Waiting, Stopping, ToCleanup, CleanupFirst, worktree
<1>0. Signalled /\ ReturnCodes' /\ FlowInv'
  BY SigIntKeeps DEF RunInv, TypeInv
<1>1. TypeInv'
  <2>1. status' \in {"failed", "interrupted", "success"} /\ cut' \in BOOLEAN
    BY DEF RunInv, TypeInv
  <2>2. rpc' \in Phase /\ cur' \in Child
    BY DEF RunInv, TypeInv
  <2> QED  BY <1>0, <2>1, <2>2 DEF Signalled, RunInv, TypeInv
<1>2. NotStarted'
  BY <1>0 DEF Signalled, RunInv, ProcessInv, TypeInv, NotStarted
<1>3. ReturnCodes'
  BY <1>0
<1>4. Phases'
  BY <1>0 DEF Signalled, RunInv, ProcessInv, TypeInv, NotStarted, ReturnCodes, Phases
<1>5. FlowInv'
  BY <1>0
<1>6. WorktreeInv'
  BY <1>0 DEF Signalled, RunInv, ProcessInv, TypeInv, NotStarted, WorktreeInv
<1> QED  BY <1>1, <1>2, <1>3, <1>4, <1>5, <1>6 DEF RunInv, ProcessInv

-----------------------------------------------------------------------------
(* The steps of the processes and of the surroundings                       *)

\* A process that starts from another worktree than the manifest's shows that the
\* worktree moved.
LEMMA ChildReadyInv ==
    ASSUME RunInv, NEW c \in Child, ChildReady(c), ~Over
    PROVE  RunInv'
<1> USE DEF Over, ChildReady, runner, traffic
<1>1. TypeInv'
  BY DEF RunInv, ProcessInv, TypeInv
<1>2. NotStarted'
  BY DEF RunInv, ProcessInv, TypeInv, NotStarted
<1>3. ReturnCodes'
  BY DEF RunInv, ProcessInv, TypeInv, NotStarted, ReturnCodes
<1>4. Phases'
  BY DEF RunInv, ProcessInv, TypeInv, NotStarted, ReturnCodes, Phases
<1>5. FlowInv'
  BY DEF RunInv, ProcessInv, TypeInv, NotStarted, ReturnCodes, FlowInv, Bad
<1>6. WorktreeInv'
  BY DEF RunInv, ProcessInv, TypeInv, NotStarted, WorktreeInv
<1> QED  BY <1>1, <1>2, <1>3, <1>4, <1>5, <1>6 DEF RunInv, ProcessInv

\* A process may die at any moment.
LEMMA ChildCrashesInv ==
    ASSUME RunInv, NEW c \in Child, ChildCrashes(c), ~Over
    PROVE  RunInv'
<1> USE DEF Over, ChildCrashes, runner, worktree
<1>0. DiedAlone(c) /\ ReturnCodes' /\ FlowInv'
  BY DiesKeeps
<1>1. TypeInv'
  BY <1>0 DEF DiedAlone, RunInv, ProcessInv, TypeInv
<1>2. NotStarted'
  BY <1>0 DEF DiedAlone, RunInv, ProcessInv, TypeInv, NotStarted
<1>3. ReturnCodes'
  BY <1>0
<1>4. Phases'
  BY <1>0 DEF DiedAlone, RunInv, ProcessInv, TypeInv, NotStarted, ReturnCodes, Phases
<1>5. FlowInv'
  BY <1>0
<1>6. WorktreeInv'
  BY <1>0 DEF DiedAlone, RunInv, ProcessInv, TypeInv, NotStarted, WorktreeInv
<1> QED  BY <1>1, <1>2, <1>3, <1>4, <1>5, <1>6 DEF RunInv, ProcessInv

\* A return code of 0 comes with a complete summary.
LEMMA ChildExitsInv ==
    ASSUME RunInv, NEW c \in Child, ChildExits(c), ~Over
    PROVE  RunInv'
<1> USE DEF Over, ChildExits, runner, traffic, worktree
<1>1. TypeInv'
  BY DEF RunInv, ProcessInv, TypeInv
<1>2. NotStarted'
  BY DEF RunInv, ProcessInv, TypeInv, NotStarted
<1>3. ReturnCodes'
  BY DEF RunInv, ProcessInv, TypeInv, NotStarted, ReturnCodes
<1>4. Phases'
  BY DEF RunInv, ProcessInv, TypeInv, NotStarted, ReturnCodes, Phases
<1>5. FlowInv'
  BY DEF RunInv, ProcessInv, TypeInv, NotStarted, ReturnCodes, FlowInv, Bad
<1>6. WorktreeInv'
  BY DEF RunInv, ProcessInv, TypeInv, NotStarted, WorktreeInv
<1> QED  BY <1>1, <1>2, <1>3, <1>4, <1>5, <1>6 DEF RunInv, ProcessInv

\* A step that moves readings has only FlowInv to keep.
LEMMA FlowStepInv ==
    ASSUME RunInv, UNCHANGED <<runner, children, worktree>>, flow' \in Flow,
           conn' \in Conn, FlowInv'
    PROVE  RunInv'
<1> USE DEF runner, children, worktree
<1>1. TypeInv'
  BY DEF RunInv, TypeInv
<1>2. NotStarted' /\ ReturnCodes'
  BY DEF RunInv, ProcessInv, NotStarted, ReturnCodes
<1>3. Phases' /\ WorktreeInv'
  BY DEF RunInv, ProcessInv, Phases, WorktreeInv
<1> QED  BY <1>1, <1>2, <1>3 DEF RunInv, ProcessInv

\* A reading is queued or dropped.
LEMMA SensorReadingInv ==
    ASSUME RunInv, SensorReading, ~Over
    PROVE  RunInv'
<1>0. /\ TypeInv /\ ReturnCodes /\ FlowInv /\ flow \in Flow /\ conn \in Conn
  BY DEF RunInv, ProcessInv, TypeInv
<1>1. /\ UNCHANGED <<runner, children, worktree>> /\ conn' = conn
      /\ \/ flow' = [flow EXCEPT !.accepted = @ + 1, !.unsent = @ + 1]
         \/ flow' = [flow EXCEPT !.dropped = @ + 1]
      /\ proc["gateway"] = "up"
  BY DEF SensorReading
<1>2. flow' \in Flow
  <2>1. /\ flow.accepted + 1 \in Nat
        /\ flow.unsent + 1 \in Nat
        /\ flow.dropped + 1 \in Nat
    BY <1>0
  <2> QED  BY <1>0, <1>1, <2>1
<1>3. FlowInv'
  <2>1. CASE flow' = [flow EXCEPT !.accepted = @ + 1, !.unsent = @ + 1]
    BY <1>0, <1>1, <2>1 DEF children, FlowInv, Bad
  <2>2. CASE flow' = [flow EXCEPT !.dropped = @ + 1]
    BY <1>0, <1>1, <2>2 DEF children, FlowInv, Bad
  <2> QED  BY <1>1, <2>1, <2>2
<1> QED  BY <1>0, <1>1, <1>2, <1>3, FlowStepInv

\* The simulator carries no readings of its own.
LEMMA SimulatorEndsInv ==
    ASSUME RunInv, SimulatorEnds, ~Over
    PROVE  RunInv'
<1> USE DEF Over, SimulatorEnds, runner, traffic, worktree
<1>1. TypeInv'
  BY DEF RunInv, ProcessInv, TypeInv
<1>2. NotStarted'
  BY DEF RunInv, ProcessInv, TypeInv, NotStarted
<1>3. ReturnCodes'
  BY DEF RunInv, ProcessInv, TypeInv, NotStarted, ReturnCodes
<1>4. Phases'
  BY DEF RunInv, ProcessInv, TypeInv, NotStarted, ReturnCodes, Phases
<1>5. FlowInv'
  BY DEF RunInv, ProcessInv, TypeInv, NotStarted, ReturnCodes, FlowInv, Bad
<1>6. WorktreeInv'
  BY DEF RunInv, ProcessInv, TypeInv, NotStarted, WorktreeInv
<1> QED  BY <1>1, <1>2, <1>3, <1>4, <1>5, <1>6 DEF RunInv, ProcessInv

\* Nor does an interrupted one.
LEMMA SimulatorUnwindsInv ==
    ASSUME RunInv, SimulatorUnwinds, ~Over
    PROVE  RunInv'
<1> USE DEF Over, SimulatorUnwinds, runner, traffic, worktree
<1>1. TypeInv'
  BY DEF RunInv, ProcessInv, TypeInv
<1>2. NotStarted'
  BY DEF RunInv, ProcessInv, TypeInv, NotStarted
<1>3. ReturnCodes'
  BY DEF RunInv, ProcessInv, TypeInv, NotStarted, ReturnCodes
<1>4. Phases'
  BY DEF RunInv, ProcessInv, TypeInv, NotStarted, ReturnCodes, Phases
<1>5. FlowInv'
  BY DEF RunInv, ProcessInv, TypeInv, NotStarted, ReturnCodes, FlowInv, Bad
<1>6. WorktreeInv'
  BY DEF RunInv, ProcessInv, TypeInv, NotStarted, WorktreeInv
<1> QED  BY <1>1, <1>2, <1>3, <1>4, <1>5, <1>6 DEF RunInv, ProcessInv

\* A record is written, never towards a collector that is done, and on a dead
\* connection it is lost.
LEMMA GatewayWritesInv ==
    ASSUME RunInv, GatewayWrites, ~Over
    PROVE  RunInv'
<1>0. /\ TypeInv /\ ReturnCodes /\ FlowInv /\ flow \in Flow /\ conn \in Conn
  BY DEF RunInv, ProcessInv, TypeInv
<1>1. /\ UNCHANGED <<runner, children, worktree>>
      /\ proc["gateway"] \in {"up", "stopping"}
      /\ flow.unsent > 0 /\ flow.pending = 0
      /\ conn # "none" \/ proc["collector"] = "up"
  BY DEF GatewayWrites
<1>2. CASE conn = "dead"
  <2>1. conn' = "dead" /\ flow' = [flow EXCEPT !.pending = 1]
    BY <1>0, <1>2 DEF GatewayWrites
  <2>2. flow' \in Flow
    BY <1>0, <2>1
  <2>3. FlowInv'
    BY <1>0, <1>1, <1>2, <2>1 DEF children, FlowInv, Bad
  <2> QED  BY <1>1, <2>1, <2>2, <2>3, FlowStepInv
<1>3. CASE conn # "dead"
  <2>1. conn' = "open" /\ flow' = [flow EXCEPT !.pending = 1, !.wire = @ + 1]
    BY <1>0, <1>3 DEF GatewayWrites
  <2>2. flow' \in Flow
    <3>1. flow.wire + 1 \in Nat
      BY <1>0
    <3> QED  BY <1>0, <2>1, <3>1
  <2>3. FlowInv'
    <3>1. ~Bad("collector") => proc["collector"] \notin {"writing", "exited"}
      BY <1>0, <1>1, <1>3 DEF FlowInv
    <3> QED  BY <1>0, <1>1, <2>1, <3>1 DEF children, FlowInv, Bad
  <2> QED  BY <1>1, <2>1, <2>2, <2>3, FlowStepInv
<1> QED  BY <1>2, <1>3

\* A record that was written is counted as sent.
LEMMA GatewayDrainsInv ==
    ASSUME RunInv, GatewayDrains, ~Over
    PROVE  RunInv'
<1>0. /\ TypeInv /\ ReturnCodes /\ FlowInv /\ flow \in Flow /\ conn \in Conn
  BY DEF RunInv, ProcessInv, TypeInv
<1>1. /\ UNCHANGED <<runner, children, worktree>> /\ conn' = conn
      /\ proc["gateway"] \in {"up", "stopping"}
      /\ flow.pending = 1
      /\ flow' = [flow EXCEPT !.pending = 0, !.unsent = @ - 1, !.sent = @ + 1]
  BY DEF GatewayDrains
<1>2. ~Bad("gateway")
  BY <1>0, <1>1 DEF ReturnCodes, Bad
<1>3. flow' \in Flow
  <2>1. flow.unsent - 1 \in Nat /\ flow.sent + 1 \in Nat
    BY <1>0, <1>1, <1>2 DEF FlowInv
  <2> QED  BY <1>0, <1>1, <2>1
<1>4. FlowInv'
  BY <1>0, <1>1, <1>2 DEF children, FlowInv, Bad
<1> QED  BY <1>0, <1>1, <1>3, <1>4, FlowStepInv

\* The unconfirmed record on a dead connection was not appended, so it may be
\* sent again.
LEMMA GatewayNoticesInv ==
    ASSUME RunInv, GatewayNotices, ~Over
    PROVE  RunInv'
<1>0. /\ TypeInv /\ ReturnCodes /\ FlowInv /\ flow \in Flow /\ conn \in Conn
  BY DEF RunInv, ProcessInv, TypeInv
<1>1. /\ UNCHANGED <<runner, children, worktree>> /\ conn = "dead" /\ conn' = "none"
      /\ flow' = [flow EXCEPT !.pending = 0]
  BY DEF GatewayNotices
<1>2. flow' \in Flow
  BY <1>0, <1>1
<1>3. FlowInv'
  BY <1>0, <1>1 DEF children, FlowInv, Bad
<1> QED  BY <1>1, <1>2, <1>3, FlowStepInv

\* What the forwarder gives up is counted, and at most one of it is on the wire.
LEMMA GatewayStopsInv ==
    ASSUME RunInv, GatewayStops, ~Over
    PROVE  RunInv'
<1>0. /\ TypeInv /\ NotStarted /\ ReturnCodes /\ Phases /\ FlowInv /\ WorktreeInv
      /\ flow \in Flow
  BY DEF RunInv, ProcessInv, TypeInv
<1>1. /\ proc["gateway"] = "stopping"
      /\ proc' = [proc EXCEPT !["gateway"] = "writing"]
      /\ conn' = "none"
      /\ UNCHANGED <<runner, rc, file, worktree>>
  BY DEF GatewayStops
<1>2. NotStarted' /\ ReturnCodes' /\ Phases'
  BY <1>0, <1>1 DEF TypeInv, NotStarted, ReturnCodes, Phases, runner
<1>3. flow' \in Flow => TypeInv' /\ WorktreeInv'
  BY <1>0, <1>1 DEF TypeInv, WorktreeInv, runner, worktree
<1>4. CASE flow.unsent = 0
  <2>1. flow' = flow
    BY <1>4 DEF GatewayStops
  <2>2. FlowInv'
    BY <1>0, <1>1, <1>4, <2>1 DEF TypeInv, ReturnCodes, FlowInv, Bad
  <2> QED  BY <1>0, <1>2, <1>3, <2>1, <2>2 DEF RunInv, ProcessInv
<1>5. CASE flow.unsent > 0
  <2>1. flow' = [flow EXCEPT !.abandoned = flow.unsent, !.unsent = 0,
                             !.pending = 0]
    BY <1>5 DEF GatewayStops
  <2>2. flow' \in Flow
    BY <1>0, <2>1
  <2>3. FlowInv'
    BY <1>0, <1>1, <1>5, <2>1 DEF TypeInv, ReturnCodes, FlowInv, Bad
  <2> QED  BY <1>2, <1>3, <2>2, <2>3 DEF RunInv, ProcessInv
<1> QED  BY <1>0, <1>4, <1>5

\* A record moves from the wire to the collector.
LEMMA CollectorReadsInv ==
    ASSUME RunInv, CollectorReads, ~Over
    PROVE  RunInv'
<1>0. /\ TypeInv /\ ReturnCodes /\ FlowInv /\ flow \in Flow /\ conn \in Conn
  BY DEF RunInv, ProcessInv, TypeInv
<1>1. /\ UNCHANGED <<runner, children, worktree>> /\ conn' = conn
      /\ flow.wire > 0
      /\ flow' = [flow EXCEPT !.wire = @ - 1, !.counted = @ + 1, !.got = @ + 1]
  BY DEF CollectorReads, CollectorHasLine
<1>2. flow' \in Flow
  <2>1. flow.wire - 1 \in Nat /\ flow.counted + 1 \in Nat /\ flow.got + 1 \in Nat
    BY <1>0, <1>1
  <2> QED  BY <1>0, <1>1, <2>1
<1>3. FlowInv'
  BY <1>0, <1>1 DEF children, FlowInv, Bad
<1> QED  BY <1>0, <1>1, <1>2, <1>3, FlowStepInv

\* A line that is counted and not appended makes the counters differ from the
\* file for good.
LEMMA CollectorAppendFailsInv ==
    ASSUME RunInv, CollectorAppendFails, ~Over
    PROVE  RunInv'
<1>0. /\ TypeInv /\ ReturnCodes /\ FlowInv /\ flow \in Flow /\ conn \in Conn
  BY DEF RunInv, ProcessInv, TypeInv
<1>1. /\ UNCHANGED <<runner, children, worktree>> /\ conn' = Cut(conn)
      /\ flow.wire > 0
      /\ flow' = [flow EXCEPT !.wire = 0, !.counted = @ + 1]
  BY DEF CollectorAppendFails, CollectorHasLine
<1>2. flow' \in Flow /\ conn' \in Conn
  <2>1. flow.counted + 1 \in Nat
    BY <1>0
  <2> QED  BY <1>0, <1>1, <2>1 DEF Cut
<1>3. FlowInv'
  BY <1>0, <1>1 DEF children, FlowInv, Bad, Cut
<1> QED  BY <1>1, <1>2, <1>3, FlowStepInv

\* The collector is done only when the connection is closed and empty.
LEMMA CollectorStopsInv ==
    ASSUME RunInv, CollectorStops, ~Over
    PROVE  RunInv'
<1> USE DEF Over, CollectorStops, runner, traffic, worktree
<1>1. TypeInv'
  BY DEF RunInv, ProcessInv, TypeInv
<1>2. NotStarted'
  BY DEF RunInv, ProcessInv, TypeInv, NotStarted
<1>3. ReturnCodes'
  BY DEF RunInv, ProcessInv, TypeInv, NotStarted, ReturnCodes
<1>4. Phases'
  BY DEF RunInv, ProcessInv, TypeInv, NotStarted, ReturnCodes, Phases
<1>5. FlowInv'
  BY DEF RunInv, ProcessInv, TypeInv, NotStarted, ReturnCodes, FlowInv, Bad
<1>6. WorktreeInv'
  BY DEF RunInv, ProcessInv, TypeInv, NotStarted, WorktreeInv
<1> QED  BY <1>1, <1>2, <1>3, <1>4, <1>5, <1>6 DEF RunInv, ProcessInv

\* A change during a run is remembered.
LEMMA WorktreeChangesInv ==
    ASSUME RunInv, WorktreeChanges
    PROVE  RunInv'
<1> USE DEF WorktreeChanges, runner, children, traffic
<1>1. TypeInv'
  BY DEF RunInv, ProcessInv, TypeInv
<1>2. NotStarted'
  BY DEF RunInv, ProcessInv, TypeInv, NotStarted
<1>3. ReturnCodes'
  BY DEF RunInv, ProcessInv, TypeInv, NotStarted, ReturnCodes
<1>4. Phases'
  BY DEF RunInv, ProcessInv, TypeInv, NotStarted, ReturnCodes, Phases
<1>5. FlowInv'
  BY DEF RunInv, ProcessInv, TypeInv, NotStarted, ReturnCodes, FlowInv, Bad
<1>6. WorktreeInv'
  BY DEF RunInv, ProcessInv, TypeInv, NotStarted, Phases, WorktreeInv
<1> QED  BY <1>1, <1>2, <1>3, <1>4, <1>5, <1>6 DEF RunInv, ProcessInv

-----------------------------------------------------------------------------
(* The campaign                                                             *)

RunStep ==
    RunnerStep \/ Tick \/ CtrlC \/ (~Over /\ ProcessStep) \/ WorktreeChanges

\* Every step of a run keeps the invariant.
LEMMA RunStepInv ==
    ASSUME RunInv, RunStep
    PROVE  RunInv'
<1>1. CASE RunnerStep
  BY <1>1, ChecksWorktreeInv, WritesManifestInv, StartsChildInv, StartFailsInv,
     PortAnswersInv, PortFailsInv, MeasuredInv, StopInterruptsInv,
     StopTerminatesInv, StopKillsInv, StopDoneInv, BuildsSummaryInv
     DEF RunnerStep
<1>2. CASE Tick
  BY <1>2, TickInv
<1>3. CASE CtrlC
  BY <1>3, CtrlCInv
<1>4. CASE ~Over /\ ProcessStep
  <2>1. CASE \E c \in Child : ChildReady(c) \/ ChildCrashes(c) \/ ChildExits(c)
    BY <1>4, <2>1, ChildReadyInv, ChildCrashesInv, ChildExitsInv
  <2>2. CASE \/ SensorReading \/ SimulatorEnds \/ SimulatorUnwinds
             \/ GatewayWrites \/ GatewayDrains \/ GatewayNotices \/ GatewayStops
             \/ CollectorReads \/ CollectorAppendFails \/ CollectorStops
    BY <1>4, <2>2, SensorReadingInv, SimulatorEndsInv, SimulatorUnwindsInv,
       GatewayWritesInv, GatewayDrainsInv, GatewayNoticesInv, GatewayStopsInv,
       CollectorReadsInv, CollectorAppendFailsInv, CollectorStopsInv
  <2> QED  BY <1>4, <2>1, <2>2 DEF ProcessStep
<1>5. CASE WorktreeChanges
  BY <1>5, WorktreeChangesInv
<1> QED  BY <1>1, <1>2, <1>3, <1>4, <1>5 DEF RunStep

\* The next run begins with the invariant.
LEMMA NewRunInv ==
    ASSUME RunInv, NewRun
    PROVE  RunInv'
<1> USE DEF NewRun, NoFlow
<1>1. TypeInv'
  BY DEF RunInv, TypeInv
<1>2. NotStarted' /\ ReturnCodes' /\ Phases'
  BY DEF NotStarted, ReturnCodes, Phases
<1>3. FlowInv' /\ WorktreeInv'
  BY DEF FlowInv, Bad, WorktreeInv
<1> QED  BY <1>1, <1>2, <1>3 DEF RunInv, ProcessInv

\* The campaign's own steps leave the run alone.
LEMMA UnchangedRunInv ==
    ASSUME RunInv, UNCHANGED run
    PROVE  RunInv'
<1> USE DEF run, runner, children, traffic, worktree
<1>1. TypeInv' /\ NotStarted' /\ ReturnCodes'
  BY DEF RunInv, ProcessInv, TypeInv, NotStarted, ReturnCodes
<1>2. Phases' /\ FlowInv' /\ WorktreeInv'
  BY DEF RunInv, ProcessInv, Phases, FlowInv, Bad, WorktreeInv
<1> QED  BY <1>1, <1>2 DEF RunInv, ProcessInv

\* The first run begins with the invariant.
LEMMA RunInvInitially == Init => RunInv
<1> SUFFICES ASSUME Init PROVE RunInv
  OBVIOUS
<1> USE DEF Init, RunInit, FreshRun, NoFlow
<1>1. TypeInv
  BY DEF TypeInv
<1>2. NotStarted /\ ReturnCodes /\ Phases
  BY DEF NotStarted, ReturnCodes, Phases
<1>3. FlowInv /\ WorktreeInv
  BY DEF FlowInv, Bad, WorktreeInv
<1> QED  BY <1>1, <1>2, <1>3 DEF RunInv, ProcessInv

\* The invariant of a run says that success is complete ...
LEMMA RunInvComplete ==
    ASSUME RunInv
    PROVE  SuccessIsComplete
<1> SUFFICES ASSUME status = "success"
             PROVE  /\ \A c \in Child : rc[c] = "ok" /\ file[c] = "complete"
                    /\ flow.sent + flow.abandoned = flow.accepted
                    /\ \/ flow.got <= flow.sent
                       \/ flow.got = flow.sent + 1 /\ flow.abandoned > 0
                    /\ flow.counted = flow.got => flow.sent <= flow.got
  BY DEF SuccessIsComplete
<1>1. \A c \in Child : rc[c] = "ok" /\ file[c] = "complete" /\ proc[c] = "exited"
  BY DEF RunInv, ProcessInv, TypeInv, ReturnCodes, Phases
<1>2. flow \in Flow
  BY DEF RunInv, TypeInv
<1>3. flow.unsent = 0 /\ flow.pending = 0 /\ flow.wire = 0
  BY <1>1, <1>2 DEF RunInv, FlowInv, Bad
<1>4. /\ flow.sent + flow.unsent + flow.abandoned = flow.accepted
      /\ \/ flow.got + flow.wire <= flow.sent + flow.pending
         \/ flow.got + flow.wire <= flow.sent + 1 /\ flow.abandoned > 0
      /\ flow.counted = flow.got => flow.sent + flow.pending <= flow.got + flow.wire
  BY <1>1 DEF RunInv, FlowInv, Bad
<1> QED  BY <1>1, <1>2, <1>3, <1>4

\* ... and that the cleanup is complete.
LEMMA RunInvCleanup ==
    ASSUME RunInv
    PROVE  CleanupComplete
BY DEF RunInv, ProcessInv, TypeInv, Phases, CleanupComplete, Over

\* What an analysed run leaves behind is sound.
LEMMA EvidenceSound ==
    ASSUME RunInv, rpc = "returned", Loadable
    PROVE  /\ Evidence \in EvidenceOf
           /\ Evidence.passed => Evidence.missing = Evidence.unwritten
           /\ Evidence.manifest = "frozen" /\ Evidence.strayed => Evidence.moved
<1>1. /\ flow \in Flow /\ manifest \in Tree
      /\ strayed \in BOOLEAN /\ moved \in BOOLEAN
      /\ manifest = "frozen" /\ strayed => moved
  BY DEF RunInv, TypeInv, WorktreeInv
<1>2. ScientificAdmission \in BOOLEAN
  BY DEF ScientificAdmission
<1>3. /\ flow.accepted + flow.dropped - flow.got \in Int
      /\ flow.counted - flow.got \in Int
  BY <1>1
<1>4. flow.sent + flow.abandoned = flow.accepted
  BY RunInvComplete DEF RunInv, ProcessInv, Phases, SuccessIsComplete
<1>5. ScientificAdmission =>
         flow.accepted + flow.dropped - flow.got = flow.counted - flow.got
  BY <1>1, <1>4 DEF ScientificAdmission
<1> QED  BY <1>1, <1>2, <1>3, <1>5 DEF Evidence, EvidenceOf

\* A campaign that goes on or ends keeps what it had.
LEMMA SameEvidence ==
    ASSUME CampaignInv, admitted' = admitted, plan' = plan, accepted' = accepted,
           cpc = "ended" => cpc' = "ended"
    PROVE  CampaignInv'
BY DEF CampaignInv, ValidRun, Commit, Dirty

\* Appending the evidence of a run keeps the campaign's invariant.
LEMMA AnalyzesInv ==
    ASSUME RunInv, CampaignInv, Analyzes
    PROVE  CampaignInv'
<1>1. /\ Evidence \in EvidenceOf
      /\ Evidence.passed => Evidence.missing = Evidence.unwritten
      /\ Evidence.manifest = "frozen" /\ Evidence.strayed => Evidence.moved
  BY EvidenceSound DEF Analyzes
<1>2. admitted' = Append(admitted, Evidence) /\ accepted' = accepted /\ ~accepted
  BY DEF Analyzes, CampaignInv
<1>3. admitted' \in Seq(EvidenceOf)
  BY <1>1, <1>2 DEF CampaignInv
<1>4. ASSUME NEW i \in DOMAIN admitted'
      PROVE  /\ admitted'[i].passed => admitted'[i].missing = admitted'[i].unwritten
             /\ admitted'[i].manifest = "frozen" /\ admitted'[i].strayed =>
                   admitted'[i].moved
  <2>1. admitted \in Seq(EvidenceOf)
    BY DEF CampaignInv
  <2>2. CASE i \in DOMAIN admitted
    <3>1. admitted'[i] = admitted[i]
      BY <1>1, <1>2, <2>1, <2>2
    <3> QED  BY <2>2, <3>1 DEF CampaignInv
  <2>3. CASE i \notin DOMAIN admitted
    <3>1. admitted'[i] = Evidence
      BY <1>1, <1>2, <2>1, <2>3
    <3> QED  BY <1>1, <3>1
  <2> QED  BY <2>2, <2>3
<1> QED  BY <1>2, <1>3, <1>4 DEF CampaignInv

\* A campaign is accepted with the checks of final_campaign.py.
LEMMA AcceptsInv ==
    ASSUME CampaignInv, Accepts
    PROVE  CampaignInv'
<1>1. /\ admitted' = admitted /\ plan' = plan /\ cpc' = "ended"
      /\ plan = "frozen" /\ Len(admitted) = Planned
      /\ \A i \in DOMAIN admitted : ValidRun(admitted[i])
  BY DEF Accepts, ValidHeaders
<1> QED  BY <1>1 DEF CampaignInv, ValidRun, Commit, Dirty

\* The invariant is inductive.
LEMMA Inductive ==
    ASSUME IInv, [Next]_vars
    PROVE  IInv'
<1>0. RunInv /\ CampaignInv
  BY DEF IInv
<1>1. CASE Plans
  <2>1. RunInv'
    BY <1>0, <1>1, UnchangedRunInv DEF Plans
  <2>2. ~accepted /\ admitted' = admitted /\ accepted' = accepted
    BY <1>0, <1>1 DEF Plans, CampaignInv
  <2>3. CampaignInv'
    BY <1>0, <2>2 DEF CampaignInv
  <2> QED  BY <2>1, <2>3 DEF IInv
<1>2. CASE /\ cpc = "running" /\ RunStep /\ UNCHANGED campaign
  BY <1>0, <1>2, RunStepInv, SameEvidence DEF IInv, campaign
<1>3. CASE RunFails
  BY <1>0, <1>3, UnchangedRunInv, SameEvidence DEF IInv, RunFails
<1>4. CASE Analyzes
  <2>1. UNCHANGED run \/ NewRun
    BY <1>4 DEF Analyzes
  <2> QED  BY <1>0, <1>4, <2>1, UnchangedRunInv, NewRunInv, AnalyzesInv DEF IInv
<1>5. CASE Accepts
  BY <1>0, <1>5, UnchangedRunInv, AcceptsInv DEF IInv, Accepts
<1>6. CASE UNCHANGED vars
  BY <1>0, <1>6, UnchangedRunInv, SameEvidence DEF IInv, vars, campaign
<1> QED  BY <1>1, <1>2, <1>3, <1>4, <1>5, <1>6 DEF Next, Runs, RunStep

\* The invariant holds throughout, which is what the theorems below rest on.
THEOREM Invariance == Spec => []IInv
<1>1. Init => IInv
  BY RunInvInitially DEF Init, IInv, CampaignInv
<1>2. IInv /\ [Next]_vars => IInv'
  BY Inductive
<1> QED  BY <1>1, <1>2, PTL DEF Spec

\* Whatever the timeouts, the queue and the mishaps: when run_once calls a run
\* successful, every child has written its summary and exited with 0, every
\* accepted reading was sent or is counted as abandoned, and the collector's
\* output has what was sent, unless it counted a line and failed to append it
\* (run_once, _stop_child, _ensure_success and the collector's stop()).
THEOREM RunComplete == Spec => []SuccessIsComplete
<1>1. IInv => SuccessIsComplete
  BY RunInvComplete DEF IInv
<1> QED  BY <1>1, Invariance, PTL

\* A run_once that is over, and was not hit by a Ctrl-C in its finally clause,
\* has left no process behind and says in run_summary.json how it ended, unless
\* a summary of a child was cut off.
THEOREM CleanupIsComplete == Spec => []CleanupComplete
<1>1. IInv => CleanupComplete
  BY RunInvCleanup DEF IInv
<1> QED  BY <1>1, Invariance, PTL

\* A campaign that final_campaign.py accepts has all its runs, misses no reading
\* but the ones whose append failed at the collector, and was executed by the
\* frozen commit, for any number of planned runs, unless the worktree was
\* changed during a run.
THEOREM CampaignSound == Spec => []AcceptedCampaignSound
<1>1. IInv => AcceptedCampaignSound
  <2> SUFFICES ASSUME IInv, accepted, NEW i \in DOMAIN admitted
               PROVE  /\ Len(admitted) = Planned
                      /\ admitted[i].missing = admitted[i].unwritten
                      /\ admitted[i].manifest = "frozen"
                      /\ admitted[i].strayed => admitted[i].moved
    BY DEF AcceptedCampaignSound, IInv, CampaignInv
  <2>1. admitted[i] \in EvidenceOf
    BY DEF IInv, CampaignInv
  <2>2. ValidRun(admitted[i]) /\ plan = "frozen" /\ Len(admitted) = Planned
    BY DEF IInv, CampaignInv
  <2>3. admitted[i].manifest = "frozen"
    BY <2>1, <2>2 DEF ValidRun, Commit, Dirty, EvidenceOf
  <2> QED  BY <2>2, <2>3 DEF IInv, CampaignInv, ValidRun
<1> QED  BY <1>1, Invariance, PTL
=============================================================================
