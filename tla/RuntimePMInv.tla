---------------------------- MODULE RuntimePMInv ----------------------------
(***************************************************************************)
(* The inductive invariants of RuntimePM.  IInv says how many calls under  *)
(* way are of each kind and relates these numbers to the fields of the     *)
(* devices; the others rest on it.                                         *)
(***************************************************************************)
EXTENDS RuntimePM

One(P) == IF P THEN 1 ELSE 0

(***************************************************************************)
(* Frames and counts of a function S from actors to stacks.                *)
(***************************************************************************)

FramesOf(S) == UNION {{a} \X (1 .. Len(S[a])) : a \in Actors}
FrameOf(S, f) == S[f[1]][Len(S[f[1]]) + 1 - f[2]]
CountedIn(S, P) == {f \in FramesOf(S) : FrameOf(S, f) \in P}
CountIn(S, P) == Cardinality(CountedIn(S, P))

Stacks == [Actors -> Seq(FrameType)]

(* The calls under way that are of the kind P, a set of frames.            *)
Count(P) == CountIn(stack, P)

InSuspend(d) == {f \in FrameType : f.at = "suspend_cb" /\ f.dev = d}
InResume(d) == {f \in FrameType : f.at = "resume_cb" /\ f.dev = d}

(* Calls that hold a usage reference: of a child on its parent, and of a   *)
(* barrier.                                                                *)
BarrierAts == {"barrier_enter", "barrier", "cancel", "cancelled", "barrier_wait"}
OnParent(d) == {f \in FrameType : f.par /\ Parent[f.dev] = d}
InBarrier(d) == {f \in FrameType : /\ f.dev = d
                                   /\ \/ f.at = "disable_resumed"
                                      \/ f.flags = {} /\ f.at \in BarrierAts}

(* Calls of pm_runtime_disable that have raised disable_depth from zero    *)
(* and are in their barrier; the tasks whose disable has returned.         *)
DepthRaised(d) == {f \in FrameType : /\ f.dev = d /\ "DISABLE" \in f.flags
                                     /\ f.at \in BarrierAts}
Disablers(d) == {t \in Tasks : d \in disabled[t]}

(***************************************************************************)
(* The invariant.                                                          *)
(***************************************************************************)

ResumeAts == {"resume", "resume_wait", "resume_parent", "resume_parent_ret", "resume_cb",
              "resume_put", "resume_put_idle"}

(* The frames there can be: a reference on the parent is held from         *)
(* resume_parent to resume_put, and flags go with the function.            *)
GoodFrame == {f \in FrameType :
  /\ f.par => f.at \in ResumeAts \ {"resume_put_idle"} /\ Parent[f.dev] # NULL
  /\ f.at \in {"resume_parent", "resume_parent_ret", "resume_put"} => f.par
  /\ f.at = "resume_cb" /\ Parent[f.dev] # NULL => f.par
  /\ f.at \in {"suspend_notify", "resume_put_idle"} => Parent[f.dev] # NULL
  /\ f.at \in {"disable", "disable_resumed"} => "DISABLE" \in f.flags
  /\ "DISABLE" \in f.flags =>
       /\ f.at \in {"disable", "disable_resumed"} \cup (BarrierAts \ {"barrier_enter"})
       /\ "disable" \in Settings /\ f.dev \in Targets
  /\ f.at \in BarrierAts => f.flags = {} \/ "DISABLE" \in f.flags}

(* Those that the actor a can have.                                        *)
OwnFrame(a) == {f \in GoodFrame :
  "GET_PUT" \in f.flags /\ f.at \in ResumeAts => a \in Tasks /\ f.dev \in refs[a]}

StackInv == \A a \in Actors : stack[a] \in Seq(OwnFrame(a))

CallbackInv == \A d \in Devices :
  /\ Count(InSuspend(d)) = One(power[d].status = "SUSPENDING")
  /\ Count(InResume(d)) = One(power[d].status = "RESUMING")

(* disable_depth stands for every disable, returned or in its barrier.     *)
DepthInv == \A d \in Devices :
  power[d].depth >= Cardinality(Disablers(d)) + Count(DepthRaised(d))

(* A device in error, or disabled with no barrier left, is in no callback. *)
RestInv == \A d \in Devices :
  power[d].error \/ (power[d].depth # 0 /\ Count(DepthRaised(d)) = 0) => ~Changing(power[d])

(* The children of u that its child_count counts.                          *)
Up(u) == {d \in Devices : Parent[d] = u /\ power[d].status \in {"ACTIVE", "SUSPENDING"}}
ChildInv == \A u \in Devices : power[u].children = Cardinality(Up(u))

(* The references: of users; of pm_runtime_forbid() and of a negative      *)
(* autosuspend delay; of calls.                                            *)
Fixed(p) == (IF p.auto THEN 0 ELSE 1) + (IF p.autosuspend = "never" THEN 1 ELSE 0)
Users(d) == {t \in Tasks : d \in refs[t]}
UsageInv == \A d \in Devices :
  power[d].usage = Cardinality(Users(d)) + Count(OnParent(d)) + Count(InBarrier(d))
                     + Fixed(power[d])

HeldInv == \A t \in Tasks : held[t] \subseteq refs[t]

IInv == /\ TypeOK /\ StackInv /\ CallbackInv /\ DepthInv /\ RestInv
        /\ ChildInv /\ UsageInv /\ HeldInv /\ HeldIsActive

(* Without pm_runtime_set_active: the parent of an enabled device is       *)
(* enabled; a call that holds a reference on the parent has found it       *)
(* enabled, and active if it has gone on from there.                       *)
SafeFrame == {f \in FrameType : f.par =>
  /\ power[Parent[f.dev]].depth = 0
  /\ (f.at \in {"resume", "resume_wait"} /\ Parent[f.dev] \notin IgnoreChildren)
       => power[Parent[f.dev]].status = "ACTIVE"}

ParentInv ==
  /\ ParentActive
  /\ \A d \in Devices : Parent[d] # NULL /\ power[d].depth = 0 => power[Parent[d]].depth = 0
  /\ \A a \in Actors : stack[a] \in Seq(SafeFrame)

(* A device that has children is not disabled.                             *)
Childless == "disable" \in Settings => \A c \in Devices : Parent[c] \notin Targets

(***************************************************************************)
(* A disabled device.  While disable_depth is raised nothing sets a        *)
(* request, the timer or the idle mark; a disable has dealt with the timer *)
(* and then with the request by the time it waits for the rest.            *)
(***************************************************************************)

QuietAts == {"cancel", "cancelled", "barrier_wait"}
QuietFrame == {f \in FrameType : "DISABLE" \in f.flags =>
  /\ f.at \in QuietAts => power[f.dev].timer = "off"
  /\ f.at = "barrier_wait" => ~power[f.dev].pending}

AtRest(p) == ~p.idle /\ ~p.pending /\ p.timer = "off"

(* The disable that raised disable_depth of d is in its barrier.           *)
Raising(d) == \E t \in Tasks : stack[t] # <<>> /\ Top(t) \in DepthRaised(d)

QuietInv ==
  /\ \A d \in Devices : power[d].depth # 0 => AtRest(power[d]) \/ Raising(d)
  /\ \A a \in Actors : stack[a] \in Seq(QuietFrame)

(***************************************************************************)
(* The wait queues.  Whatever a sleeper waits for goes on until the step   *)
(* that wakes it, or the step that fails to is on record.                  *)
(***************************************************************************)

WaitAts == {"suspend_wait", "resume_wait", "barrier_wait"}
WaitsFor(f, p) == /\ f.at \in WaitAts
                  /\ \/ p.unwoken
                     \/ /\ f.at = "suspend_wait" => p.status = "SUSPENDING"
                        /\ f.at = "resume_wait" => Changing(p)
                        /\ f.at = "barrier_wait" => Busy(p)

WaitInv ==
  \A b \in asleep : stack[b] # <<>> /\ WaitsFor(Head(stack[b]), power[Head(stack[b]).dev])

(***************************************************************************)
(* Requests and their work items.  A request is pending with its work item *)
(* under way, or a barrier is cancelling that work item, or has done so.   *)
(***************************************************************************)

CancelAts == {"cancel", "cancelled"}

(* Where a call waits for its callee.                                      *)
CallerFrame == {f \in FrameType :
  f.at \in {"idle_end", "resume_parent_ret", "disable_resumed", "barrier"}}
Orderly(s) == s # <<>> => Tail(s) \in Seq(CallerFrame)

(* The work function of d is about to look.                                *)
Looking(d) == stack[d] # <<>> /\ Head(stack[d]).at = "work"

Asked(d) ==
  /\ power[d].request # "NONE" => power[d].swallowed \/ power[d].pending
  /\ power[d].pending => power[d].work = "queued" \/ Looking(d) \/ Cancelling(d)
  /\ power[d].work = "grabbed" => Cancelling(d)

RequestInv == /\ \A a \in Actors : Orderly(stack[a])
              /\ \A d \in Devices : Asked(d)

=============================================================================
