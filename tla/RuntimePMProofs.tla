-------------------------- MODULE RuntimePMProofs --------------------------
(***************************************************************************)
(* Proofs about RuntimePM, for any tree of devices, any tasks and any      *)
(* calls.  Most of the invariant says how many calls under way are of some *)
(* kind, so each action is looked at for the frames it adds and removes.   *)
(***************************************************************************)
EXTENDS RuntimePMInv, FiniteSetTheorems, SequenceTheorems, TLAPS

(***************************************************************************)
(* Counting frames.                                                        *)
(***************************************************************************)

LEMMA ActorsFinite == IsFiniteSet(Actors)
<1>1. IsFiniteSet(Tasks \cup Devices)  BY PMAssumption, FS_Union
<1> QED  BY <1>1, FS_AddElement DEF Actors

(* There are finitely many calls under way.                                *)
LEMMA FramesFinite ==
  ASSUME NEW S \in Stacks
  PROVE  IsFiniteSet(FramesOf(S))
<1> DEFINE Of(a) == {a} \X (1 .. Len(S[a]))
           X == {Of(a) : a \in Actors}
<1>1. IsFiniteSet(X)
  <2> DEFINE h == [a \in Actors |-> Of(a)]
  <2>1. h \in Surjection(Actors, X)
    <3> HIDE DEF Of
    <3> QED  BY DEF Surjection
  <2> HIDE DEF h, X
  <2> QED  BY <2>1, ActorsFinite, FS_Surjection
<1>2. ASSUME NEW x \in X PROVE IsFiniteSet(x)
  <2>1. PICK a \in Actors : x = Of(a)  OBVIOUS
  <2>2. Len(S[a]) \in Nat  BY LenProperties DEF Stacks
  <2>3. 1 \in Int /\ Len(S[a]) \in Int  BY <2>2
  <2>4. IsFiniteSet({a}) /\ IsFiniteSet(1 .. Len(S[a]))
    BY <2>3, FS_Singleton, FS_Interval, Zenon
  <2> QED  BY <2>1, <2>4, FS_Product
<1>3. IsFiniteSet(UNION X)  BY <1>1, <1>2, FS_UNION
<1> QED  BY <1>3 DEF FramesOf

LEMMA CountType ==
  ASSUME NEW S \in Stacks, NEW P
  PROVE  IsFiniteSet(CountedIn(S, P)) /\ CountIn(S, P) \in Nat
<1>1. CountedIn(S, P) \subseteq FramesOf(S)  BY DEF CountedIn
<1> QED  BY <1>1, FramesFinite, FS_Subset, FS_CardinalityType DEF CountIn

(* A frame that is pushed is counted, and no other is counted otherwise.   *)
LEMMA PushFrame ==
  ASSUME NEW S \in Stacks, NEW a \in Actors, NEW f \in FrameType, NEW P
  PROVE  LET T == [S EXCEPT ![a] = <<f>> \o S[a]]
         IN T \in Stacks /\ CountIn(T, P) = CountIn(S, P) + One(f \in P)
<1> DEFINE T == [S EXCEPT ![a] = <<f>> \o S[a]]
           n == Len(S[a]) + 1
           g == <<a, n>>
<1>1. S[a] \in Seq(FrameType) /\ Len(S[a]) \in Nat  BY LenProperties DEF Stacks
<1>2. /\ T[a] = <<f>> \o S[a] /\ T[a] \in Seq(FrameType)
      /\ Len(T[a]) = n /\ T[a][1] = f
      /\ \A i \in 1 .. Len(S[a]) : T[a][i + 1] = S[a][i]
  <2>1. T[a] = <<f>> \o S[a]  BY DEF Stacks
  <2>2. <<f>> \in Seq(FrameType) /\ Len(<<f>>) = 1 /\ <<f>>[1] = f  OBVIOUS
  <2> HIDE DEF T
  <2> QED  BY <1>1, <2>1, <2>2
<1>3. \A b \in Actors : b # a => T[b] = S[b]  BY DEF Stacks
<1>4. T \in Stacks  BY <1>2 DEF Stacks
<1> HIDE DEF T
<1>5. FramesOf(T) = FramesOf(S) \cup {g}
  <2>1. ASSUME NEW x PROVE x \in FramesOf(T) <=> x \in FramesOf(S) \cup {g}
    <3>1. x \in FramesOf(T) <=> \E b \in Actors : x \in {b} \X (1 .. Len(T[b]))  BY DEF FramesOf
    <3>2. x \in FramesOf(S) <=> \E b \in Actors : x \in {b} \X (1 .. Len(S[b]))  BY DEF FramesOf
    <3>3. ({a} \X (1 .. Len(T[a]))) = ({a} \X (1 .. Len(S[a]))) \cup {g}
      BY <1>1, <1>2
    <3> QED  BY <1>3, <3>1, <3>2, <3>3
  <2> QED  BY <2>1
<1>6. g \notin FramesOf(S)  BY <1>1 DEF FramesOf
<1>7. FrameOf(T, g) = f  BY <1>1, <1>2 DEF FrameOf
<1>8. ASSUME NEW x \in FramesOf(S) PROVE FrameOf(T, x) = FrameOf(S, x)
  <2>1. PICK b \in Actors : x \in {b} \X (1 .. Len(S[b]))  BY DEF FramesOf
  <2>2. x[1] = b /\ x[2] \in 1 .. Len(S[b])  BY <2>1
  <2>3. CASE b = a
    <3>1. Len(S[a]) + 1 - x[2] \in 1 .. Len(S[a])  BY <1>1, <2>2, <2>3
    <3>2. (Len(S[a]) + 1 - x[2]) + 1 = Len(T[a]) + 1 - x[2]  BY <1>1, <1>2, <2>2, <2>3
    <3> QED  BY <1>2, <2>2, <2>3, <3>1, <3>2 DEF FrameOf
  <2>4. CASE b # a  BY <1>3, <2>2, <2>4 DEF FrameOf
  <2> QED  BY <2>3, <2>4
<1>9. CASE f \in P
  <2>1. CountedIn(T, P) = CountedIn(S, P) \cup {g}
    BY <1>5, <1>7, <1>8, <1>9 DEF CountedIn
  <2>2. g \notin CountedIn(S, P)  BY <1>6 DEF CountedIn
  <2>3. CountIn(T, P) = CountIn(S, P) + 1
    BY <2>1, <2>2, CountType, FS_AddElement DEF CountIn
  <2> QED  BY <1>4, <1>9, <2>3 DEF One, T
<1>10. CASE f \notin P
  <2>1. CountedIn(T, P) = CountedIn(S, P)
    BY <1>5, <1>7, <1>8, <1>10 DEF CountedIn
  <2>2. CountIn(T, P) = CountIn(S, P) + 0  BY <2>1, CountType DEF CountIn
  <2> QED  BY <1>4, <1>10, <2>2 DEF One, T
<1> QED  BY <1>9, <1>10

(* A frame that is popped is counted no more.                              *)
LEMMA PopFrame ==
  ASSUME NEW S \in Stacks, NEW a \in Actors, S[a] # <<>>, NEW P
  PROVE  LET R == [S EXCEPT ![a] = Tail(S[a])]
         IN R \in Stacks /\ CountIn(S, P) = CountIn(R, P) + One(Head(S[a]) \in P)
<1> DEFINE R == [S EXCEPT ![a] = Tail(S[a])]
           T == [R EXCEPT ![a] = <<Head(S[a])>> \o R[a]]
<1>1. S[a] \in Seq(FrameType)  BY DEF Stacks
<1>2. Head(S[a]) \in FrameType /\ Tail(S[a]) \in Seq(FrameType)
  BY <1>1, HeadTailProperties
<1>3. R \in Stacks /\ R[a] = Tail(S[a])  BY <1>2 DEF Stacks
<1>4. S[a] = <<Head(S[a])>> \o Tail(S[a])  BY <1>1
<1>5. T = S
  BY <1>3, <1>4 DEF Stacks
<1>6. T \in Stacks /\ CountIn(T, P) = CountIn(R, P) + One(Head(S[a]) \in P)
  <2> HIDE DEF R
  <2> QED  BY <1>2, <1>3, PushFrame
<1> QED  BY <1>3, <1>5, <1>6

(***************************************************************************)
(* What the four ways to change a stack do to it, and to every count.      *)
(***************************************************************************)

LEMMA TopType ==
  ASSUME TypeOK, StackInv, NEW a \in Actors, stack[a] # <<>>
  PROVE  /\ Top(a) \in OwnFrame(a) /\ Top(a) \in GoodFrame /\ Top(a) \in FrameType
         /\ Tail(stack[a]) \in Seq(OwnFrame(a))
         /\ stack \in Stacks
<1>1. stack[a] \in Seq(OwnFrame(a))  BY DEF StackInv
<1>2. Head(stack[a]) \in OwnFrame(a) /\ Tail(stack[a]) \in Seq(OwnFrame(a))
  <2> HIDE DEF OwnFrame
  <2> QED  BY <1>1, HeadTailProperties
<1> QED  BY <1>2 DEF Top, OwnFrame, GoodFrame, TypeOK, Stacks

(* A frame that is there is counted.                                       *)
LEMMA TopCounted ==
  ASSUME TypeOK, StackInv, NEW a \in Actors, stack[a] # <<>>, NEW P, Top(a) \in P
  PROVE  Count(P) \in Nat /\ Count(P) >= 1
<1> DEFINE R == [stack EXCEPT ![a] = Tail(stack[a])]
<1>1. stack \in Stacks  BY TopType
<1>2. R \in Stacks /\ CountIn(stack, P) = CountIn(R, P) + One(Head(stack[a]) \in P)
  BY <1>1, PopFrame
<1>3. CountIn(R, P) \in Nat /\ CountIn(stack, P) \in Nat
  <2> HIDE DEF R
  <2> QED  BY <1>1, <1>2, CountType
<1> QED  BY <1>2, <1>3 DEF Count, Top, One

LEMMA OwnStacks ==
  ASSUME TypeOK, StackInv, NEW a \in Actors, refs' = refs,
         NEW s \in Seq(OwnFrame(a)), stack' = [stack EXCEPT ![a] = s]
  PROVE  stack' \in Stacks /\ StackInv' /\ \A b \in Actors : OwnFrame(b)' = OwnFrame(b)
<1>1. \A b \in Actors : OwnFrame(b)' = OwnFrame(b)  BY DEF OwnFrame
<1>2. \A b \in Actors : OwnFrame(b) \subseteq FrameType  BY DEF OwnFrame, GoodFrame
<1>3. s \in Seq(FrameType)  BY <1>2, SeqMonotonic, Zenon
<1>4. stack' \in Stacks  BY <1>3 DEF TypeOK, Stacks
<1>5. \A b \in Actors : stack'[b] \in Seq(OwnFrame(b))
  <2> HIDE DEF OwnFrame
  <2> QED  BY DEF StackInv, TypeOK
<1> QED  BY <1>1, <1>4, <1>5 DEF StackInv

LEMMA BecomeEffect ==
  ASSUME TypeOK, StackInv, NEW a \in Actors, stack[a] # <<>>,
         NEW f \in OwnFrame(a), Become(a, f), refs' = refs
  PROVE  /\ stack' \in Stacks /\ StackInv'
         /\ \A P : /\ Count(P) \in Nat /\ Count(P)' \in Nat
                   /\ Count(P)' = Count(P) + One(f \in P) - One(Top(a) \in P)
<1> DEFINE R == [stack EXCEPT ![a] = Tail(stack[a])]
           T == [R EXCEPT ![a] = <<f>> \o R[a]]
<1>1. stack \in Stacks /\ Tail(stack[a]) \in Seq(OwnFrame(a)) /\ f \in FrameType
  BY TopType DEF OwnFrame, GoodFrame
<1>2. R \in Stacks  BY <1>1, PopFrame
<1>3. R[a] = Tail(stack[a])  BY <1>1 DEF Stacks
<1>4. stack' = T  BY <1>1, <1>3 DEF Become, Stacks
<1>5. ASSUME NEW P
      PROVE  /\ Count(P) \in Nat /\ Count(P)' \in Nat
             /\ Count(P)' = Count(P) + One(f \in P) - One(Top(a) \in P)
  <2>1. CountIn(stack, P) = CountIn(R, P) + One(Top(a) \in P)  BY <1>1, PopFrame DEF Top
  <2> HIDE DEF R
  <2>2. T \in Stacks /\ CountIn(T, P) = CountIn(R, P) + One(f \in P)  BY <1>1, <1>2, PushFrame, ZenonT(30)
  <2> HIDE DEF T
  <2>3. CountIn(R, P) \in Nat /\ CountIn(T, P) \in Nat /\ CountIn(stack, P) \in Nat
    BY <1>1, <1>2, <2>2, CountType
  <2>4. Count(P)' = CountIn(T, P)  BY <1>4 DEF Count, CountIn, CountedIn, FramesOf, FrameOf
  <2> QED  BY <2>1, <2>2, <2>3, <2>4 DEF Count, One
<1>6. <<f>> \o Tail(stack[a]) \in Seq(OwnFrame(a))
  <2> HIDE DEF OwnFrame
  <2> QED  BY <1>1
<1> QED  BY <1>5, <1>6, OwnStacks DEF Become

LEMMA ReturnEffect ==
  ASSUME TypeOK, StackInv, NEW a \in Actors, stack[a] # <<>>,
         stack' = [stack EXCEPT ![a] = Tail(stack[a])], refs' = refs
  PROVE  /\ stack' \in Stacks /\ StackInv'
         /\ \A P : /\ Count(P) \in Nat /\ Count(P)' \in Nat
                   /\ Count(P)' = Count(P) - One(Top(a) \in P)
<1> DEFINE R == [stack EXCEPT ![a] = Tail(stack[a])]
<1>1. stack \in Stacks /\ Tail(stack[a]) \in Seq(OwnFrame(a))
  BY TopType
<1>2. R \in Stacks  BY <1>1, PopFrame
<1>5. ASSUME NEW P
      PROVE  /\ Count(P) \in Nat /\ Count(P)' \in Nat
             /\ Count(P)' = Count(P) - One(Top(a) \in P)
  <2>1. CountIn(stack, P) = CountIn(R, P) + One(Top(a) \in P)  BY <1>1, PopFrame DEF Top
  <2>2. stack' = R  OBVIOUS
  <2> HIDE DEF R
  <2>3. CountIn(R, P) \in Nat /\ CountIn(stack, P) \in Nat
    BY <1>1, <1>2, CountType
  <2>4. Count(P)' = CountIn(R, P)  BY <2>2 DEF Count, CountIn, CountedIn, FramesOf, FrameOf
  <2> QED  BY <2>1, <2>3, <2>4 DEF Count, One
<1> QED  BY <1>1, <1>5, OwnStacks

LEMMA CallEffect ==
  ASSUME TypeOK, StackInv, NEW a \in Actors, stack[a] # <<>>, NEW at,
         [Top(a) EXCEPT !.at = at] \in OwnFrame(a),
         NEW f \in OwnFrame(a), Call(a, at, f), refs' = refs
  PROVE  /\ stack' \in Stacks /\ StackInv'
         /\ \A P : /\ Count(P) \in Nat /\ Count(P)' \in Nat
                   /\ Count(P)' = Count(P) + One([Top(a) EXCEPT !.at = at] \in P)
                                    + One(f \in P) - One(Top(a) \in P)
<1> DEFINE g == [Top(a) EXCEPT !.at = at]
           R == [stack EXCEPT ![a] = Tail(stack[a])]
           T == [R EXCEPT ![a] = <<g>> \o R[a]]
           U == [T EXCEPT ![a] = <<f>> \o T[a]]
<1>1. /\ stack \in Stacks /\ Tail(stack[a]) \in Seq(OwnFrame(a)) /\ f \in FrameType
      /\ g \in FrameType /\ Tail(stack[a]) \in Seq(FrameType)
  BY TopType, HeadTailProperties DEF OwnFrame, GoodFrame, Stacks
<1> HIDE DEF g
<1>2. R \in Stacks  BY <1>1, PopFrame
<1>3. R[a] = Tail(stack[a])  BY <1>1 DEF Stacks
<1>4. T \in Stacks
  <2> HIDE DEF R
  <2> QED  BY <1>1, <1>2, PushFrame
<1>5. <<f, g>> \o Tail(stack[a]) = <<f>> \o (<<g>> \o Tail(stack[a]))
  BY <1>1
<1>6. T[a] = <<g>> \o Tail(stack[a])  BY <1>1, <1>3 DEF Stacks
<1>7. stack' = [stack EXCEPT ![a] = <<f, g>> \o Tail(stack[a])]  BY DEF Call, g
<1>8. stack' = U  BY <1>1, <1>5, <1>6, <1>7 DEF Stacks
<1>9. ASSUME NEW P
      PROVE  /\ Count(P) \in Nat /\ Count(P)' \in Nat
             /\ Count(P)' = Count(P) + One(g \in P) + One(f \in P) - One(Top(a) \in P)
  <2>1. CountIn(stack, P) = CountIn(R, P) + One(Top(a) \in P)  BY <1>1, PopFrame DEF Top
  <2> HIDE DEF R
  <2>2. CountIn(T, P) = CountIn(R, P) + One(g \in P)  BY <1>1, <1>2, PushFrame
  <2> HIDE DEF T
  <2>3. U \in Stacks /\ CountIn(U, P) = CountIn(T, P) + One(f \in P)  BY <1>1, <1>4, PushFrame
  <2> HIDE DEF U
  <2>4. CountIn(R, P) \in Nat /\ CountIn(U, P) \in Nat /\ CountIn(stack, P) \in Nat
    BY <1>1, <1>2, <2>3, CountType
  <2>5. Count(P)' = CountIn(U, P)  BY <1>8 DEF Count, CountIn, CountedIn, FramesOf, FrameOf
  <2> QED  BY <2>1, <2>2, <2>3, <2>4, <2>5 DEF Count, One
<1>10. <<f, g>> \o Tail(stack[a]) \in Seq(OwnFrame(a))
  <2>1. g \in OwnFrame(a)  BY DEF g
  <2> HIDE DEF OwnFrame
  <2> QED  BY <1>1, <2>1
<1>11. stack' \in Stacks /\ StackInv'  BY <1>7, <1>10, OwnStacks
<1> QED  BY <1>9, <1>11 DEF g

(* A task that is in no call takes or gives back references: the frames of *)
(* the others stay what they were.                                         *)
LEMMA OtherFrames ==
  ASSUME TypeOK, StackInv, NEW a \in Actors, stack[a] = <<>>,
         \A t \in Tasks \ {a} : refs'[t] = refs[t]
  PROVE  /\ stack \in Stacks
         /\ \A b \in Actors : stack[b] \in Seq(OwnFrame(b)')
<1>1. ASSUME NEW b \in Actors PROVE stack[b] \in Seq(OwnFrame(b)')
  <2>1. CASE b = a
    <3>1. <<>> \in Seq(OwnFrame(b)')  BY EmptySeq, Zenon
    <3> QED  BY <2>1, <3>1
  <2>2. CASE b # a
    <3>1. OwnFrame(b)' = OwnFrame(b)  BY <2>2 DEF OwnFrame
    <3> QED  BY <3>1 DEF StackInv
  <2> QED  BY <2>1, <2>2
<1> QED  BY <1>1 DEF TypeOK, Stacks

LEMMA EnterEffect ==
  ASSUME TypeOK, StackInv, NEW a \in Actors, stack[a] = <<>>,
         \A t \in Tasks \ {a} : refs'[t] = refs[t],
         NEW f \in OwnFrame(a)', Enter(a, f)
  PROVE  /\ stack' \in Stacks /\ StackInv'
         /\ \A P : /\ Count(P) \in Nat /\ Count(P)' \in Nat
                   /\ Count(P)' = Count(P) + One(f \in P)
<1> DEFINE T == [stack EXCEPT ![a] = <<f>> \o stack[a]]
<1>1. stack \in Stacks /\ f \in FrameType /\ \A b \in Actors : stack[b] \in Seq(OwnFrame(b)')
  BY OtherFrames DEF OwnFrame, GoodFrame
<1>2. <<f>> \o stack[a] = <<f>>  OBVIOUS
<1>3. stack' = T  BY <1>2 DEF Enter
<1>4. ASSUME NEW P
      PROVE  /\ Count(P) \in Nat /\ Count(P)' \in Nat
             /\ Count(P)' = Count(P) + One(f \in P) /\ T \in Stacks
  <2>1. T \in Stacks /\ CountIn(T, P) = CountIn(stack, P) + One(f \in P)  BY <1>1, PushFrame
  <2> HIDE DEF T
  <2>2. CountIn(T, P) \in Nat /\ CountIn(stack, P) \in Nat
    BY <1>1, <2>1, CountType
  <2>3. Count(P)' = CountIn(T, P)  BY <1>3 DEF Count, CountIn, CountedIn, FramesOf, FrameOf
  <2> QED  BY <2>1, <2>2, <2>3 DEF Count, One
<1>5. StackInv'
  <2> DEFINE O(b) == OwnFrame(b)'
  <2>1. f \in O(a) /\ stack' = [stack EXCEPT ![a] = <<f>>]  BY DEF Enter
  <2>2. \A b \in Actors : stack[b] \in Seq(O(b))  BY <1>1
  <2>3. \A b \in Actors : stack'[b] \in Seq(O(b))
    <3> HIDE DEF O
    <3> QED  BY <1>1, <2>1, <2>2 DEF Stacks
  <2> QED  BY <2>3 DEF StackInv
<1> QED  BY <1>3, <1>4, <1>5

LEMMA StayEffect ==
  ASSUME TypeOK, StackInv, NEW a \in Actors, stack[a] = <<>>,
         \A t \in Tasks \ {a} : refs'[t] = refs[t], stack' = stack
  PROVE  /\ stack' \in Stacks /\ StackInv'
         /\ \A P : Count(P) \in Nat /\ Count(P)' = Count(P)
<1>1. stack \in Stacks /\ \A b \in Actors : stack[b] \in Seq(OwnFrame(b)')
  BY OtherFrames
<1>2. \A P : Count(P) \in Nat  BY <1>1, CountType DEF Count
<1>3. ASSUME NEW P PROVE Count(P)' = Count(P)
  BY DEF Count, CountIn, CountedIn, FramesOf, FrameOf
<1> QED  BY <1>1, <1>2, <1>3 DEF StackInv

(***************************************************************************)
(* Steps that leave alone all that the invariant counts.                   *)
(***************************************************************************)

(* Frames that every count treats alike; a frame that none counts.         *)
Alike(f, g) == \A d \in Devices :
  /\ f \in InSuspend(d) <=> g \in InSuspend(d)
  /\ f \in InResume(d) <=> g \in InResume(d)
  /\ f \in OnParent(d) <=> g \in OnParent(d)
  /\ f \in InBarrier(d) <=> g \in InBarrier(d)
  /\ f \in DepthRaised(d) <=> g \in DepthRaised(d)

Uncounted(f) == \A d \in Devices :
  /\ f \notin InSuspend(d) /\ f \notin InResume(d) /\ f \notin OnParent(d)
  /\ f \notin InBarrier(d) /\ f \notin DepthRaised(d)

CountsSame == \A d \in Devices :
  /\ Count(InSuspend(d))' = Count(InSuspend(d))
  /\ Count(InResume(d))' = Count(InResume(d))
  /\ Count(OnParent(d))' = Count(OnParent(d))
  /\ Count(InBarrier(d))' = Count(InBarrier(d))
  /\ Count(DepthRaised(d))' = Count(DepthRaised(d))

(* A call goes on in the same function, outside the callbacks.             *)
LEMMA GotoAlike ==
  ASSUME NEW f \in FrameType, NEW at, [f EXCEPT !.at = at] \in FrameType,
         {f.at, at} \cap {"suspend_cb", "resume_cb", "disable_resumed"} = {},
         f.at \in BarrierAts <=> at \in BarrierAts
  PROVE  Alike(f, [f EXCEPT !.at = at])
<1> DEFINE g == [f EXCEPT !.at = at]
<1>1. g.at = at /\ g.dev = f.dev /\ g.flags = f.flags /\ g.par = f.par /\ g \in FrameType
  BY DEF FrameType
<1> HIDE DEF g
<1>2. Alike(f, g)
  BY <1>1 DEF Alike, InSuspend, InResume, OnParent, InBarrier, DepthRaised
<1> QED  BY <1>2 DEF g

LEMMA PlainUncounted ==
  ASSUME NEW f \in GoodFrame, ~f.par,
         f.at \notin {"suspend_cb", "resume_cb", "disable", "disable_resumed"} \cup BarrierAts
  PROVE  Uncounted(f)
BY DEF GoodFrame, BarrierAts, Uncounted, InSuspend, InResume, OnParent, InBarrier,
       DepthRaised

LEMMA BecomeSame ==
  ASSUME TypeOK, StackInv, NEW a \in Actors, stack[a] # <<>>, NEW f \in OwnFrame(a),
         Alike(Top(a), f), Become(a, f), refs' = refs
  PROVE  stack' \in Stacks /\ StackInv' /\ CountsSame
<1>1. stack' \in Stacks /\ StackInv'
  BY BecomeEffect
<1>2. \A P : /\ Count(P) \in Nat
             /\ Count(P)' = Count(P) + One(f \in P) - One(Top(a) \in P)
  BY BecomeEffect
<1>3. ASSUME NEW P, Top(a) \in P <=> f \in P PROVE Count(P)' = Count(P)
  BY <1>2, <1>3 DEF One
<1>4. CountsSame  BY <1>3 DEF CountsSame, Alike
<1> QED  BY <1>1, <1>4

LEMMA ReturnSame ==
  ASSUME TypeOK, StackInv, NEW a \in Actors, stack[a] # <<>>,
         Uncounted(Top(a)), Return(a), refs' = refs
  PROVE  stack' \in Stacks /\ StackInv' /\ CountsSame
<1>0. stack' = [stack EXCEPT ![a] = Tail(stack[a])]  BY DEF Return
<1>1. stack' \in Stacks /\ StackInv'
  BY <1>0, ReturnEffect
<1>2. \A P : Count(P) \in Nat /\ Count(P)' = Count(P) - One(Top(a) \in P)
  BY <1>0, ReturnEffect
<1>3. ASSUME NEW P, Top(a) \notin P PROVE Count(P)' = Count(P)
  BY <1>2, <1>3 DEF One
<1>4. CountsSame  BY <1>3 DEF CountsSame, Uncounted
<1> QED  BY <1>1, <1>4

LEMMA CallSame ==
  ASSUME TypeOK, StackInv, NEW a \in Actors, stack[a] # <<>>, NEW at,
         [Top(a) EXCEPT !.at = at] \in OwnFrame(a), Alike(Top(a), [Top(a) EXCEPT !.at = at]),
         NEW f \in OwnFrame(a), Uncounted(f), Call(a, at, f), refs' = refs
  PROVE  stack' \in Stacks /\ StackInv' /\ CountsSame
<1> DEFINE g == [Top(a) EXCEPT !.at = at]
<1>1. stack' \in Stacks /\ StackInv'
  BY CallEffect
<1>2. \A P : /\ Count(P) \in Nat
             /\ Count(P)' = Count(P) + One(g \in P) + One(f \in P) - One(Top(a) \in P)
  BY CallEffect
<1> HIDE DEF g
<1>3. ASSUME NEW P, Top(a) \in P <=> g \in P, f \notin P PROVE Count(P)' = Count(P)
  BY <1>2, <1>3 DEF One
<1>4. Alike(Top(a), g)  BY DEF g
<1>5. CountsSame  BY <1>3, <1>4 DEF CountsSame, Alike, Uncounted
<1> QED  BY <1>1, <1>5

LEMMA EnterSame ==
  ASSUME TypeOK, StackInv, NEW a \in Actors, stack[a] = <<>>,
         \A t \in Tasks \ {a} : refs'[t] = refs[t],
         NEW f \in OwnFrame(a)', Uncounted(f), Enter(a, f)
  PROVE  stack' \in Stacks /\ StackInv' /\ CountsSame
<1>1. stack' \in Stacks /\ StackInv'
  BY EnterEffect
<1>2. \A P : Count(P) \in Nat /\ Count(P)' = Count(P) + One(f \in P)
  BY EnterEffect
<1>3. ASSUME NEW P, f \notin P PROVE Count(P)' = Count(P)
  BY <1>2, <1>3 DEF One
<1>4. CountsSame  BY <1>3 DEF CountsSame, Uncounted
<1> QED  BY <1>1, <1>4

LEMMA StaySame ==
  ASSUME TypeOK, StackInv, NEW a \in Actors, stack[a] = <<>>,
         \A t \in Tasks \ {a} : refs'[t] = refs[t], stack' = stack
  PROVE  stack' \in Stacks /\ StackInv' /\ CountsSame
<1>1. stack' \in Stacks /\ StackInv' /\ \A P : Count(P)' = Count(P)  BY StayEffect
<1> QED  BY <1>1 DEF CountsSame

LEMMA StillSame ==
  ASSUME TypeOK, StackInv, UNCHANGED <<stack, refs>>
  PROVE  stack' \in Stacks /\ StackInv' /\ CountsSame
<1>1. stack' \in Stacks  BY DEF TypeOK, Stacks
<1>2. StackInv'  BY DEF StackInv, OwnFrame
<1>3. ASSUME NEW P PROVE Count(P)' = Count(P)
  BY DEF Count, CountIn, CountedIn, FramesOf, FrameOf
<1>4. CountsSame  BY <1>3 DEF CountsSame
<1> QED  BY <1>1, <1>2, <1>4

(* The fields of power that the invariant is about.                        *)
SamePower(p, q) ==
  /\ q.status = p.status /\ q.usage = p.usage /\ q.children = p.children
  /\ q.depth = p.depth /\ (q.error <=> p.error) /\ (q.auto <=> p.auto)
  /\ q.autosuspend = p.autosuspend

AllPowerSame == \A d \in Devices : SamePower(power[d], power'[d])

LEMMA SetPowerType ==
  ASSUME TypeOK, NEW d \in Devices, NEW q \in PowerType, SetPower(d, q)
  PROVE  /\ power' \in [Devices -> PowerType]
         /\ power'[d] = q
         /\ \A e \in Devices \ {d} : power'[e] = power[e]
BY DEF TypeOK, SetPower

LEMMA SetPowerSame ==
  ASSUME TypeOK, NEW d \in Devices, NEW q \in PowerType, SetPower(d, q), SamePower(power[d], q)
  PROVE  power' \in [Devices -> PowerType] /\ AllPowerSame
<1>1. /\ power' \in [Devices -> PowerType] /\ power'[d] = q
      /\ \A e \in Devices \ {d} : power'[e] = power[e]
  BY SetPowerType
<1> QED  BY <1>1 DEF AllPowerSame, SamePower

LEMMA KeepPowerSame ==
  ASSUME TypeOK, UNCHANGED power
  PROVE  power' \in [Devices -> PowerType] /\ AllPowerSame
BY DEF TypeOK, AllPowerSame, SamePower

LEMMA CancelType ==
  ASSUME NEW p \in PowerType
  PROVE  /\ pm_runtime_cancel_pending(p) \in PowerType
         /\ SamePower(p, pm_runtime_cancel_pending(p))
BY DEF PowerType, pm_runtime_cancel_pending, SamePower, Requests

LEMMA QueueType ==
  ASSUME NEW p \in PowerType, NEW r \in Requests
  PROVE  QueueRequest(p, r) \in PowerType /\ SamePower(p, QueueRequest(p, r))
BY DEF PowerType, QueueRequest, SamePower

LEMMA IdleAsyncType ==
  ASSUME NEW p \in PowerType, NEW d \in Devices
  PROVE  rpm_idle_async(p, d) \in PowerType /\ SamePower(p, rpm_idle_async(p, d))
<1>1. "IDLE" \in Requests  BY DEF Requests
<1>2. QueueRequest(p, "IDLE") \in PowerType /\ SamePower(p, QueueRequest(p, "IDLE"))
  BY <1>1, QueueType
<1>3. CASE MayNotify(p, d)
  <2>1. rpm_idle_async(p, d) = QueueRequest(p, "IDLE")  BY <1>3 DEF rpm_idle_async
  <2> QED  BY <1>2, <2>1
<1>4. CASE ~MayNotify(p, d)
  <2>1. rpm_idle_async(p, d) = p  BY <1>4 DEF rpm_idle_async
  <2> QED  BY <2>1 DEF SamePower
<1> QED  BY <1>3, <1>4

(* The parts of the invariant that are about numbers.                      *)
Figures == /\ CallbackInv /\ DepthInv /\ RestInv /\ ChildInv /\ UsageInv
           /\ HeldInv /\ HeldIsActive

LEMMA SameFigures ==
  ASSUME IInv, AllPowerSame, CountsSame, UNCHANGED <<refs, held, disabled>>
  PROVE  Figures'
<1>1. CallbackInv'
  BY DEF IInv, CallbackInv, AllPowerSame, SamePower, CountsSame, One
<1>2. DepthInv'
  <2>1. \A d \in Devices : Disablers(d)' = Disablers(d)  BY DEF Disablers
  <2> QED  BY <2>1 DEF IInv, DepthInv, AllPowerSame, SamePower, CountsSame
<1>3. RestInv'
  BY DEF IInv, RestInv, AllPowerSame, SamePower, Changing, CountsSame
<1>4. ChildInv'
  <2>1. \A u \in Devices : Up(u)' = Up(u)  BY DEF Up, AllPowerSame, SamePower
  <2> QED  BY <2>1 DEF IInv, ChildInv, AllPowerSame, SamePower
<1>5. UsageInv'
  <2>1. \A d \in Devices : Users(d)' = Users(d)  BY DEF Users
  <2> QED  BY <2>1 DEF IInv, UsageInv, Fixed, AllPowerSame, SamePower, CountsSame
<1>6. HeldInv' /\ HeldIsActive'
  BY DEF IInv, TypeOK, HeldInv, HeldIsActive, AllPowerSame, SamePower
<1> QED  BY <1>1, <1>2, <1>3, <1>4, <1>5, <1>6 DEF Figures

(* What is left to show of a step that leaves alone the figures.           *)
LEMMA QuietStep ==
  ASSUME IInv, power' \in [Devices -> PowerType], AllPowerSame,
         stack' \in Stacks, StackInv', CountsSame,
         lock' \in [Devices -> Actors \cup {NULL}], asleep' \subseteq Actors,
         UNCHANGED <<refs, held, disabled>>
  PROVE  IInv'
<1>1. Figures'  BY SameFigures
<1>2. TypeOK'  BY DEF IInv, TypeOK, Stacks
<1> QED  BY <1>1, <1>2 DEF IInv, Figures

LEMMA LockTypes ==
  ASSUME TypeOK, NEW a \in Actors
  PROVE  /\ \A d \in Devices : Keep(a, d) => lock' \in [Devices -> Actors \cup {NULL}]
         /\ \A d \in Devices : Drop(d) => lock' \in [Devices -> Actors \cup {NULL}]
         /\ UNCHANGED lock => lock' \in [Devices -> Actors \cup {NULL}]
         /\ Return(a) => lock' \in [Devices -> Actors \cup {NULL}]
         /\ \A d : WakeAll(d) => asleep' \subseteq Actors
         /\ UNCHANGED asleep => asleep' \subseteq Actors
         /\ asleep' = asleep \cup {a} => asleep' \subseteq Actors
<1>1. \A d \in Devices : Keep(a, d) => lock' \in [Devices -> Actors \cup {NULL}]
  BY DEF TypeOK, Keep
<1>2. \A d \in Devices : Drop(d) => lock' \in [Devices -> Actors \cup {NULL}]
  BY DEF TypeOK, Drop
<1>3. Return(a) => lock' \in [Devices -> Actors \cup {NULL}]
  <2> DEFINE x == IF Tail(stack[a]) # <<>> /\ Head(Tail(stack[a])).at \in LockedAt
                  THEN a ELSE NULL
  <2>1. Return(a) => lock' = [lock EXCEPT ![Top(a).dev] = x]  BY DEF Return
  <2>2. x \in Actors \cup {NULL}  OBVIOUS
  <2> HIDE DEF x
  <2> QED  BY <2>1, <2>2 DEF TypeOK
<1> QED  BY <1>1, <1>2, <1>3 DEF TypeOK, WakeAll

LEMMA AtTop ==
  ASSUME IInv, NEW a \in Actors, NEW at, Running(a, at)
  PROVE  /\ TypeOK /\ StackInv /\ stack[a] # <<>> /\ Top(a).at = at
         /\ Top(a) \in OwnFrame(a) /\ Top(a) \in GoodFrame /\ Top(a) \in FrameType
         /\ Top(a).dev \in Devices /\ power[Top(a).dev] \in PowerType
<1>1. TypeOK /\ StackInv /\ stack[a] # <<>> /\ Top(a).at = at  BY DEF IInv, Running
<1>2. Top(a) \in OwnFrame(a) /\ Top(a) \in GoodFrame /\ Top(a) \in FrameType  BY <1>1, TopType
<1> QED  BY <1>1, <1>2 DEF FrameType, TypeOK

(* The places of the code outside the callbacks, the disabling and the     *)
(* barrier.                                                                *)
PlainAts == {"idle", "idle_cb", "idle_end", "suspend", "suspend_wait", "suspend_notify",
             "resume", "resume_wait", "resume_parent", "resume_parent_ret", "resume_put",
             "resume_put_idle", "work"}

LEMMA PlainGoto ==
  ASSUME IInv, NEW a \in Actors, NEW at \in PlainAts, NEW to \in PlainAts, Running(a, at),
         at \in ResumeAts <=> to \in ResumeAts,
         to # "resume_put_idle", to # "suspend_notify",
         to \in {"resume_parent", "resume_parent_ret", "resume_put"} => Top(a).par
  PROVE  /\ [Top(a) EXCEPT !.at = to] \in OwnFrame(a)
         /\ Alike(Top(a), [Top(a) EXCEPT !.at = to])
<1> DEFINE f == Top(a)
           g == [f EXCEPT !.at = to]
<1>1. /\ f.at = at /\ f \in OwnFrame(a) /\ f \in GoodFrame /\ f \in FrameType
  BY AtTop
<1> HIDE DEF f
<1>2. g.at = to /\ g.dev = f.dev /\ g.flags = f.flags /\ g.par = f.par /\ g \in FrameType
  BY <1>1 DEF FrameType, PlainAts
<1>3. Alike(f, g)
  <2>1. {f.at, to} \cap {"suspend_cb", "resume_cb", "disable_resumed"} = {}
    BY <1>1 DEF PlainAts
  <2>2. f.at \in BarrierAts <=> to \in BarrierAts  BY <1>1 DEF PlainAts, BarrierAts
  <2> QED  BY <1>1, <1>2, <2>1, <2>2, GotoAlike
<1> HIDE DEF g
<1>4. "DISABLE" \notin f.flags  BY <1>1 DEF GoodFrame, PlainAts, BarrierAts
<1>5. g \in GoodFrame
  BY <1>1, <1>2, <1>4 DEF GoodFrame, PlainAts, BarrierAts, ResumeAts, f
<1>6. g \in OwnFrame(a)  BY <1>1, <1>2, <1>4, <1>5 DEF OwnFrame
<1> QED  BY <1>3, <1>6 DEF f, g

LEMMA GotoSame ==
  ASSUME IInv, NEW a \in Actors, NEW at \in PlainAts, NEW to \in PlainAts, Running(a, at),
         at \in ResumeAts <=> to \in ResumeAts,
         to # "resume_put_idle", to # "suspend_notify",
         to \in {"resume_parent", "resume_parent_ret", "resume_put"} => Top(a).par,
         Goto(a, to), refs' = refs
  PROVE  stack' \in Stacks /\ StackInv' /\ CountsSame
<1> DEFINE g == [Top(a) EXCEPT !.at = to]
<1>1. g \in OwnFrame(a) /\ Alike(Top(a), g)  BY PlainGoto
<1>2. TypeOK /\ StackInv /\ stack[a] # <<>>  BY AtTop
<1>3. Become(a, g)  BY DEF Goto
<1> HIDE DEF g
<1> QED  BY <1>1, <1>2, <1>3, BecomeSame

LEMMA PlainReturn ==
  ASSUME IInv, NEW a \in Actors, NEW at \in PlainAts, Running(a, at), ~Top(a).par,
         Return(a), refs' = refs
  PROVE  stack' \in Stacks /\ StackInv' /\ CountsSame
<1>1. TypeOK /\ StackInv /\ stack[a] # <<>> /\ Top(a).at = at /\ Top(a) \in GoodFrame  BY AtTop
<1>2. Uncounted(Top(a))
  <2>1. Top(a).at \notin {"suspend_cb", "resume_cb", "disable", "disable_resumed"} \cup BarrierAts
    BY <1>1 DEF PlainAts, BarrierAts
  <2> QED  BY <1>1, <2>1, PlainUncounted
<1> QED  BY <1>1, <1>2, ReturnSame

(* A call of rpm_idle, rpm_suspend or rpm_resume begins.                   *)
CallFlags == {"GET_PUT", "ASYNC", "NOWAIT", "AUTO"}
NewAts == {"idle", "suspend", "resume", "work"}

LEMMA NewFrame ==
  ASSUME NEW at \in NewAts, NEW d \in Devices, NEW flags \in SUBSET CallFlags
  PROVE  /\ Frame(at, d, flags) \in FrameType /\ Frame(at, d, flags) \in GoodFrame
         /\ Uncounted(Frame(at, d, flags))
<1> DEFINE f == Frame(at, d, flags)
<1>1. f.at = at /\ f.dev = d /\ f.flags = flags /\ f.par = FALSE  BY DEF Frame
<1>2. f \in FrameType  BY DEF Frame, FrameType, CallFlags, NewAts
<1> HIDE DEF f
<1>3. "DISABLE" \notin f.flags /\ ~f.par  BY <1>1 DEF CallFlags
<1>4. f \in GoodFrame  BY <1>1, <1>2, <1>3 DEF GoodFrame, BarrierAts, NewAts
<1>5. f.at \notin {"suspend_cb", "resume_cb", "disable", "disable_resumed"} \cup BarrierAts
  BY <1>1 DEF BarrierAts, NewAts
<1>6. Uncounted(f)  BY <1>3, <1>4, <1>5, PlainUncounted
<1> QED  BY <1>2, <1>4, <1>6 DEF f

LEMMA NewOwn ==
  ASSUME NEW a, NEW at \in NewAts, NEW d \in Devices, NEW flags \in SUBSET CallFlags,
         "GET_PUT" \notin flags \/ at # "resume"
  PROVE  /\ Frame(at, d, flags) \in OwnFrame(a) /\ Frame(at, d, flags) \in OwnFrame(a)'
         /\ Uncounted(Frame(at, d, flags))
<1> DEFINE f == Frame(at, d, flags)
<1>1. f \in GoodFrame /\ Uncounted(f)  BY NewFrame
<1>2. "DISABLE" \notin f.flags /\ ("GET_PUT" \notin f.flags \/ f.at \notin ResumeAts)
  BY DEF Frame, CallFlags, NewAts, ResumeAts
<1> HIDE DEF f
<1>3. f \in OwnFrame(a) /\ f \in OwnFrame(a)'  BY <1>1, <1>2 DEF OwnFrame
<1> QED  BY <1>1, <1>3 DEF f

(***************************************************************************)
(* The actions, first those that leave the figures alone.                  *)
(***************************************************************************)

LEMMA IdleStep ==
  ASSUME IInv, NEW a \in Actors, rpm_idle(a)
  PROVE  IInv'
<1> DEFINE d == Top(a).dev
           p == power[d]
<1>1. Running(a, "idle") /\ "idle" \in PlainAts  BY DEF rpm_idle, Section, PlainAts
<1>2. /\ TypeOK /\ d \in Devices /\ p \in PowerType /\ Top(a) \in GoodFrame /\ ~Top(a).par
  BY <1>1, AtTop DEF GoodFrame, ResumeAts
<1>3. UNCHANGED <<refs, held, disabled>> /\ UNCHANGED asleep  BY DEF rpm_idle
<1>4. CASE SetPower(d, rpm_idle_async(p, d)) /\ Return(a)
  <2>1. power' \in [Devices -> PowerType] /\ AllPowerSame
    BY <1>2, <1>4, IdleAsyncType, SetPowerSame
  <2>2. stack' \in Stacks /\ StackInv' /\ CountsSame
    BY <1>1, <1>2, <1>3, <1>4, PlainReturn
  <2> QED  BY <1>2, <1>3, <1>4, <2>1, <2>2, LockTypes, QuietStep
<1>5. CASE UNCHANGED power /\ Return(a)
  <2>1. power' \in [Devices -> PowerType] /\ AllPowerSame
    BY <1>2, <1>5, KeepPowerSame
  <2>2. stack' \in Stacks /\ StackInv' /\ CountsSame
    BY <1>1, <1>2, <1>3, <1>5, PlainReturn
  <2> QED  BY <1>2, <1>3, <1>5, <2>1, <2>2, LockTypes, QuietStep
<1>6. CASE /\ SetPower(d, [p EXCEPT !.request = "NONE", !.idle = TRUE])
           /\ Goto(a, "idle_cb") /\ Drop(d)
  <2> DEFINE q == [p EXCEPT !.request = "NONE", !.idle = TRUE]
  <2>0. q \in PowerType /\ SamePower(p, q)  BY <1>2 DEF PowerType, SamePower, Requests
  <2>1. power' \in [Devices -> PowerType] /\ AllPowerSame
    <3> HIDE DEF q
    <3> QED  BY <1>2, <1>6, <2>0, SetPowerSame DEF q
  <2>2. stack' \in Stacks /\ StackInv' /\ CountsSame
    <3>1. "idle_cb" \in PlainAts /\ "idle" \notin ResumeAts /\ "idle_cb" \notin ResumeAts
      BY DEF PlainAts, ResumeAts
    <3> QED  BY <1>1, <1>2, <1>3, <1>6, <3>1, GotoSame
  <2> QED  BY <1>2, <1>3, <1>6, <2>1, <2>2, LockTypes, QuietStep
<1> QED  BY <1>4, <1>5, <1>6 DEF rpm_idle

LEMMA RuntimeIdleStep ==
  ASSUME IInv, NEW a \in Actors, runtime_idle(a)
  PROVE  IInv'
<1> DEFINE d == Top(a).dev
<1>1. Running(a, "idle_cb") /\ "idle_cb" \in PlainAts  BY DEF runtime_idle, PlainAts
<1>2. /\ TypeOK /\ StackInv /\ stack[a] # <<>> /\ d \in Devices /\ Top(a) \in GoodFrame /\ ~Top(a).par
  BY <1>1, AtTop DEF GoodFrame, ResumeAts
<1>3. UNCHANGED <<refs, held, disabled>> /\ UNCHANGED <<power, lock, asleep>>  BY DEF runtime_idle
<1>4. power' \in [Devices -> PowerType] /\ AllPowerSame
  BY <1>2, <1>3, KeepPowerSame
<1>5. "idle_end" \in PlainAts /\ "idle_end" \notin ResumeAts /\ "idle_cb" \notin ResumeAts
  BY DEF PlainAts, ResumeAts
<1>6. CASE Goto(a, "idle_end")
  <2>1. stack' \in Stacks /\ StackInv' /\ CountsSame
    BY <1>1, <1>2, <1>3, <1>5, <1>6, GotoSame
  <2> QED  BY <1>2, <1>3, <1>4, <2>1, LockTypes, QuietStep
<1>7. ASSUME NEW flags \in CallbackFlags, Call(a, "idle_end", Frame("suspend", d, flags))
      PROVE  IInv'
  <2>1. flags \in SUBSET CallFlags /\ "GET_PUT" \notin flags  BY PMAssumption DEF CallFlags
  <2>2. Frame("suspend", d, flags) \in OwnFrame(a) /\ Uncounted(Frame("suspend", d, flags))
    <3>1. "suspend" \in NewAts  BY DEF NewAts
    <3> QED  BY <1>2, <2>1, <3>1, NewOwn
  <2>3. /\ [Top(a) EXCEPT !.at = "idle_end"] \in OwnFrame(a)
        /\ Alike(Top(a), [Top(a) EXCEPT !.at = "idle_end"])
    BY <1>1, <1>2, <1>5, PlainGoto
  <2>4. stack' \in Stacks /\ StackInv' /\ CountsSame
    BY <1>2, <1>3, <1>7, <2>2, <2>3, CallSame
  <2> QED  BY <1>2, <1>3, <1>4, <2>4, LockTypes, QuietStep
<1> QED  BY <1>6, <1>7 DEF runtime_idle

LEMMA IdleEndStep ==
  ASSUME IInv, NEW a \in Actors, rpm_idle_end(a)
  PROVE  IInv'
<1> DEFINE d == Top(a).dev
           p == power[d]
           q == [p EXCEPT !.idle = FALSE, !.unwoken = FALSE]
<1>1. Running(a, "idle_end") /\ "idle_end" \in PlainAts  BY DEF rpm_idle_end, Section, PlainAts
<1>2. /\ TypeOK /\ d \in Devices /\ p \in PowerType /\ Top(a) \in GoodFrame /\ ~Top(a).par
  BY <1>1, AtTop DEF GoodFrame, ResumeAts
<1>3. /\ UNCHANGED <<refs, held, disabled>> /\ SetPower(d, q) /\ WakeAll(d) /\ Return(a)
  BY DEF rpm_idle_end
<1>4. q \in PowerType /\ SamePower(p, q)  BY <1>2 DEF PowerType, SamePower
<1> HIDE DEF q
<1>5. power' \in [Devices -> PowerType] /\ AllPowerSame
  BY <1>2, <1>3, <1>4, SetPowerSame
<1>6. stack' \in Stacks /\ StackInv' /\ CountsSame
  BY <1>1, <1>2, <1>3, PlainReturn
<1> QED  BY <1>2, <1>3, <1>5, <1>6, LockTypes, QuietStep

LEMMA SuspendWokenStep ==
  ASSUME IInv, NEW a \in Actors, suspend_woken(a)
  PROVE  IInv'
<1> DEFINE d == Top(a).dev
<1>1. Running(a, "suspend_wait") /\ "suspend_wait" \in PlainAts
  BY DEF suspend_woken, Section, PlainAts
<1>2. TypeOK /\ StackInv /\ d \in Devices  BY <1>1, AtTop
<1>3. UNCHANGED <<refs, held, disabled>> /\ UNCHANGED power  BY DEF suspend_woken
<1>4. power' \in [Devices -> PowerType] /\ AllPowerSame
  BY <1>2, <1>3, KeepPowerSame
<1>5. CASE asleep' = asleep \cup {a} /\ UNCHANGED <<stack, lock>>
  <2>1. stack' \in Stacks /\ StackInv' /\ CountsSame  BY <1>2, <1>3, <1>5, StillSame
  <2> QED  BY <1>2, <1>3, <1>4, <1>5, <2>1, LockTypes, QuietStep
<1>6. CASE Goto(a, "suspend") /\ Keep(a, d) /\ UNCHANGED asleep
  <2>1. "suspend" \in PlainAts /\ "suspend" \notin ResumeAts /\ "suspend_wait" \notin ResumeAts
    BY DEF PlainAts, ResumeAts
  <2>2. stack' \in Stacks /\ StackInv' /\ CountsSame
    BY <1>1, <1>3, <1>6, <2>1, GotoSame
  <2> QED  BY <1>2, <1>3, <1>4, <1>6, <2>2, LockTypes, QuietStep
<1> QED  BY <1>5, <1>6 DEF suspend_woken

LEMMA SuspendNotifyStep ==
  ASSUME IInv, NEW a \in Actors, suspend_notify(a)
  PROVE  IInv'
<1> DEFINE d == Top(a).dev
           u == Parent[d]
<1>1. Running(a, "suspend_notify") /\ "suspend_notify" \in PlainAts
  BY DEF suspend_notify, Section, PlainAts
<1>2. /\ TypeOK /\ u \in Devices /\ power[u] \in PowerType /\ ~Top(a).par
  BY <1>1, AtTop, PMAssumption, SMTT(30) DEF GoodFrame, ResumeAts, TypeOK
<1>3. /\ UNCHANGED <<refs, held, disabled>> /\ UNCHANGED asleep
      /\ SetPower(u, rpm_idle_async(power[u], u)) /\ Return(a)
  BY DEF suspend_notify
<1>4. power' \in [Devices -> PowerType] /\ AllPowerSame
  BY <1>2, <1>3, IdleAsyncType, SetPowerSame
<1>5. stack' \in Stacks /\ StackInv' /\ CountsSame
  BY <1>1, <1>2, <1>3, PlainReturn
<1> QED  BY <1>2, <1>3, <1>4, <1>5, LockTypes, QuietStep

LEMMA ResumeWokenStep ==
  ASSUME IInv, NEW a \in Actors, resume_woken(a)
  PROVE  IInv'
<1> DEFINE d == Top(a).dev
<1>1. Running(a, "resume_wait") /\ "resume_wait" \in PlainAts
  BY DEF resume_woken, Section, PlainAts
<1>2. TypeOK /\ StackInv /\ d \in Devices  BY <1>1, AtTop
<1>3. UNCHANGED <<refs, held, disabled>> /\ UNCHANGED power  BY DEF resume_woken
<1>4. power' \in [Devices -> PowerType] /\ AllPowerSame
  BY <1>2, <1>3, KeepPowerSame
<1>5. CASE asleep' = asleep \cup {a} /\ UNCHANGED <<stack, lock>>
  <2>1. stack' \in Stacks /\ StackInv' /\ CountsSame  BY <1>2, <1>3, <1>5, StillSame
  <2> QED  BY <1>2, <1>3, <1>4, <1>5, <2>1, LockTypes, QuietStep
<1>6. CASE Goto(a, "resume") /\ Keep(a, d) /\ UNCHANGED asleep
  <2>1. "resume" \in PlainAts /\ "resume" \in ResumeAts /\ "resume_wait" \in ResumeAts
    BY DEF PlainAts, ResumeAts
  <2>2. stack' \in Stacks /\ StackInv' /\ CountsSame
    BY <1>1, <1>3, <1>6, <2>1, GotoSame
  <2> QED  BY <1>2, <1>3, <1>4, <1>6, <2>2, LockTypes, QuietStep
<1> QED  BY <1>5, <1>6 DEF resume_woken

LEMMA ResumeParentStep ==
  ASSUME IInv, NEW a \in Actors, resume_parent(a)
  PROVE  IInv'
<1> DEFINE d == Top(a).dev
           u == Parent[d]
<1>1. Running(a, "resume_parent") /\ "resume_parent" \in PlainAts
  BY DEF resume_parent, PlainAts
<1>2. TypeOK /\ StackInv /\ stack[a] # <<>> /\ d \in Devices /\ Top(a).par /\ u \in Devices
  BY <1>1, AtTop, PMAssumption DEF GoodFrame
<1>3. UNCHANGED <<refs, held, disabled>> /\ UNCHANGED <<power, asleep>>  BY DEF resume_parent
<1>4. power' \in [Devices -> PowerType] /\ AllPowerSame
  BY <1>2, <1>3, KeepPowerSame
<1>5. CASE Call(a, "resume_parent_ret", Frame("resume", u, {})) /\ Keep(a, u)
  <2>1. {} \in SUBSET CallFlags /\ "GET_PUT" \notin {} /\ "resume" \in NewAts
    BY DEF NewAts
  <2>2. Frame("resume", u, {}) \in OwnFrame(a) /\ Uncounted(Frame("resume", u, {}))
    BY <1>2, <2>1, NewOwn
  <2>3. /\ "resume_parent_ret" \in PlainAts /\ "resume_parent_ret" \in ResumeAts
        /\ "resume_parent" \in ResumeAts
    BY DEF PlainAts, ResumeAts
  <2>4. /\ [Top(a) EXCEPT !.at = "resume_parent_ret"] \in OwnFrame(a)
        /\ Alike(Top(a), [Top(a) EXCEPT !.at = "resume_parent_ret"])
    BY <1>1, <1>2, <2>3, PlainGoto
  <2>5. stack' \in Stacks /\ StackInv' /\ CountsSame
    BY <1>2, <1>3, <1>5, <2>2, <2>4, CallSame
  <2> QED  BY <1>2, <1>3, <1>4, <1>5, <2>5, LockTypes, QuietStep
<1>6. CASE Goto(a, "resume") /\ UNCHANGED lock
  <2>1. "resume" \in PlainAts /\ "resume" \in ResumeAts /\ "resume_parent" \in ResumeAts
    BY DEF PlainAts, ResumeAts
  <2>2. stack' \in Stacks /\ StackInv' /\ CountsSame
    BY <1>1, <1>3, <1>6, <2>1, GotoSame
  <2> QED  BY <1>2, <1>3, <1>4, <1>6, <2>2, LockTypes, QuietStep
<1> QED  BY <1>5, <1>6 DEF resume_parent

LEMMA ResumeParentRetStep ==
  ASSUME IInv, NEW a \in Actors, resume_parent_ret(a)
  PROVE  IInv'
<1> DEFINE d == Top(a).dev
           u == Parent[d]
           to == IF power[u].status = "ACTIVE" THEN "resume" ELSE "resume_put"
<1>1. Running(a, "resume_parent_ret") /\ "resume_parent_ret" \in PlainAts
  BY DEF resume_parent_ret, PlainAts
<1>2. TypeOK /\ StackInv /\ d \in Devices /\ Top(a).par /\ u \in Devices
  BY <1>1, AtTop, PMAssumption DEF GoodFrame
<1>3. /\ UNCHANGED <<refs, held, disabled>> /\ UNCHANGED <<power, asleep>>
      /\ Goto(a, to) /\ Drop(u)
  BY DEF resume_parent_ret
<1>4. power' \in [Devices -> PowerType] /\ AllPowerSame
  BY <1>2, <1>3, KeepPowerSame
<1>5. /\ to \in PlainAts /\ to \in ResumeAts /\ "resume_parent_ret" \in ResumeAts
      /\ to # "resume_put_idle" /\ to # "suspend_notify"
  BY DEF PlainAts, ResumeAts
<1> HIDE DEF to
<1>6. stack' \in Stacks /\ StackInv' /\ CountsSame
  BY <1>1, <1>2, <1>3, <1>5, GotoSame
<1> QED  BY <1>2, <1>3, <1>4, <1>6, LockTypes, QuietStep

LEMMA ResumePutIdleStep ==
  ASSUME IInv, NEW a \in Actors, resume_put_idle(a)
  PROVE  IInv'
<1> DEFINE d == Top(a).dev
           u == Parent[d]
<1>1. Running(a, "resume_put_idle") /\ "resume_put_idle" \in PlainAts
  BY DEF resume_put_idle, Section, PlainAts
<1>2. /\ TypeOK /\ u \in Devices /\ power[u] \in PowerType /\ ~Top(a).par
  BY <1>1, AtTop, PMAssumption DEF GoodFrame, ResumeAts, TypeOK
<1>3. /\ UNCHANGED <<refs, held, disabled>> /\ UNCHANGED asleep
      /\ SetPower(u, rpm_idle_async(power[u], u)) /\ Return(a)
  BY DEF resume_put_idle
<1>4. power' \in [Devices -> PowerType] /\ AllPowerSame
  BY <1>2, <1>3, IdleAsyncType, SetPowerSame
<1>5. stack' \in Stacks /\ StackInv' /\ CountsSame
  BY <1>1, <1>2, <1>3, PlainReturn
<1> QED  BY <1>2, <1>3, <1>4, <1>5, LockTypes, QuietStep

LEMMA DeviceActor ==
  ASSUME NEW d \in Devices
  PROVE  d \in Actors /\ d \notin Tasks /\ SOFTIRQ \in Actors /\ SOFTIRQ \notin Tasks
BY PMAssumption DEF Actors

LEMMA WorkStartStep ==
  ASSUME IInv, NEW d \in Devices, work_start(d)
  PROVE  IInv'
<1> DEFINE p == power[d]
           q == [p EXCEPT !.work = "off"]
           f == Frame("work", d, {"NOWAIT"})
<1>1. TypeOK /\ StackInv /\ p \in PowerType /\ d \in Actors  BY DeviceActor DEF IInv, TypeOK
<1>2. /\ stack[d] = <<>> /\ SetPower(d, q) /\ Enter(d, f)
      /\ UNCHANGED <<refs, held, disabled>> /\ UNCHANGED <<lock, asleep>>
  BY DEF work_start, Enter
<1>3. q \in PowerType /\ SamePower(p, q)  BY <1>1 DEF PowerType, SamePower
<1>4. f \in OwnFrame(d)' /\ Uncounted(f)
  <2>1. {"NOWAIT"} \in SUBSET CallFlags /\ "GET_PUT" \notin {"NOWAIT"} /\ "work" \in NewAts
    BY DEF CallFlags, NewAts
  <2> QED  BY <2>1, NewOwn
<1> HIDE DEF q, f
<1>5. power' \in [Devices -> PowerType] /\ AllPowerSame
  BY <1>1, <1>2, <1>3, SetPowerSame
<1>6. stack' \in Stacks /\ StackInv' /\ CountsSame
  BY <1>1, <1>2, <1>4, EnterSame
<1> QED  BY <1>1, <1>2, <1>5, <1>6, LockTypes, QuietStep

LEMMA WorkStep ==
  ASSUME IInv, NEW d \in Devices, pm_runtime_work(d)
  PROVE  IInv'
<1> DEFINE p == power[d]
           q == IF p.pending THEN [p EXCEPT !.request = "NONE", !.pending = FALSE] ELSE p
           f == Requested(d, p.request)
<1>1. Running(d, "work") /\ "work" \in PlainAts /\ d \in Actors
  BY DeviceActor DEF pm_runtime_work, Section, PlainAts
<1>2. /\ TypeOK /\ StackInv /\ stack[d] # <<>> /\ p \in PowerType /\ ~Top(d).par
      /\ Top(d).at = "work" /\ Top(d) \in GoodFrame
  BY <1>1, AtTop DEF GoodFrame, ResumeAts, TypeOK
<1>3. UNCHANGED <<refs, held, disabled>> /\ UNCHANGED asleep /\ SetPower(d, q)
  BY DEF pm_runtime_work
<1>4. q \in PowerType /\ SamePower(p, q)
  <2> DEFINE r == [p EXCEPT !.request = "NONE", !.pending = FALSE]
  <2>1. SamePower(p, p)  BY DEF SamePower
  <2>2. r \in PowerType /\ SamePower(p, r)
    <3> HIDE DEF p
    <3>1. "NONE" \in Requests  BY DEF Requests
    <3>2. r \in PowerType  BY <1>2, <3>1, ZenonT(60) DEF PowerType
    <3>3. SamePower(p, r)  BY <1>2, ZenonT(60) DEF PowerType, SamePower
    <3> QED  BY <3>2, <3>3
  <2>3. q = r \/ q = p  OBVIOUS
  <2> HIDE DEF p, q, r
  <2> QED  BY <1>2, <2>1, <2>2, <2>3
<1> HIDE DEF q
<1>5. power' \in [Devices -> PowerType] /\ AllPowerSame
  BY <1>2, <1>3, <1>4, SetPowerSame
<1>6. CASE Return(d)
  <2>1. stack' \in Stacks /\ StackInv' /\ CountsSame
    BY <1>1, <1>2, <1>3, <1>6, PlainReturn
  <2> QED  BY <1>1, <1>2, <1>3, <1>5, <1>6, <2>1, LockTypes, QuietStep
<1>7. CASE Keep(d, d) /\ Become(d, f)
  <2> DEFINE at == IF p.request = "IDLE" THEN "idle"
                   ELSE IF p.request = "RESUME" THEN "resume" ELSE "suspend"
             flags == IF p.request = "AUTOSUSPEND" THEN {"NOWAIT", "AUTO"} ELSE {"NOWAIT"}
  <2>1. f = Frame(at, d, flags)  BY DEF Requested
  <2>2. /\ at \in NewAts /\ flags \in SUBSET CallFlags
        /\ "GET_PUT" \notin flags
    BY DEF CallFlags, NewAts
  <2> HIDE DEF at, flags, f
  <2>3. f \in OwnFrame(d) /\ Uncounted(f)  BY <2>1, <2>2, NewOwn
  <2>4. Top(d).at \notin {"suspend_cb", "resume_cb", "disable", "disable_resumed"} \cup BarrierAts
    BY <1>2 DEF BarrierAts
  <2>5. Uncounted(Top(d))  BY <1>2, <2>4, PlainUncounted
  <2>6. Alike(Top(d), f)  BY <2>3, <2>5 DEF Alike, Uncounted
  <2>7. stack' \in Stacks /\ StackInv' /\ CountsSame
    BY <1>1, <1>2, <1>3, <1>7, <2>3, <2>6, BecomeSame
  <2> QED  BY <1>1, <1>2, <1>3, <1>5, <1>7, <2>7, LockTypes, QuietStep
<1> QED  BY <1>6, <1>7 DEF pm_runtime_work

LEMMA TimerStep ==
  ASSUME IInv, NEW d \in Devices, pm_suspend_timer_fn(d)
  PROVE  IInv'
<1> DEFINE p == power[d]
           q == [p EXCEPT !.timer = "off"]
           flags == IF power[d].timer = "auto" THEN {"ASYNC", "AUTO"} ELSE {"ASYNC"}
           f == Frame("suspend", d, flags)
<1>1. TypeOK /\ StackInv /\ p \in PowerType /\ SOFTIRQ \in Actors
  BY DeviceActor DEF IInv, TypeOK
<1>2. /\ stack[SOFTIRQ] = <<>> /\ SetPower(d, q) /\ Enter(SOFTIRQ, f) /\ Keep(SOFTIRQ, d)
      /\ UNCHANGED <<refs, held, disabled>> /\ UNCHANGED asleep
  BY DEF pm_suspend_timer_fn, Enter
<1>3. q \in PowerType /\ SamePower(p, q)  BY <1>1 DEF PowerType, SamePower
<1>4. f \in OwnFrame(SOFTIRQ)' /\ Uncounted(f)
  <2>1. /\ flags \in SUBSET CallFlags /\ "GET_PUT" \notin flags
        /\ "suspend" \in NewAts
    BY DEF CallFlags, NewAts
  <2> HIDE DEF flags
  <2> QED  BY <2>1, NewOwn
<1> HIDE DEF q, f
<1>5. power' \in [Devices -> PowerType] /\ AllPowerSame
  BY <1>1, <1>2, <1>3, SetPowerSame
<1>6. stack' \in Stacks /\ StackInv' /\ CountsSame
  BY <1>1, <1>2, <1>4, EnterSame
<1> QED  BY <1>1, <1>2, <1>5, <1>6, LockTypes, QuietStep

LEMMA ScheduleStep ==
  ASSUME IInv, NEW t \in Tasks, NEW d \in Devices, pm_schedule_suspend(t, d)
  PROVE  IInv'
<1> DEFINE p == pm_runtime_cancel_pending(power[d])
           q == [p EXCEPT !.timer = "suspend"]
<1>1. TypeOK /\ StackInv /\ power[d] \in PowerType  BY DEF IInv, TypeOK
<1>2. /\ SetPower(d, q) /\ UNCHANGED <<refs, held, disabled>> /\ UNCHANGED <<lock, stack, asleep>>
  BY DEF pm_schedule_suspend
<1>3. p \in PowerType /\ SamePower(power[d], p)  BY <1>1, CancelType
<1> HIDE DEF p
<1>4. q \in PowerType /\ SamePower(p, q)  BY <1>3 DEF PowerType, SamePower
<1>5. SamePower(power[d], q)  BY <1>3, <1>4 DEF SamePower
<1> HIDE DEF q
<1>6. power' \in [Devices -> PowerType] /\ AllPowerSame
  BY <1>1, <1>2, <1>4, <1>5, SetPowerSame
<1>7. stack' \in Stacks /\ StackInv' /\ CountsSame  BY <1>1, <1>2, StillSame
<1> QED  BY <1>1, <1>2, <1>6, <1>7, QuietStep DEF TypeOK

(* A barrier, or a disable in its barrier, goes on.                        *)
LEMMA BarrierGoto ==
  ASSUME IInv, NEW a \in Actors, NEW at \in BarrierAts, Running(a, at),
         NEW to \in BarrierAts \ {"barrier_enter"}
  PROVE  /\ [Top(a) EXCEPT !.at = to] \in OwnFrame(a)
         /\ Alike(Top(a), [Top(a) EXCEPT !.at = to])
<1> DEFINE f == Top(a)
           g == [f EXCEPT !.at = to]
<1>1. /\ f.at = at /\ f \in OwnFrame(a) /\ f \in GoodFrame /\ f \in FrameType
  BY AtTop
<1> HIDE DEF f
<1>2. g.at = to /\ g.dev = f.dev /\ g.flags = f.flags /\ g.par = f.par /\ g \in FrameType
  BY <1>1 DEF FrameType, BarrierAts
<1>3. Alike(f, g)
  <2>1. {f.at, to} \cap {"suspend_cb", "resume_cb", "disable_resumed"} = {}
    BY <1>1 DEF BarrierAts
  <2>2. f.at \in BarrierAts <=> to \in BarrierAts  BY <1>1
  <2> QED  BY <1>1, <1>2, <2>1, <2>2, GotoAlike
<1> HIDE DEF g
<1>4. ~f.par  BY <1>1 DEF GoodFrame, BarrierAts, ResumeAts
<1>5. g \in GoodFrame
  BY <1>1, <1>2, <1>4 DEF GoodFrame, BarrierAts
<1>6. g \in OwnFrame(a)  BY <1>1, <1>2, <1>5 DEF OwnFrame, BarrierAts, ResumeAts
<1> QED  BY <1>3, <1>6 DEF f, g

LEMMA BarrierSame ==
  ASSUME IInv, NEW a \in Actors, NEW at \in BarrierAts, Running(a, at),
         NEW to \in BarrierAts \ {"barrier_enter"}, Goto(a, to), refs' = refs
  PROVE  stack' \in Stacks /\ StackInv' /\ CountsSame
<1> DEFINE g == [Top(a) EXCEPT !.at = to]
<1>1. g \in OwnFrame(a) /\ Alike(Top(a), g)  BY BarrierGoto
<1>2. TypeOK /\ StackInv /\ stack[a] # <<>>  BY AtTop
<1>3. Become(a, g)  BY DEF Goto
<1> HIDE DEF g
<1> QED  BY <1>1, <1>2, <1>3, BecomeSame

LEMMA BarrierEnterStep ==
  ASSUME IInv, NEW t \in Tasks, barrier_enter(t)
  PROVE  IInv'
<1> DEFINE d == Top(t).dev
<1>0. t \in Actors  BY DEF Actors
<1>1. Running(t, "barrier_enter") /\ "barrier_enter" \in BarrierAts /\ "barrier" \in BarrierAts
  BY DEF barrier_enter, Section, BarrierAts
<1>2. TypeOK /\ StackInv /\ stack[t] # <<>> /\ d \in Devices  BY <1>0, <1>1, AtTop
<1>3. /\ UNCHANGED <<refs, held, disabled>> /\ UNCHANGED <<power, asleep>> /\ Keep(t, d)
  BY DEF barrier_enter
<1>4. power' \in [Devices -> PowerType] /\ AllPowerSame
  BY <1>2, <1>3, KeepPowerSame
<1>5. CASE Call(t, "barrier", Frame("resume", d, {}))
  <2>1. {} \in SUBSET CallFlags /\ "GET_PUT" \notin {} /\ "resume" \in NewAts
    BY DEF NewAts
  <2>2. Frame("resume", d, {}) \in OwnFrame(t) /\ Uncounted(Frame("resume", d, {}))
    BY <1>2, <2>1, NewOwn
  <2>3. /\ [Top(t) EXCEPT !.at = "barrier"] \in OwnFrame(t)
        /\ Alike(Top(t), [Top(t) EXCEPT !.at = "barrier"])
    BY <1>0, <1>1, BarrierGoto
  <2>4. stack' \in Stacks /\ StackInv' /\ CountsSame
    BY <1>0, <1>2, <1>3, <1>5, <2>2, <2>3, CallSame
  <2> QED  BY <1>0, <1>2, <1>3, <1>4, <2>4, LockTypes, QuietStep
<1>6. CASE Goto(t, "barrier")
  <2>1. stack' \in Stacks /\ StackInv' /\ CountsSame
    BY <1>0, <1>1, <1>3, <1>6, BarrierSame
  <2> QED  BY <1>0, <1>2, <1>3, <1>4, <2>1, LockTypes, QuietStep
<1> QED  BY <1>5, <1>6 DEF barrier_enter

LEMMA BarrierStep ==
  ASSUME IInv, NEW t \in Tasks, __pm_runtime_barrier(t)
  PROVE  IInv'
<1> DEFINE d == Top(t).dev
           p == power[d]
<1>0. t \in Actors  BY DEF Actors
<1>1. /\ Running(t, "barrier") /\ "barrier" \in BarrierAts
      /\ "cancel" \in BarrierAts /\ "barrier_wait" \in BarrierAts
  BY DEF __pm_runtime_barrier, Section, BarrierAts
<1>2. TypeOK /\ d \in Devices /\ p \in PowerType  BY <1>0, <1>1, AtTop
<1>3. UNCHANGED <<refs, held, disabled>> /\ UNCHANGED asleep  BY DEF __pm_runtime_barrier
<1>4. CASE /\ SetPower(d, [p EXCEPT !.timer = "off", !.request = "NONE"])
           /\ Goto(t, "cancel") /\ Drop(d)
  <2> DEFINE q == [p EXCEPT !.timer = "off", !.request = "NONE"]
  <2>1. q \in PowerType /\ SamePower(p, q)  BY <1>2 DEF PowerType, SamePower, Requests
  <2> HIDE DEF q
  <2>2. power' \in [Devices -> PowerType] /\ AllPowerSame
    BY <1>2, <1>4, <2>1, SetPowerSame DEF q
  <2>3. stack' \in Stacks /\ StackInv' /\ CountsSame
    BY <1>0, <1>1, <1>3, <1>4, BarrierSame
  <2> QED  BY <1>0, <1>2, <1>3, <1>4, <2>2, <2>3, LockTypes, QuietStep
<1>5. CASE /\ SetPower(d, [p EXCEPT !.timer = "off"])
           /\ Goto(t, "barrier_wait") /\ Keep(t, d)
  <2> DEFINE q == [p EXCEPT !.timer = "off"]
  <2>1. q \in PowerType /\ SamePower(p, q)  BY <1>2 DEF PowerType, SamePower
  <2> HIDE DEF q
  <2>2. power' \in [Devices -> PowerType] /\ AllPowerSame
    BY <1>2, <1>5, <2>1, SetPowerSame DEF q
  <2>3. stack' \in Stacks /\ StackInv' /\ CountsSame
    BY <1>0, <1>1, <1>3, <1>5, BarrierSame
  <2> QED  BY <1>0, <1>2, <1>3, <1>5, <2>2, <2>3, LockTypes, QuietStep
<1> QED  BY <1>4, <1>5 DEF __pm_runtime_barrier

LEMMA CancelStep ==
  ASSUME IInv, NEW t \in Tasks, cancel_work_sync(t)
  PROVE  IInv'
<1> DEFINE d == Top(t).dev
           p == power[d]
           q == [p EXCEPT !.work = "grabbed"]
<1>0. t \in Actors  BY DEF Actors
<1>1. Running(t, "cancel") /\ "cancel" \in BarrierAts /\ "cancelled" \in BarrierAts
  BY DEF cancel_work_sync, BarrierAts
<1>2. TypeOK /\ d \in Devices /\ p \in PowerType  BY <1>0, <1>1, AtTop
<1>3. /\ UNCHANGED <<refs, held, disabled>> /\ UNCHANGED <<lock, asleep>>
      /\ SetPower(d, q) /\ Goto(t, "cancelled")
  BY DEF cancel_work_sync
<1>4. q \in PowerType /\ SamePower(p, q)  BY <1>2 DEF PowerType, SamePower
<1> HIDE DEF q
<1>5. power' \in [Devices -> PowerType] /\ AllPowerSame
  BY <1>2, <1>3, <1>4, SetPowerSame
<1>6. stack' \in Stacks /\ StackInv' /\ CountsSame
  BY <1>0, <1>1, <1>3, BarrierSame
<1> QED  BY <1>0, <1>2, <1>3, <1>5, <1>6, LockTypes, QuietStep

LEMMA CancelledStep ==
  ASSUME IInv, NEW t \in Tasks, barrier_cancelled(t)
  PROVE  IInv'
<1> DEFINE d == Top(t).dev
           p == power[d]
           q == [p EXCEPT !.work = "off", !.pending = FALSE,
                         !.swallowed = @ \/ p.request # "NONE"]
<1>0. t \in Actors  BY DEF Actors
<1>1. Running(t, "cancelled") /\ "cancelled" \in BarrierAts /\ "barrier_wait" \in BarrierAts
  BY DEF barrier_cancelled, Section, BarrierAts
<1>2. TypeOK /\ d \in Devices /\ p \in PowerType  BY <1>0, <1>1, AtTop
<1>3. /\ UNCHANGED <<refs, held, disabled>> /\ UNCHANGED asleep
      /\ SetPower(d, q) /\ Goto(t, "barrier_wait") /\ Keep(t, d)
  BY DEF barrier_cancelled
<1>4. q \in PowerType /\ SamePower(p, q)  BY <1>2 DEF PowerType, SamePower
<1> HIDE DEF q
<1>5. power' \in [Devices -> PowerType] /\ AllPowerSame
  BY <1>2, <1>3, <1>4, SetPowerSame
<1>6. stack' \in Stacks /\ StackInv' /\ CountsSame
  BY <1>0, <1>1, <1>3, BarrierSame
<1> QED  BY <1>0, <1>2, <1>3, <1>5, <1>6, LockTypes, QuietStep

(***************************************************************************)
(* A status changes.                                                       *)
(***************************************************************************)

(* A device that is held, or whose child or barrier is at it, is in use.   *)
LEMMA InUse ==
  ASSUME IInv, NEW d \in Devices
  PROVE  /\ Cardinality(Users(d)) \in Nat /\ Count(OnParent(d)) \in Nat
         /\ Count(InBarrier(d)) \in Nat
         /\ (\E t \in Tasks : d \in refs[t]) => Cardinality(Users(d)) >= 1
         /\ power[d].usage = 0 => \A t \in Tasks : d \notin refs[t] /\ d \notin held[t]
<1>1. IsFiniteSet(Users(d))  BY PMAssumption, FS_Subset DEF Users
<1>2. Cardinality(Users(d)) \in Nat /\ (Cardinality(Users(d)) = 0 <=> Users(d) = {})
  BY <1>1, FS_CardinalityType, FS_EmptySet
<1>3. stack \in Stacks  BY DEF IInv, TypeOK, Stacks
<1>4. Count(OnParent(d)) \in Nat /\ Count(InBarrier(d)) \in Nat  BY <1>3, CountType DEF Count
<1>5. (\E t \in Tasks : d \in refs[t]) => Cardinality(Users(d)) >= 1
  BY <1>2 DEF Users
<1>6. power[d].usage = 0 => Cardinality(Users(d)) = 0
  <2>1. Fixed(power[d]) \in Nat  BY DEF Fixed
  <2>2. power[d].usage = Cardinality(Users(d)) + Count(OnParent(d)) + Count(InBarrier(d))
                           + Fixed(power[d])
    BY DEF IInv, UsageInv
  <2>3. \A c, m, n, k \in Nat : c + m + n + k = 0 => c = 0  OBVIOUS
  <2> QED  BY <1>2, <1>4, <2>1, <2>2, <2>3, Zenon
<1>7. power[d].usage = 0 => \A t \in Tasks : d \notin refs[t]
  BY <1>2, <1>6 DEF Users
<1> QED  BY <1>2, <1>4, <1>5, <1>7 DEF IInv, HeldInv

(* All is counted as before but the callbacks of d.                        *)
CountsBut(d) == \A e \in Devices :
  /\ e # d => /\ Count(InSuspend(e))' = Count(InSuspend(e))
              /\ Count(InResume(e))' = Count(InResume(e))
  /\ Count(OnParent(e))' = Count(OnParent(e))
  /\ Count(InBarrier(e))' = Count(InBarrier(e))
  /\ Count(DepthRaised(e))' = Count(DepthRaised(e))

(* A call enters or leaves a callback.                                     *)
LEMMA BecomeCallback ==
  ASSUME TypeOK, StackInv, NEW a \in Actors, stack[a] # <<>>, NEW f \in OwnFrame(a),
         Become(a, f), refs' = refs, f.dev = Top(a).dev, f.par <=> Top(a).par,
         "DISABLE" \notin f.flags, "DISABLE" \notin Top(a).flags,
         {f.at, Top(a).at} \cap ({"disable_resumed"} \cup BarrierAts) = {}
  PROVE  /\ stack' \in Stacks /\ StackInv' /\ CountsBut(f.dev)
         /\ Count(InSuspend(f.dev)) \in Nat /\ Count(InResume(f.dev)) \in Nat
         /\ Count(InSuspend(f.dev))' = Count(InSuspend(f.dev)) + One(f.at = "suspend_cb")
                                         - One(Top(a).at = "suspend_cb")
         /\ Count(InResume(f.dev))' = Count(InResume(f.dev)) + One(f.at = "resume_cb")
                                         - One(Top(a).at = "resume_cb")
<1>1. stack' \in Stacks /\ StackInv'
  BY BecomeEffect
<1>2. \A P : /\ Count(P) \in Nat
             /\ Count(P)' = Count(P) + One(f \in P) - One(Top(a) \in P)
  BY BecomeEffect
<1>3. f \in FrameType /\ Top(a) \in FrameType  BY TopType DEF OwnFrame, GoodFrame
<1>4. ASSUME NEW P, Top(a) \in P <=> f \in P PROVE Count(P)' = Count(P)
  BY <1>2, <1>4 DEF One
<1>5. CountsBut(f.dev)
  <2> SUFFICES ASSUME NEW e \in Devices
               PROVE  /\ e # f.dev => /\ Top(a) \in InSuspend(e) <=> f \in InSuspend(e)
                                      /\ Top(a) \in InResume(e) <=> f \in InResume(e)
                      /\ Top(a) \in OnParent(e) <=> f \in OnParent(e)
                      /\ Top(a) \in InBarrier(e) <=> f \in InBarrier(e)
                      /\ Top(a) \in DepthRaised(e) <=> f \in DepthRaised(e)
    BY <1>4 DEF CountsBut
  <2> QED  BY <1>3 DEF InSuspend, InResume, OnParent, InBarrier, DepthRaised
<1>6. /\ f \in InSuspend(f.dev) <=> f.at = "suspend_cb"
      /\ Top(a) \in InSuspend(f.dev) <=> Top(a).at = "suspend_cb"
      /\ f \in InResume(f.dev) <=> f.at = "resume_cb"
      /\ Top(a) \in InResume(f.dev) <=> Top(a).at = "resume_cb"
  BY <1>3 DEF InSuspend, InResume
<1> QED  BY <1>1, <1>2, <1>5, <1>6 DEF One

LEMMA ReturnCallback ==
  ASSUME TypeOK, StackInv, NEW a \in Actors, stack[a] # <<>>,
         Return(a), refs' = refs, ~Top(a).par, "DISABLE" \notin Top(a).flags,
         Top(a).at \in {"suspend_cb", "resume_cb"}, NEW d, d = Top(a).dev
  PROVE  /\ stack' \in Stacks /\ StackInv' /\ CountsBut(d)
         /\ Count(InSuspend(d)) \in Nat /\ Count(InResume(d)) \in Nat
         /\ Count(InSuspend(d))' = Count(InSuspend(d)) - One(Top(a).at = "suspend_cb")
         /\ Count(InResume(d))' = Count(InResume(d)) - One(Top(a).at = "resume_cb")
<1>0. stack' = [stack EXCEPT ![a] = Tail(stack[a])]  BY DEF Return
<1>1. stack' \in Stacks /\ StackInv'
  BY <1>0, ReturnEffect
<1>2. \A P : Count(P) \in Nat /\ Count(P)' = Count(P) - One(Top(a) \in P)
  BY <1>0, ReturnEffect
<1>3. Top(a) \in FrameType  BY TopType
<1>4. ASSUME NEW P, Top(a) \notin P PROVE Count(P)' = Count(P)
  BY <1>2, <1>4 DEF One
<1>5. CountsBut(d)
  <2> SUFFICES ASSUME NEW e \in Devices
               PROVE  /\ e # d => Top(a) \notin InSuspend(e) /\ Top(a) \notin InResume(e)
                      /\ Top(a) \notin OnParent(e) /\ Top(a) \notin InBarrier(e)
                      /\ Top(a) \notin DepthRaised(e)
    BY <1>4 DEF CountsBut
  <2> QED  BY <1>3 DEF InSuspend, InResume, OnParent, InBarrier, DepthRaised,
                       BarrierAts
<1>6. /\ Top(a) \in InSuspend(d) <=> Top(a).at = "suspend_cb"
      /\ Top(a) \in InResume(d) <=> Top(a).at = "resume_cb"
  BY <1>3 DEF InSuspend, InResume
<1>7. /\ One(Top(a) \in InSuspend(d)) = One(Top(a).at = "suspend_cb")
      /\ One(Top(a) \in InResume(d)) = One(Top(a).at = "resume_cb")
  BY <1>6 DEF One
<1>8. /\ Count(InSuspend(d)) \in Nat /\ Count(InResume(d)) \in Nat
      /\ Count(InSuspend(d))' = Count(InSuspend(d)) - One(Top(a).at = "suspend_cb")
      /\ Count(InResume(d))' = Count(InResume(d)) - One(Top(a).at = "resume_cb")
  BY <1>2, <1>7
<1> QED  BY <1>1, <1>5, <1>8

(* What is left to show of a step that changes the status of d.            *)
UseSame == \A e \in Devices :
  /\ power'[e].usage = power[e].usage /\ power'[e].depth = power[e].depth
  /\ power'[e].auto <=> power[e].auto
  /\ power'[e].autosuspend = power[e].autosuspend

LEMMA StatusStep ==
  ASSUME IInv, NEW d \in Devices, power' \in [Devices -> PowerType], UseSame,
         \A e \in Devices \ {d} : /\ power'[e].status = power[e].status
                                  /\ power'[e].error <=> power[e].error,
         power'[d].error \/ (power'[d].depth # 0 /\ Count(DepthRaised(d))' = 0) => ~Changing(power'[d]),
         ChildInv', stack' \in Stacks, StackInv', CountsBut(d),
         Count(InSuspend(d))' = One(power'[d].status = "SUSPENDING"),
         Count(InResume(d))' = One(power'[d].status = "RESUMING"),
         lock' \in [Devices -> Actors \cup {NULL}], asleep' \subseteq Actors,
         held' \in [Tasks -> SUBSET Devices], HeldInv', HeldIsActive',
         UNCHANGED <<refs, disabled>>
  PROVE  IInv'
<1>1. CallbackInv'
  BY DEF IInv, CallbackInv, CountsBut
<1>2. DepthInv'
  <2>1. \A e \in Devices : Disablers(e)' = Disablers(e)  BY DEF Disablers
  <2> QED  BY <2>1 DEF IInv, DepthInv, UseSame, CountsBut
<1>3. RestInv'
  BY DEF IInv, RestInv, Changing, UseSame, CountsBut
<1>4. UsageInv'
  <2>1. \A e \in Devices : Users(e)' = Users(e)  BY DEF Users
  <2> QED  BY <2>1 DEF IInv, UsageInv, Fixed, UseSame, CountsBut
<1>5. TypeOK'  BY DEF IInv, TypeOK, Stacks
<1> QED  BY <1>1, <1>2, <1>3, <1>4, <1>5 DEF IInv

(* child_count when a device goes up, goes down or does neither.           *)
LEMMA UpFinite == \A u \in Devices : IsFiniteSet(Up(u)) /\ Cardinality(Up(u)) \in Nat
BY PMAssumption, FS_Subset, FS_CardinalityType DEF Up

Counts(p) == p.status \in {"ACTIVE", "SUSPENDING"}

LEMMA ChildrenSame ==
  ASSUME IInv, \A e \in Devices : /\ Counts(power'[e]) <=> Counts(power[e])
                                  /\ power'[e].children = power[e].children
  PROVE  ChildInv'
<1>1. \A u \in Devices : Up(u)' = Up(u)  BY DEF Up, Counts
<1> QED  BY <1>1 DEF IInv, ChildInv

LEMMA ChildDown ==
  ASSUME IInv, NEW d \in Devices, Counts(power[d]), ~Counts(power'[d]),
         \A e \in Devices \ {d} : Counts(power'[e]) <=> Counts(power[e]),
         \A e \in Devices \ {Parent[d]} : power'[e].children = power[e].children,
         Parent[d] \in Devices => power'[Parent[d]].children = power[Parent[d]].children - 1
  PROVE  ChildInv'
<1> SUFFICES ASSUME NEW u \in Devices PROVE power'[u].children = Cardinality(Up(u)')
  BY DEF ChildInv
<1>1. CASE u = Parent[d]
  <2>1. Up(u)' = Up(u) \ {d} /\ d \in Up(u)  BY <1>1 DEF Up, Counts
  <2>2. IsFiniteSet(Up(u))  BY UpFinite
  <2>3. Cardinality(Up(u) \ {d}) = Cardinality(Up(u)) - 1
    BY <2>1, <2>2, FS_RemoveElement
  <2> QED  BY <1>1, <2>1, <2>3 DEF IInv, ChildInv
<1>2. CASE u # Parent[d]
  <2>1. Up(u)' = Up(u)  BY <1>2 DEF Up, Counts
  <2> QED  BY <1>2, <2>1 DEF IInv, ChildInv
<1> QED  BY <1>1, <1>2

LEMMA ChildUp ==
  ASSUME IInv, NEW d \in Devices, ~Counts(power[d]), Counts(power'[d]),
         \A e \in Devices \ {d} : Counts(power'[e]) <=> Counts(power[e]),
         \A e \in Devices \ {Parent[d]} : power'[e].children = power[e].children,
         Parent[d] \in Devices => power'[Parent[d]].children = power[Parent[d]].children + 1
  PROVE  ChildInv'
<1> SUFFICES ASSUME NEW u \in Devices PROVE power'[u].children = Cardinality(Up(u)')
  BY DEF ChildInv
<1>1. CASE u = Parent[d]
  <2>1. Up(u)' = Up(u) \cup {d} /\ d \notin Up(u)  BY <1>1 DEF Up, Counts
  <2>2. IsFiniteSet(Up(u))  BY UpFinite
  <2>3. Cardinality(Up(u) \cup {d}) = Cardinality(Up(u)) + 1
    BY <2>1, <2>2, FS_AddElement
  <2> QED  BY <1>1, <2>1, <2>3 DEF IInv, ChildInv
<1>2. CASE u # Parent[d]
  <2>1. Up(u)' = Up(u)  BY <1>2 DEF Up, Counts
  <2> QED  BY <1>2, <2>1 DEF IInv, ChildInv
<1> QED  BY <1>1, <1>2

LEMMA UpParent ==
  ASSUME IInv, NEW d \in Devices, Counts(power[d]), Parent[d] \in Devices
  PROVE  power[Parent[d]].children > 0
<1>1. d \in Up(Parent[d])  BY DEF Up, Counts
<1>2. IsFiniteSet(Up(Parent[d])) /\ Cardinality(Up(Parent[d])) \in Nat  BY UpFinite
<1>3. Cardinality(Up(Parent[d])) # 0  BY <1>1, <1>2, FS_EmptySet
<1> QED  BY <1>2, <1>3 DEF IInv, ChildInv

(* ->runtime_suspend() is called only for a device nobody uses.            *)
LEMMA SuspendEntry ==
  ASSUME IInv, NEW a \in Actors, Running(a, "suspend"), NEW d \in Devices, d = Top(a).dev,
         SuspendGoes(a), power[d].status # "SUSPENDING", ~Async(a),
         SetPower(d, [pm_runtime_cancel_pending(power[d]) EXCEPT
                        !.deferred = FALSE, !.status = "SUSPENDING"]),
         Goto(a, "suspend_cb"), Drop(d), UNCHANGED asleep, UNCHANGED <<refs, held, disabled>>
  PROVE  IInv'
<1> DEFINE p == power[d]
           q == pm_runtime_cancel_pending(p)
           r == [q EXCEPT !.deferred = FALSE, !.status = "SUSPENDING"]
           f == Top(a)
           g == [f EXCEPT !.at = "suspend_cb"]
<1>1. /\ TypeOK /\ StackInv /\ stack[a] # <<>> /\ p \in PowerType
      /\ f.at = "suspend" /\ f \in OwnFrame(a) /\ f \in GoodFrame /\ f \in FrameType
  BY AtTop
<1>2. q \in PowerType /\ SamePower(p, q)  BY <1>1, CancelType
<1> HIDE DEF q
<1>3. /\ r \in PowerType /\ r.status = "SUSPENDING" /\ r.usage = q.usage
      /\ r.children = q.children /\ r.depth = q.depth /\ (r.error <=> q.error)
      /\ (r.auto <=> q.auto) /\ r.autosuspend = q.autosuspend
  BY <1>2 DEF PowerType, Statuses
<1> HIDE DEF r
<1>4. /\ power' \in [Devices -> PowerType] /\ power'[d] = r
      /\ \A e \in Devices \ {d} : power'[e] = power[e]
  BY <1>1, <1>3, SetPowerType DEF q, r
<1>5. p.status = "ACTIVE" /\ ~p.error /\ p.usage = 0 /\ p.depth = 0
  BY <1>1 DEF SuspendGoes, rpm_check_suspend_allowed, SuspendDenied, PowerType, Statuses
<1> HIDE DEF p
<1>6. UseSame  BY <1>2, <1>3, <1>4 DEF UseSame, SamePower, p
<1>7. ChildInv'
  <2>1. \A e \in Devices : /\ Counts(power'[e]) <=> Counts(power[e])
                           /\ power'[e].children = power[e].children
    BY <1>2, <1>3, <1>4, <1>5 DEF Counts, SamePower, p
  <2> QED  BY <2>1, ChildrenSame
<1>8. power'[d].depth = 0  BY <1>2, <1>3, <1>4, <1>5 DEF SamePower
<1>9. HeldInv' /\ HeldIsActive' /\ held' \in [Tasks -> SUBSET Devices]
  <2>1. \A t \in Tasks : d \notin held[t]  BY <1>5, InUse DEF p
  <2> QED  BY <1>4, <2>1 DEF IInv, TypeOK, HeldInv, HeldIsActive
<1>10. /\ g \in OwnFrame(a) /\ g.dev = d /\ (g.par <=> f.par) /\ g.at = "suspend_cb"
       /\ "DISABLE" \notin g.flags /\ "DISABLE" \notin f.flags
  <2>1. "DISABLE" \notin f.flags /\ ~f.par  BY <1>1 DEF GoodFrame, BarrierAts, ResumeAts
  <2>2. /\ g \in FrameType /\ g.at = "suspend_cb" /\ g.dev = d /\ g.par = f.par
        /\ g.flags = f.flags
    BY <1>1 DEF FrameType
  <2> HIDE DEF f, g
  <2>3. g \in GoodFrame  BY <2>1, <2>2 DEF GoodFrame, BarrierAts, ResumeAts
  <2> QED  BY <2>1, <2>2, <2>3 DEF OwnFrame, ResumeAts
<1>11. Become(a, g)  BY DEF Goto
<1>12. {g.at, f.at} \cap ({"disable_resumed"} \cup BarrierAts) = {}
  BY <1>1, <1>10 DEF BarrierAts
<1> HIDE DEF g
<1>13. /\ stack' \in Stacks /\ StackInv' /\ CountsBut(d)
       /\ Count(InSuspend(d)) \in Nat /\ Count(InResume(d)) \in Nat
       /\ Count(InSuspend(d))' = Count(InSuspend(d)) + 1 - 0
       /\ Count(InResume(d))' = Count(InResume(d)) + 0 - 0
  <2>1. PICK h : h = g  OBVIOUS
  <2>2. /\ stack' \in Stacks /\ StackInv' /\ CountsBut(h.dev)
        /\ Count(InSuspend(h.dev)) \in Nat /\ Count(InResume(h.dev)) \in Nat
        /\ Count(InSuspend(h.dev))' = Count(InSuspend(h.dev)) + One(h.at = "suspend_cb")
                                         - One(f.at = "suspend_cb")
        /\ Count(InResume(h.dev))' = Count(InResume(h.dev)) + One(h.at = "resume_cb")
                                         - One(f.at = "resume_cb")
    BY <1>1, <1>10, <1>11, <1>12, <2>1, BecomeCallback
  <2>3. /\ h.dev = d /\ One(h.at = "suspend_cb") = 1 /\ One(f.at = "suspend_cb") = 0
        /\ One(h.at = "resume_cb") = 0 /\ One(f.at = "resume_cb") = 0
    BY <1>1, <1>10, <2>1 DEF One
  <2> QED  BY <2>2, <2>3
<1>14. /\ Count(InSuspend(d))' = One(power'[d].status = "SUSPENDING")
       /\ Count(InResume(d))' = One(power'[d].status = "RESUMING")
  <2>1. Count(InSuspend(d)) = 0 /\ Count(InResume(d)) = 0
    BY <1>5 DEF IInv, CallbackInv, One, p
  <2> QED  BY <1>3, <1>4, <1>13, <2>1 DEF One
<1>15. power'[d].error \/ (power'[d].depth # 0 /\ Count(DepthRaised(d))' = 0) => ~Changing(power'[d])
  BY <1>2, <1>3, <1>4, <1>5, <1>8 DEF SamePower
<1>16. \A e \in Devices \ {d} : /\ power'[e].status = power[e].status
                                /\ power'[e].error <=> power[e].error
  BY <1>4
<1>17. lock' \in [Devices -> Actors \cup {NULL}] /\ asleep' \subseteq Actors
  BY <1>1, LockTypes
<1> QED  BY <1>4, <1>6, <1>7, <1>9, <1>13, <1>14, <1>15, <1>16, <1>17, StatusStep

LEMMA SuspendStep ==
  ASSUME IInv, NEW a \in Actors, rpm_suspend(a)
  PROVE  IInv'
<1> DEFINE at == "suspend"
           req == IF "AUTO" \in Top(a).flags THEN "AUTOSUSPEND" ELSE "SUSPEND"
<1>1. Running(a, at) /\ at \in PlainAts /\ at \notin ResumeAts
  BY DEF rpm_suspend, Section, PlainAts, ResumeAts
<1>2. PICK d \in Devices : d = Top(a).dev  BY <1>1, AtTop
<1> DEFINE p == power[d]
           q == pm_runtime_cancel_pending(p)
           q1 == [p EXCEPT !.request = "NONE", !.timer = "auto"]
           q2 == [q EXCEPT !.deferred = FALSE]
           q3 == QueueRequest(q2, req)
<1>3. TypeOK /\ StackInv /\ p \in PowerType /\ ~Top(a).par
  BY <1>1, <1>2, AtTop DEF GoodFrame
<1>4. UNCHANGED <<refs, held, disabled>>  BY DEF rpm_suspend
<1>5. \/ Return(a) /\ UNCHANGED <<power, asleep>>
      \/ SetPower(d, q1) /\ Return(a) /\ UNCHANGED asleep
      \/ SetPower(d, q) /\ Return(a) /\ UNCHANGED asleep
      \/ SetPower(d, q) /\ asleep' = asleep \cup {a} /\ Goto(a, "suspend_wait") /\ Drop(d)
      \/ SetPower(d, q3) /\ Return(a) /\ UNCHANGED asleep
      \/ /\ SuspendGoes(a) /\ p.status # "SUSPENDING" /\ ~Async(a)
         /\ SetPower(d, [q EXCEPT !.deferred = FALSE, !.status = "SUSPENDING"])
         /\ Goto(a, "suspend_cb") /\ Drop(d)
         /\ UNCHANGED asleep
  BY <1>2 DEF rpm_suspend
<1>6. q \in PowerType /\ SamePower(p, q)  BY <1>3, CancelType
<1>7. q1 \in PowerType /\ SamePower(p, q1)
  BY <1>3 DEF PowerType, Requests, SamePower
<1>8. q3 \in PowerType /\ SamePower(p, q3)
  <2> HIDE DEF q
  <2>1. q2 \in PowerType /\ SamePower(q, q2)  BY <1>6 DEF PowerType, SamePower
  <2>2. req \in Requests  BY DEF Requests
  <2> HIDE DEF q2, req
  <2>3. q3 \in PowerType /\ SamePower(q2, q3)  BY <2>1, <2>2, QueueType
  <2> QED  BY <1>6, <2>1, <2>3 DEF SamePower
<1>9. Return(a) => stack' \in Stacks /\ StackInv' /\ CountsSame
  BY <1>1, <1>3, <1>4, PlainReturn
<1>10. Goto(a, "suspend_wait") => stack' \in Stacks /\ StackInv' /\ CountsSame
  <2>1. "suspend_wait" \in PlainAts /\ "suspend_wait" \notin ResumeAts
    BY DEF PlainAts, ResumeAts
  <2> QED  BY <1>1, <1>4, <2>1, GotoSame
<1> HIDE DEF q, q1, q3
<1>11. CASE Return(a) /\ UNCHANGED <<power, asleep>>
  <2>1. power' \in [Devices -> PowerType] /\ AllPowerSame  BY <1>3, <1>11, KeepPowerSame
  <2> QED  BY <1>3, <1>4, <1>9, <1>11, <2>1, LockTypes, QuietStep
<1>12. CASE SetPower(d, q1) /\ Return(a) /\ UNCHANGED asleep
  <2>1. power' \in [Devices -> PowerType] /\ AllPowerSame  BY <1>3, <1>7, <1>12, SetPowerSame
  <2> QED  BY <1>3, <1>4, <1>9, <1>12, <2>1, LockTypes, QuietStep
<1>13. CASE SetPower(d, q) /\ Return(a) /\ UNCHANGED asleep
  <2>1. power' \in [Devices -> PowerType] /\ AllPowerSame  BY <1>3, <1>6, <1>13, SetPowerSame
  <2> QED  BY <1>3, <1>4, <1>9, <1>13, <2>1, LockTypes, QuietStep
<1>14. CASE SetPower(d, q) /\ asleep' = asleep \cup {a} /\ Goto(a, "suspend_wait") /\ Drop(d)
  <2>1. power' \in [Devices -> PowerType] /\ AllPowerSame  BY <1>3, <1>6, <1>14, SetPowerSame
  <2> QED  BY <1>3, <1>4, <1>10, <1>14, <2>1, LockTypes, QuietStep
<1>15. CASE SetPower(d, q3) /\ Return(a) /\ UNCHANGED asleep
  <2>1. power' \in [Devices -> PowerType] /\ AllPowerSame  BY <1>3, <1>8, <1>15, SetPowerSame
  <2> QED  BY <1>3, <1>4, <1>9, <1>15, <2>1, LockTypes, QuietStep
<1>16. CASE /\ SuspendGoes(a) /\ p.status # "SUSPENDING" /\ ~Async(a)
            /\ SetPower(d, [q EXCEPT !.deferred = FALSE, !.status = "SUSPENDING"])
            /\ Goto(a, "suspend_cb") /\ Drop(d)
            /\ UNCHANGED asleep
  BY <1>1, <1>2, <1>4, <1>16, SuspendEntry DEF q
<1> QED  BY <1>5, <1>11, <1>12, <1>13, <1>14, <1>15, <1>16

(* What a call in a callback knows.                                        *)
LEMMA InCallback ==
  ASSUME IInv, NEW a \in Actors, NEW at \in {"suspend_cb", "resume_cb"}, Running(a, at),
         NEW d \in Devices, d = Top(a).dev
  PROVE  /\ at = "suspend_cb" => /\ power[d].status = "SUSPENDING"
                                 /\ Count(InSuspend(d)) = 1 /\ Count(InResume(d)) = 0
         /\ at = "resume_cb" => /\ power[d].status = "RESUMING"
                                /\ Count(InSuspend(d)) = 0 /\ Count(InResume(d)) = 1
         /\ ~power[d].error
         /\ \A t \in Tasks : d \notin held[t]
         /\ "DISABLE" \notin Top(a).flags
<1>1. /\ TypeOK /\ StackInv /\ stack[a] # <<>> /\ Top(a).at = at
      /\ Top(a) \in GoodFrame /\ Top(a) \in FrameType
  BY AtTop
<1>2. at = "suspend_cb" => Count(InSuspend(d)) >= 1 /\ Count(InSuspend(d)) \in Nat
  <2> HAVE at = "suspend_cb"
  <2>1. Top(a) \in InSuspend(d)  BY <1>1 DEF InSuspend
  <2> QED  BY <1>1, <2>1, TopCounted
<1>3. at = "resume_cb" => Count(InResume(d)) >= 1 /\ Count(InResume(d)) \in Nat
  <2> HAVE at = "resume_cb"
  <2>1. Top(a) \in InResume(d)  BY <1>1 DEF InResume
  <2> QED  BY <1>1, <2>1, TopCounted
<1>4. /\ Count(InSuspend(d)) = One(power[d].status = "SUSPENDING")
      /\ Count(InResume(d)) = One(power[d].status = "RESUMING")
  BY DEF IInv, CallbackInv
<1>5. at = "suspend_cb" => power[d].status = "SUSPENDING"  BY <1>2, <1>4 DEF One
<1>6. at = "resume_cb" => power[d].status = "RESUMING"  BY <1>3, <1>4 DEF One
<1>7. Changing(power[d])  BY <1>5, <1>6 DEF Changing
<1>8. ~power[d].error  BY <1>7 DEF IInv, RestInv
<1>9. \A t \in Tasks : d \notin held[t]  BY <1>7 DEF IInv, HeldIsActive, Changing
<1>10. "DISABLE" \notin Top(a).flags  BY <1>1 DEF GoodFrame, BarrierAts
<1> QED  BY <1>4, <1>5, <1>6, <1>8, <1>9, <1>10 DEF One

(* A callback is over, and its call goes on with the frame f.              *)
LEMMA CallbackBecome ==
  ASSUME IInv, NEW a \in Actors, NEW at \in {"suspend_cb", "resume_cb"}, Running(a, at),
         NEW d \in Devices, d = Top(a).dev, NEW f \in OwnFrame(a), f.dev = d,
         f.par <=> Top(a).par, "DISABLE" \notin f.flags,
         f.at \in {"suspend", "resume", "suspend_notify", "resume_put"},
         Become(a, f), refs' = refs
  PROVE  /\ stack' \in Stacks /\ StackInv' /\ CountsBut(d)
         /\ Count(InSuspend(d))' = 0 /\ Count(InResume(d))' = 0
<1>1. /\ TypeOK /\ StackInv /\ stack[a] # <<>> /\ Top(a).at = at
  BY AtTop
<1>2. "DISABLE" \notin Top(a).flags  BY InCallback
<1>3. {f.at, Top(a).at} \cap ({"disable_resumed"} \cup BarrierAts) = {}
  BY <1>1 DEF BarrierAts
<1>4. /\ stack' \in Stacks /\ StackInv' /\ CountsBut(f.dev)
      /\ Count(InSuspend(f.dev))' = Count(InSuspend(f.dev)) + One(f.at = "suspend_cb")
                                         - One(Top(a).at = "suspend_cb")
      /\ Count(InResume(f.dev))' = Count(InResume(f.dev)) + One(f.at = "resume_cb")
                                         - One(Top(a).at = "resume_cb")
  BY <1>1, <1>2, <1>3, BecomeCallback
<1>5. /\ One(f.at = "suspend_cb") = 0 /\ One(f.at = "resume_cb") = 0
      /\ One(Top(a).at = "suspend_cb") = One(at = "suspend_cb")
      /\ One(Top(a).at = "resume_cb") = One(at = "resume_cb")
  BY <1>1 DEF One
<1>6. /\ Count(InSuspend(d)) = One(at = "suspend_cb")
      /\ Count(InResume(d)) = One(at = "resume_cb")
  BY InCallback DEF One
<1>7. One(at = "suspend_cb") \in Nat /\ One(at = "resume_cb") \in Nat  BY DEF One
<1> QED  BY <1>4, <1>5, <1>6, <1>7

(* ... or returns.                                                         *)
LEMMA CallbackReturn ==
  ASSUME IInv, NEW a \in Actors, NEW at \in {"suspend_cb", "resume_cb"}, Running(a, at),
         NEW d \in Devices, d = Top(a).dev, ~Top(a).par, Return(a), refs' = refs
  PROVE  /\ stack' \in Stacks /\ StackInv' /\ CountsBut(d)
         /\ Count(InSuspend(d))' = 0 /\ Count(InResume(d))' = 0
<1>1. /\ TypeOK /\ StackInv /\ stack[a] # <<>> /\ Top(a).at = at
  BY AtTop
<1>2. "DISABLE" \notin Top(a).flags  BY InCallback
<1>3. /\ stack' \in Stacks /\ StackInv' /\ CountsBut(d)
      /\ Count(InSuspend(d))' = Count(InSuspend(d)) - One(Top(a).at = "suspend_cb")
      /\ Count(InResume(d))' = Count(InResume(d)) - One(Top(a).at = "resume_cb")
  BY <1>1, <1>2, ReturnCallback
<1>4. /\ One(Top(a).at = "suspend_cb") = One(at = "suspend_cb")
      /\ One(Top(a).at = "resume_cb") = One(at = "resume_cb")
  BY <1>1
<1>5. /\ Count(InSuspend(d)) = One(at = "suspend_cb")
      /\ Count(InResume(d)) = One(at = "resume_cb")
  BY InCallback DEF One
<1>6. One(at = "suspend_cb") \in Nat /\ One(at = "resume_cb") \in Nat  BY DEF One
<1> QED  BY <1>3, <1>4, <1>5, <1>6

(* held grows only by an active device that its task has a reference on.   *)
HeldGrows(a, d) ==
  \/ held' = held
  \/ /\ power'[d].status = "ACTIVE" /\ a \in Tasks /\ d \in refs[a]
     /\ held' = [held EXCEPT ![a] = @ \cup {d}]

LEMMA HeldKept ==
  ASSUME IInv, NEW a, NEW d \in Devices, HeldGrows(a, d), refs' = refs,
         \A t \in Tasks : \A e \in held[t] : power'[e].status = "ACTIVE"
  PROVE  held' \in [Tasks -> SUBSET Devices] /\ HeldInv' /\ HeldIsActive'
<1>1. held \in [Tasks -> SUBSET Devices]  BY DEF IInv, TypeOK
<1>2. CASE held' = held
  BY <1>1, <1>2 DEF IInv, HeldInv, HeldIsActive
<1>3. CASE /\ power'[d].status = "ACTIVE" /\ a \in Tasks /\ d \in refs[a]
           /\ held' = [held EXCEPT ![a] = @ \cup {d}]
  <2>1. held'[a] = held[a] \cup {d} /\ \A t \in Tasks \ {a} : held'[t] = held[t]
    BY <1>1, <1>3
  <2>2. held' \in [Tasks -> SUBSET Devices]  BY <1>1, <1>3
  <2>3. HeldInv'  BY <1>3, <2>1 DEF IInv, HeldInv
  <2>4. HeldIsActive'  BY <1>3, <2>1 DEF HeldIsActive
  <2> QED  BY <2>2, <2>3, <2>4
<1> QED  BY <1>2, <1>3 DEF HeldGrows

LEMMA CallbackOver ==
  ASSUME IInv, NEW a \in Actors, NEW at \in {"suspend_cb", "resume_cb"}, Running(a, at),
         NEW d \in Devices, d = Top(a).dev,
         power' \in [Devices -> PowerType], UseSame, ChildInv',
         \A e \in Devices \ {d} : /\ power'[e].status = power[e].status
                                  /\ power'[e].error <=> power[e].error,
         power'[d].status \in {"ACTIVE", "SUSPENDED"},
         stack' \in Stacks, StackInv', CountsBut(d),
         Count(InSuspend(d))' = 0, Count(InResume(d))' = 0,
         lock' \in [Devices -> Actors \cup {NULL}], asleep' \subseteq Actors,
         HeldGrows(a, d), UNCHANGED <<refs, disabled>>
  PROVE  IInv'
<1>1. \A t \in Tasks : d \notin held[t]  BY InCallback
<1>2. \A t \in Tasks : \A e \in held[t] : power'[e].status = "ACTIVE"
  BY <1>1 DEF IInv, HeldIsActive, TypeOK
<1>3. held' \in [Tasks -> SUBSET Devices] /\ HeldInv' /\ HeldIsActive'
  BY <1>2, HeldKept
<1>4. /\ Count(InSuspend(d))' = One(power'[d].status = "SUSPENDING")
      /\ Count(InResume(d))' = One(power'[d].status = "RESUMING")
  BY DEF One
<1>5. power'[d].error \/ (power'[d].depth # 0 /\ Count(DepthRaised(d))' = 0) => ~Changing(power'[d])
  BY DEF Changing
<1> QED  BY <1>3, <1>4, <1>5, StatusStep

LEMMA SuspendDoneStep ==
  ASSUME IInv, NEW a \in Actors, suspend_done(a)
  PROVE  IInv'
<1> DEFINE at == "suspend_cb"
<1>1. Running(a, at) /\ at \in {"suspend_cb", "resume_cb"}  BY DEF suspend_done, Section
<1>2. PICK d \in Devices : d = Top(a).dev  BY <1>1, AtTop
<1> DEFINE u == Parent[d]
           p == [power[d] EXCEPT !.error = FALSE, !.status = "SUSPENDED", !.timer = "off",
                            !.unwoken = FALSE]
<1>3. /\ TypeOK /\ StackInv /\ power[d] \in PowerType /\ Top(a) \in OwnFrame(a)
      /\ Top(a) \in GoodFrame /\ Top(a) \in FrameType /\ Top(a).at = at
  BY <1>1, <1>2, AtTop
<1>4. ~Top(a).par /\ "DISABLE" \notin Top(a).flags
  BY <1>3 DEF GoodFrame, ResumeAts, BarrierAts
<1>5. UNCHANGED <<refs, held, disabled>> /\ WakeAll(d)  BY <1>2 DEF suspend_done
<1>6. power' = [e \in Devices |->
                  IF e = d THEN p
                  ELSE IF e = u /\ power[e].children > 0
                  THEN [power[e] EXCEPT !.children = @ - 1] ELSE power[e]]
  BY <1>2 DEF suspend_done
<1>7. /\ p \in PowerType /\ p.status = "SUSPENDED" /\ p.usage = power[d].usage
      /\ p.children = power[d].children /\ p.depth = power[d].depth
      /\ (p.auto <=> power[d].auto) /\ p.autosuspend = power[d].autosuspend
  BY <1>3 DEF PowerType, Statuses
<1>8. power[d].status = "SUSPENDING"  BY <1>1, <1>2, InCallback
<1>9. u # d  BY PMAssumption
<1>10. u \in Devices => /\ power[u] \in PowerType /\ power[u].children > 0
                        /\ power'[u] = [power[u] EXCEPT !.children = @ - 1]
  <2>1. Counts(power[d])  BY <1>8 DEF Counts
  <2> QED  BY <1>3, <1>6, <1>9, <2>1, UpParent DEF TypeOK
<1>11. u \in Devices =>
         /\ power'[u] \in PowerType /\ power'[u].children = power[u].children - 1
         /\ power'[u].status = power[u].status /\ power'[u].usage = power[u].usage
         /\ power'[u].depth = power[u].depth /\ (power'[u].error <=> power[u].error)
         /\ (power'[u].auto <=> power[u].auto) /\ power'[u].autosuspend = power[u].autosuspend
  BY <1>10 DEF PowerType
<1> HIDE DEF p
<1>12. power'[d] = p /\ \A e \in Devices \ {d, u} : power'[e] = power[e]  BY <1>6
<1>13. power' \in [Devices -> PowerType]
  <2>1. \A e \in Devices : power'[e] \in PowerType  BY <1>3, <1>7, <1>11, <1>12 DEF TypeOK
  <2> QED  BY <1>6, <2>1
<1>14. UseSame  BY <1>7, <1>11, <1>12 DEF UseSame
<1>15. /\ power'[d].status \in {"ACTIVE", "SUSPENDED"}
       /\ \A e \in Devices \ {d} : /\ power'[e].status = power[e].status
                                   /\ power'[e].error <=> power[e].error
  BY <1>7, <1>11, <1>12
<1>16. ChildInv'
  <2>1. Counts(power[d]) /\ ~Counts(power'[d])  BY <1>7, <1>8, <1>12 DEF Counts
  <2>2. \A e \in Devices \ {d} : Counts(power'[e]) <=> Counts(power[e])  BY <1>15 DEF Counts
  <2>3. \A e \in Devices \ {Parent[d]} : power'[e].children = power[e].children
    BY <1>7, <1>12
  <2> QED  BY <1>11, <2>1, <2>2, <2>3, ChildDown
<1>17. /\ stack' \in Stacks /\ StackInv' /\ CountsBut(d)
       /\ Count(InSuspend(d))' = 0 /\ Count(InResume(d))' = 0
       /\ lock' \in [Devices -> Actors \cup {NULL}]
  <2>1. CASE Become(a, Frame("resume", d, {})) /\ Keep(a, d)
    <3> DEFINE f == Frame("resume", d, {})
    <3>1. {} \in SUBSET CallFlags /\ "GET_PUT" \notin {} /\ "resume" \in NewAts
      BY DEF NewAts
    <3>2. f \in OwnFrame(a)  BY <3>1, NewOwn
    <3>3. f.dev = d /\ ~f.par /\ "DISABLE" \notin f.flags /\ f.at = "resume"  BY DEF Frame
    <3> HIDE DEF f
    <3>4. /\ stack' \in Stacks /\ StackInv' /\ CountsBut(d)
          /\ Count(InSuspend(d))' = 0 /\ Count(InResume(d))' = 0
      <4>1. PICK h : h = f  OBVIOUS
      <4> QED  BY <1>1, <1>2, <1>4, <1>5, <2>1, <3>2, <3>3, <4>1, CallbackBecome DEF f
    <3> QED  BY <1>3, <2>1, <3>4, LockTypes
  <2>2. CASE u # NULL /\ Goto(a, "suspend_notify") /\ Drop(d)
    <3> DEFINE f == [Top(a) EXCEPT !.at = "suspend_notify"]
    <3>1. /\ f \in FrameType /\ f.at = "suspend_notify" /\ f.dev = d /\ f.par = Top(a).par
          /\ f.flags = Top(a).flags
      BY <1>2, <1>3 DEF FrameType
    <3>2. Become(a, f)  BY <2>2 DEF Goto
    <3> HIDE DEF f
    <3>3. f \in OwnFrame(a)
      BY <1>3, <1>4, <2>2, <3>1 DEF OwnFrame, GoodFrame, ResumeAts, BarrierAts
    <3>4. /\ stack' \in Stacks /\ StackInv' /\ CountsBut(d)
          /\ Count(InSuspend(d))' = 0 /\ Count(InResume(d))' = 0
      <4>1. PICK h : h = f  OBVIOUS
      <4> QED  BY <1>1, <1>2, <1>4, <1>5, <3>1, <3>2, <3>3, <4>1, CallbackBecome
    <3> QED  BY <1>3, <2>2, <3>4, LockTypes
  <2>3. CASE Return(a)
    BY <1>1, <1>2, <1>3, <1>4, <1>5, <2>3, CallbackReturn, LockTypes
  <2> QED  BY <1>2, <2>1, <2>2, <2>3 DEF suspend_done
<1>18. asleep' \subseteq Actors  BY <1>3, <1>5, LockTypes
<1>19. HeldGrows(a, d)  BY <1>5 DEF HeldGrows
<1> QED  BY <1>1, <1>2, <1>5, <1>13, <1>14, <1>15, <1>16, <1>17, <1>18, <1>19, CallbackOver

(* All but the status and the error mark.                                  *)
SameUse(p, q) ==
  /\ q.usage = p.usage /\ q.children = p.children /\ q.depth = p.depth
  /\ (q.auto <=> p.auto) /\ q.autosuspend = p.autosuspend

LEMMA SetStatus ==
  ASSUME TypeOK, NEW d \in Devices, NEW q \in PowerType, SetPower(d, q), SameUse(power[d], q)
  PROVE  /\ power' \in [Devices -> PowerType] /\ UseSame /\ power'[d] = q
         /\ \A e \in Devices \ {d} : /\ power'[e].status = power[e].status
                                     /\ power'[e].error <=> power[e].error
         /\ \A e \in Devices : power'[e].children = power[e].children
<1>1. /\ power' \in [Devices -> PowerType] /\ power'[d] = q
      /\ \A e \in Devices \ {d} : power'[e] = power[e]
  BY SetPowerType
<1> QED  BY <1>1 DEF SameUse, UseSame

LEMMA SuspendFailedStep ==
  ASSUME IInv, NEW a \in Actors, suspend_failed(a)
  PROVE  IInv'
<1> DEFINE at == "suspend_cb"
<1>1. Running(a, at) /\ at \in {"suspend_cb", "resume_cb"}  BY DEF suspend_failed, Section
<1>2. PICK d \in Devices : d = Top(a).dev  BY <1>1, AtTop
<1> DEFINE p == [power[d] EXCEPT !.status = "ACTIVE", !.deferred = FALSE, !.unwoken = FALSE]
           Over(q) == q \in PowerType /\ q.status = "ACTIVE" /\ SameUse(power[d], q)
<1>3. /\ TypeOK /\ StackInv /\ power[d] \in PowerType /\ Top(a) \in OwnFrame(a)
      /\ Top(a) \in GoodFrame /\ Top(a) \in FrameType /\ Top(a).at = at
  BY <1>1, <1>2, AtTop
<1>4. ~Top(a).par /\ "DISABLE" \notin Top(a).flags
  BY <1>3 DEF GoodFrame, ResumeAts, BarrierAts
<1>5. UNCHANGED <<refs, held, disabled>>  BY DEF suspend_failed
<1>6. Over(p)  BY <1>3 DEF PowerType, Statuses, SameUse
<1> HIDE DEF p
<1>7. /\ Over([p EXCEPT !.error = FALSE]) /\ Over([p EXCEPT !.error = TRUE])
      /\ Over([p EXCEPT !.error = FALSE, !.unwoken = TRUE])
  BY <1>6 DEF PowerType, SameUse
<1>8. ASSUME NEW r, Over(r) PROVE Over(pm_runtime_cancel_pending(r))
  <2>1. pm_runtime_cancel_pending(r) \in PowerType /\ SamePower(r, pm_runtime_cancel_pending(r))
    BY <1>8, CancelType
  <2> QED  BY <1>8, <2>1 DEF SamePower, SameUse
<1>9. PICK q : /\ Over(q) /\ SetPower(d, q)
               /\ \/ Goto(a, "suspend") /\ Keep(a, d) /\ UNCHANGED asleep
                  \/ WakeAll(d) /\ Return(a)
  <2> HIDE DEF Over
  <2>1. \/ /\ SetPower(d, [p EXCEPT !.error = FALSE, !.unwoken = TRUE])
           /\ Goto(a, "suspend") /\ Keep(a, d) /\ UNCHANGED asleep
        \/ SetPower(d, [p EXCEPT !.error = FALSE]) /\ WakeAll(d) /\ Return(a)
        \/ /\ SetPower(d, pm_runtime_cancel_pending([p EXCEPT !.error = TRUE]))
           /\ WakeAll(d) /\ Return(a)
        \/ SetPower(d, pm_runtime_cancel_pending(p)) /\ WakeAll(d) /\ Return(a)
    BY <1>2 DEF suspend_failed, p
  <2> QED  BY <1>6, <1>7, <1>8, <2>1
<1>10. /\ power' \in [Devices -> PowerType] /\ UseSame /\ power'[d] = q
       /\ \A e \in Devices \ {d} : /\ power'[e].status = power[e].status
                                   /\ power'[e].error <=> power[e].error
       /\ \A e \in Devices : power'[e].children = power[e].children
  BY <1>3, <1>9, SetStatus
<1>11. power'[d].status = "ACTIVE"  BY <1>9, <1>10
<1>12. ChildInv'
  <2>1. power[d].status = "SUSPENDING"  BY <1>1, <1>2, InCallback
  <2>2. \A e \in Devices : Counts(power'[e]) <=> Counts(power[e])
    BY <1>10, <1>11, <2>1 DEF Counts
  <2> QED  BY <1>10, <2>2, ChildrenSame
<1>13. /\ stack' \in Stacks /\ StackInv' /\ CountsBut(d)
       /\ Count(InSuspend(d))' = 0 /\ Count(InResume(d))' = 0
       /\ lock' \in [Devices -> Actors \cup {NULL}] /\ asleep' \subseteq Actors
  <2>1. CASE Goto(a, "suspend") /\ Keep(a, d) /\ UNCHANGED asleep
    <3> DEFINE f == [Top(a) EXCEPT !.at = "suspend"]
    <3>1. /\ f \in FrameType /\ f.at = "suspend" /\ f.dev = d /\ f.par = Top(a).par
          /\ f.flags = Top(a).flags
      BY <1>2, <1>3 DEF FrameType
    <3>2. Become(a, f)  BY <2>1 DEF Goto
    <3> HIDE DEF f
    <3>3. f \in OwnFrame(a)
      BY <1>3, <1>4, <3>1 DEF OwnFrame, GoodFrame, ResumeAts, BarrierAts
    <3>4. /\ stack' \in Stacks /\ StackInv' /\ CountsBut(d)
          /\ Count(InSuspend(d))' = 0 /\ Count(InResume(d))' = 0
      <4>1. PICK h : h = f  OBVIOUS
      <4> QED  BY <1>1, <1>2, <1>4, <1>5, <3>1, <3>2, <3>3, <4>1, CallbackBecome
    <3> QED  BY <1>3, <2>1, <3>4, LockTypes
  <2>2. CASE WakeAll(d) /\ Return(a)
    BY <1>1, <1>2, <1>3, <1>4, <1>5, <2>2, CallbackReturn, LockTypes
  <2> QED  BY <1>9, <2>1, <2>2
<1>14. HeldGrows(a, d)  BY <1>5 DEF HeldGrows
<1> QED  BY <1>1, <1>2, <1>5, <1>10, <1>11, <1>12, <1>13, <1>14, CallbackOver

(***************************************************************************)
(* rpm_resume.                                                             *)
(***************************************************************************)

(* The ways out of rpm_resume.                                             *)
LEMMA OutHeld ==
  ASSUME IInv, NEW a \in Actors, NEW at \in {"resume", "resume_cb"}, Running(a, at),
         NEW d \in Devices, d = Top(a).dev, NEW active \in BOOLEAN, ResumeOut(a, active),
         active => power'[d].status = "ACTIVE"
  PROVE  HeldGrows(a, d)
<1>1. Top(a) \in OwnFrame(a) /\ Top(a).at = at  BY AtTop
<1>2. "GET_PUT" \in Top(a).flags => a \in Tasks /\ d \in refs[a]
  BY <1>1 DEF OwnFrame, ResumeAts
<1> QED  BY <1>2 DEF ResumeOut, HeldGrows

LEMMA OutSame ==
  ASSUME IInv, NEW a \in Actors, Running(a, "resume"), NEW active, ResumeOut(a, active),
         refs' = refs
  PROVE  /\ stack' \in Stacks /\ StackInv' /\ CountsSame
         /\ lock' \in [Devices -> Actors \cup {NULL}]
<1>1. "resume" \in PlainAts /\ "resume" \in ResumeAts /\ "resume_put" \in PlainAts /\ "resume_put" \in ResumeAts
  BY DEF PlainAts, ResumeAts
<1>2. TypeOK /\ Top(a).dev \in Devices  BY AtTop
<1>3. CASE Top(a).par /\ Goto(a, "resume_put") /\ Drop(Top(a).dev)
  BY <1>1, <1>2, <1>3, GotoSame, LockTypes
<1>4. CASE ~Top(a).par /\ Return(a)
  BY <1>1, <1>2, <1>4, PlainReturn, LockTypes
<1> QED  BY <1>3, <1>4 DEF ResumeOut

LEMMA OutCallback ==
  ASSUME IInv, NEW a \in Actors, Running(a, "resume_cb"), NEW active, ResumeOut(a, active),
         NEW d \in Devices, d = Top(a).dev, refs' = refs
  PROVE  /\ stack' \in Stacks /\ StackInv' /\ CountsBut(d)
         /\ Count(InSuspend(d))' = 0 /\ Count(InResume(d))' = 0
         /\ lock' \in [Devices -> Actors \cup {NULL}]
<1> DEFINE at == "resume_cb"
<1>1. /\ TypeOK /\ StackInv /\ Top(a) \in OwnFrame(a) /\ at \in {"suspend_cb", "resume_cb"}
      /\ Top(a) \in GoodFrame /\ Top(a) \in FrameType /\ Top(a).at = at
  BY AtTop
<1>2. CASE Top(a).par /\ Goto(a, "resume_put") /\ Drop(Top(a).dev)
  <2> DEFINE f == [Top(a) EXCEPT !.at = "resume_put"]
  <2>0. "DISABLE" \notin Top(a).flags  BY <1>1 DEF GoodFrame, BarrierAts
  <2>1. /\ f \in FrameType /\ f.at = "resume_put" /\ f.dev = d /\ f.par = Top(a).par
        /\ f.flags = Top(a).flags
    BY <1>1 DEF FrameType
  <2>2. Become(a, f)  BY <1>2 DEF Goto
  <2> HIDE DEF f
  <2>3. f \in OwnFrame(a)
    BY <1>1, <1>2, <2>0, <2>1 DEF OwnFrame, GoodFrame, ResumeAts, BarrierAts
  <2>4. /\ stack' \in Stacks /\ StackInv' /\ CountsBut(d)
        /\ Count(InSuspend(d))' = 0 /\ Count(InResume(d))' = 0
    <3>1. PICK h : h = f  OBVIOUS
    <3> QED  BY <1>1, <2>0, <2>1, <2>2, <2>3, <3>1, CallbackBecome
  <2> QED  BY <1>1, <1>2, <2>4, LockTypes
<1>3. CASE ~Top(a).par /\ Return(a)
  BY <1>1, <1>3, CallbackReturn, LockTypes
<1> QED  BY <1>2, <1>3 DEF ResumeOut

LEMMA ResumeFailedStep ==
  ASSUME IInv, NEW a \in Actors, resume_failed(a)
  PROVE  IInv'
<1> DEFINE at == "resume_cb"
<1>1. Running(a, at) /\ at \in {"suspend_cb", "resume_cb"}  BY DEF resume_failed, Section
<1>2. PICK d \in Devices : d = Top(a).dev  BY <1>1, AtTop
<1> DEFINE p == [power[d] EXCEPT !.status = "SUSPENDED", !.unwoken = FALSE]
           r == pm_runtime_cancel_pending(p)
<1>3. TypeOK /\ power[d] \in PowerType  BY <1>1, <1>2, AtTop
<1>4. UNCHANGED <<refs, disabled>> /\ WakeAll(d) /\ ResumeOut(a, FALSE)
  BY <1>2 DEF resume_failed
<1>5. PICK x \in BOOLEAN : SetPower(d, [r EXCEPT !.error = x])
  BY <1>2 DEF resume_failed
<1> DEFINE q == [r EXCEPT !.error = x]
<1>6. p \in PowerType /\ p.status = "SUSPENDED" /\ SameUse(power[d], p)
  BY <1>3 DEF PowerType, Statuses, SameUse
<1> HIDE DEF p
<1>7. r \in PowerType /\ SamePower(p, r)  BY <1>6, CancelType
<1> HIDE DEF r
<1>8. q \in PowerType /\ q.status = r.status /\ SameUse(r, q)  BY <1>7 DEF PowerType, SameUse
<1> HIDE DEF q
<1>9. q.status = "SUSPENDED" /\ SameUse(power[d], q)
  BY <1>6, <1>7, <1>8 DEF SamePower, SameUse
<1>10. /\ power' \in [Devices -> PowerType] /\ UseSame /\ power'[d] = q
       /\ \A e \in Devices \ {d} : /\ power'[e].status = power[e].status
                                   /\ power'[e].error <=> power[e].error
       /\ \A e \in Devices : power'[e].children = power[e].children
  BY <1>3, <1>5, <1>8, <1>9, SetStatus DEF q
<1>11. ChildInv'
  <2>1. power[d].status = "RESUMING"  BY <1>1, <1>2, InCallback
  <2>2. \A e \in Devices : Counts(power'[e]) <=> Counts(power[e])
    BY <1>9, <1>10, <2>1 DEF Counts
  <2> QED  BY <1>10, <2>2, ChildrenSame
<1>12. /\ stack' \in Stacks /\ StackInv' /\ CountsBut(d)
       /\ Count(InSuspend(d))' = 0 /\ Count(InResume(d))' = 0
       /\ lock' \in [Devices -> Actors \cup {NULL}]
  BY <1>1, <1>2, <1>4, OutCallback
<1>13. HeldGrows(a, d)  BY <1>1, <1>2, <1>4, OutHeld
<1>14. asleep' \subseteq Actors  BY <1>3, <1>4, LockTypes
<1> QED  BY <1>1, <1>2, <1>4, <1>9, <1>10, <1>11, <1>12, <1>13, <1>14, CallbackOver

LEMMA ResumeDoneStep ==
  ASSUME IInv, NEW a \in Actors, resume_done(a)
  PROVE  IInv'
<1> DEFINE at == "resume_cb"
<1>1. Running(a, at) /\ at \in {"suspend_cb", "resume_cb"}  BY DEF resume_done, Section
<1>2. PICK d \in Devices : d = Top(a).dev  BY <1>1, AtTop
<1> DEFINE u == Parent[d]
           p == [power[d] EXCEPT !.error = FALSE, !.status = "ACTIVE", !.unwoken = FALSE]
           q == rpm_idle_async(p, d)
<1>3. TypeOK /\ power[d] \in PowerType  BY <1>1, <1>2, AtTop
<1>4. UNCHANGED <<refs, disabled>> /\ WakeAll(d) /\ ResumeOut(a, TRUE)
  BY <1>2 DEF resume_done
<1>5. power' = [e \in Devices |->
                  IF e = d THEN q
                  ELSE IF e = u THEN [power[e] EXCEPT !.children = @ + 1] ELSE power[e]]
  BY <1>2 DEF resume_done
<1>6. p \in PowerType /\ p.status = "ACTIVE" /\ SameUse(power[d], p)
  BY <1>3 DEF PowerType, Statuses, SameUse
<1> HIDE DEF p
<1>7. q \in PowerType /\ SamePower(p, q)  BY <1>6, IdleAsyncType
<1> HIDE DEF q
<1>8. q.status = "ACTIVE" /\ SameUse(power[d], q)  BY <1>6, <1>7 DEF SamePower, SameUse
<1>9. u # d  BY PMAssumption
<1>10. u \in Devices => /\ power[u] \in PowerType
                        /\ power'[u] = [power[u] EXCEPT !.children = @ + 1]
  BY <1>3, <1>5, <1>9 DEF TypeOK
<1>11. u \in Devices =>
         /\ power'[u] \in PowerType /\ power'[u].children = power[u].children + 1
         /\ power'[u].status = power[u].status /\ power'[u].usage = power[u].usage
         /\ power'[u].depth = power[u].depth /\ (power'[u].error <=> power[u].error)
         /\ (power'[u].auto <=> power[u].auto) /\ power'[u].autosuspend = power[u].autosuspend
  BY <1>10 DEF PowerType
<1>12. power'[d] = q /\ \A e \in Devices \ {d, u} : power'[e] = power[e]  BY <1>5
<1>13. power' \in [Devices -> PowerType]
  <2>1. \A e \in Devices : power'[e] \in PowerType  BY <1>3, <1>7, <1>11, <1>12 DEF TypeOK
  <2> QED  BY <1>5, <2>1
<1>14. UseSame  BY <1>8, <1>11, <1>12 DEF UseSame, SameUse
<1>15. /\ power'[d].status = "ACTIVE"
       /\ \A e \in Devices \ {d} : /\ power'[e].status = power[e].status
                                   /\ power'[e].error <=> power[e].error
  BY <1>8, <1>11, <1>12
<1>16. ChildInv'
  <2>1. power[d].status = "RESUMING"  BY <1>1, <1>2, InCallback
  <2>2. ~Counts(power[d]) /\ Counts(power'[d])  BY <1>15, <2>1 DEF Counts
  <2>3. \A e \in Devices \ {d} : Counts(power'[e]) <=> Counts(power[e])  BY <1>15 DEF Counts
  <2>4. \A e \in Devices \ {Parent[d]} : power'[e].children = power[e].children
    BY <1>8, <1>12 DEF SameUse
  <2> QED  BY <1>11, <2>2, <2>3, <2>4, ChildUp
<1>17. /\ stack' \in Stacks /\ StackInv' /\ CountsBut(d)
       /\ Count(InSuspend(d))' = 0 /\ Count(InResume(d))' = 0
       /\ lock' \in [Devices -> Actors \cup {NULL}]
  BY <1>1, <1>2, <1>4, OutCallback
<1>18. HeldGrows(a, d)  BY <1>1, <1>2, <1>4, <1>15, OutHeld
<1>19. asleep' \subseteq Actors  BY <1>3, <1>4, LockTypes
<1> QED  BY <1>1, <1>2, <1>4, <1>13, <1>14, <1>15, <1>16, <1>17, <1>18, <1>19, CallbackOver

(* Like QuietStep, for a call that may tell its task the device is active. *)
LEMMA QuietHeld ==
  ASSUME IInv, power' \in [Devices -> PowerType], AllPowerSame,
         stack' \in Stacks, StackInv', CountsSame,
         lock' \in [Devices -> Actors \cup {NULL}], asleep' \subseteq Actors,
         NEW a, NEW d \in Devices, HeldGrows(a, d), UNCHANGED <<refs, disabled>>
  PROVE  IInv'
<1>1. held' \in [Tasks -> SUBSET Devices] /\ HeldInv' /\ HeldIsActive'
  <2>1. \A t \in Tasks : \A e \in held[t] : power'[e].status = "ACTIVE"
    BY DEF IInv, TypeOK, HeldIsActive, AllPowerSame, SamePower
  <2> QED  BY <2>1, HeldKept
<1>2. UseSame  BY DEF UseSame, AllPowerSame, SamePower
<1>3. CallbackInv'
  BY DEF IInv, CallbackInv, AllPowerSame, SamePower, CountsSame, One
<1>4. DepthInv'
  <2>1. \A e \in Devices : Disablers(e)' = Disablers(e)  BY DEF Disablers
  <2> QED  BY <2>1 DEF IInv, DepthInv, AllPowerSame, SamePower, CountsSame
<1>5. RestInv'
  BY DEF IInv, RestInv, AllPowerSame, SamePower, CountsSame, Changing
<1>6. ChildInv'
  BY ChildrenSame DEF AllPowerSame, SamePower, Counts
<1>7. UsageInv'
  <2>1. \A e \in Devices : Users(e)' = Users(e)  BY DEF Users
  <2> QED  BY <2>1 DEF IInv, UsageInv, Fixed, AllPowerSame, SamePower, CountsSame
<1>8. TypeOK'  BY <1>1 DEF IInv, TypeOK, Stacks
<1> QED  BY <1>1, <1>3, <1>4, <1>5, <1>6, <1>7, <1>8 DEF IInv

(* ->runtime_resume() is called for a device that is suspended.            *)
LEMMA ResumeEntry ==
  ASSUME IInv, NEW a \in Actors, Running(a, "resume"), NEW d \in Devices, d = Top(a).dev,
         ~power[d].error, ~(power[d].depth > 0), Quiet(power[d]),
         Parent[d] = NULL \/ Top(a).par,
         NEW q \in PowerType, SamePower(power[d], q),
         SetPower(d, [q EXCEPT !.status = "RESUMING"]), Goto(a, "resume_cb"), Drop(d),
         UNCHANGED asleep, UNCHANGED held, UNCHANGED <<refs, disabled>>
  PROVE  IInv'
<1> DEFINE p == power[d]
           r == [q EXCEPT !.status = "RESUMING"]
           f == Top(a)
           g == [f EXCEPT !.at = "resume_cb"]
<1>1. /\ TypeOK /\ StackInv /\ stack[a] # <<>> /\ p \in PowerType
      /\ f.at = "resume" /\ f \in OwnFrame(a) /\ f \in GoodFrame /\ f \in FrameType
  BY AtTop
<1>2. r \in PowerType /\ r.status = "RESUMING" /\ SameUse(q, r) /\ (r.error <=> q.error)
  BY DEF PowerType, Statuses, SameUse
<1> HIDE DEF r
<1>3. SameUse(p, r) /\ ~r.error  BY <1>2 DEF SameUse, SamePower
<1>4. /\ power' \in [Devices -> PowerType] /\ UseSame /\ power'[d] = r
      /\ \A e \in Devices \ {d} : /\ power'[e].status = power[e].status
                                  /\ power'[e].error <=> power[e].error
      /\ \A e \in Devices : power'[e].children = power[e].children
  BY <1>1, <1>2, <1>3, SetStatus DEF r
<1>5. p.status = "SUSPENDED"  BY <1>1 DEF Quiet, Changing, PowerType, Statuses
<1>6. ChildInv'
  <2>1. \A e \in Devices : Counts(power'[e]) <=> Counts(power[e])
    BY <1>2, <1>4, <1>5 DEF Counts
  <2> QED  BY <1>4, <2>1, ChildrenSame
<1>7. power'[d].depth = 0  BY <1>1, <1>3, <1>4 DEF PowerType, SameUse
<1>8. HeldInv' /\ HeldIsActive' /\ held' \in [Tasks -> SUBSET Devices]
  <2>1. \A t \in Tasks : d \notin held[t]  BY <1>5 DEF IInv, HeldIsActive
  <2> QED  BY <1>4, <2>1 DEF IInv, TypeOK, HeldInv, HeldIsActive
<1>9. /\ g \in OwnFrame(a) /\ g.dev = d /\ (g.par <=> f.par) /\ g.at = "resume_cb"
      /\ "DISABLE" \notin g.flags /\ "DISABLE" \notin f.flags
  <2>1. "DISABLE" \notin f.flags  BY <1>1 DEF GoodFrame, BarrierAts
  <2>2. /\ g \in FrameType /\ g.at = "resume_cb" /\ g.dev = d /\ g.par = f.par
        /\ g.flags = f.flags
    BY <1>1 DEF FrameType
  <2>3. (Parent[f.dev] = NULL \/ f.par) /\ f.dev = d  OBVIOUS
  <2> HIDE DEF f, g
  <2>4. g \in GoodFrame  BY <1>1, <2>1, <2>2, <2>3 DEF GoodFrame, BarrierAts, ResumeAts
  <2> QED  BY <1>1, <2>1, <2>2, <2>3, <2>4 DEF OwnFrame, ResumeAts
<1>10. Become(a, g)  BY DEF Goto
<1>11. {g.at, f.at} \cap ({"disable_resumed"} \cup BarrierAts) = {}
  BY <1>1, <1>9 DEF BarrierAts
<1> HIDE DEF g
<1>12. /\ stack' \in Stacks /\ StackInv' /\ CountsBut(d)
       /\ Count(InSuspend(d)) \in Nat /\ Count(InResume(d)) \in Nat
       /\ Count(InSuspend(d))' = Count(InSuspend(d)) + 0 - 0
       /\ Count(InResume(d))' = Count(InResume(d)) + 1 - 0
  <2>1. PICK h : h = g  OBVIOUS
  <2>2. /\ stack' \in Stacks /\ StackInv' /\ CountsBut(h.dev)
        /\ Count(InSuspend(h.dev)) \in Nat /\ Count(InResume(h.dev)) \in Nat
        /\ Count(InSuspend(h.dev))' = Count(InSuspend(h.dev)) + One(h.at = "suspend_cb")
                                         - One(f.at = "suspend_cb")
        /\ Count(InResume(h.dev))' = Count(InResume(h.dev)) + One(h.at = "resume_cb")
                                         - One(f.at = "resume_cb")
    BY <1>1, <1>9, <1>10, <1>11, <2>1, BecomeCallback
  <2>3. /\ h.dev = d /\ One(h.at = "suspend_cb") = 0 /\ One(f.at = "suspend_cb") = 0
        /\ One(h.at = "resume_cb") = 1 /\ One(f.at = "resume_cb") = 0
    BY <1>1, <1>9, <2>1 DEF One
  <2> QED  BY <2>2, <2>3
<1>13. /\ Count(InSuspend(d))' = One(power'[d].status = "SUSPENDING")
       /\ Count(InResume(d))' = One(power'[d].status = "RESUMING")
  <2>1. Count(InSuspend(d)) = 0 /\ Count(InResume(d)) = 0
    BY <1>5 DEF IInv, CallbackInv, One
  <2> QED  BY <1>2, <1>4, <1>12, <2>1 DEF One
<1>14. power'[d].error \/ (power'[d].depth # 0 /\ Count(DepthRaised(d))' = 0) => ~Changing(power'[d])
  BY <1>3, <1>4, <1>7
<1>15. lock' \in [Devices -> Actors \cup {NULL}] /\ asleep' \subseteq Actors
  BY <1>1, LockTypes
<1> QED  BY <1>4, <1>6, <1>8, <1>12, <1>13, <1>14, <1>15, StatusStep

(***************************************************************************)
(* A usage counter changes.                                                *)
(***************************************************************************)

(* What is left to show of a step that changes usage counters only.        *)
StatusSame == \A e \in Devices :
  /\ power'[e].status = power[e].status /\ power'[e].children = power[e].children
  /\ power'[e].depth = power[e].depth /\ (power'[e].error <=> power[e].error)

UsageStepCounts == \A e \in Devices :
  /\ Count(InSuspend(e))' = Count(InSuspend(e))
  /\ Count(InResume(e))' = Count(InResume(e))
  /\ Count(DepthRaised(e))' = Count(DepthRaised(e))

LEMMA UsageStep ==
  ASSUME IInv, power' \in [Devices -> PowerType], StatusSame, UsageInv',
         stack' \in Stacks, StackInv', UsageStepCounts,
         lock' \in [Devices -> Actors \cup {NULL}], asleep' \subseteq Actors,
         refs' \in [Tasks -> SUBSET Devices], held' \in [Tasks -> SUBSET Devices],
         \A t \in Tasks : held'[t] \subseteq refs'[t] /\ held'[t] \subseteq held[t],
         UNCHANGED disabled
  PROVE  IInv'
<1>1. CallbackInv'
  BY DEF IInv, CallbackInv, StatusSame, UsageStepCounts, One
<1>2. DepthInv'
  <2>1. \A e \in Devices : Disablers(e)' = Disablers(e)  BY DEF Disablers
  <2> QED  BY <2>1 DEF IInv, DepthInv, StatusSame, UsageStepCounts
<1>3. RestInv'
  BY DEF IInv, RestInv, StatusSame, Changing, UsageStepCounts
<1>4. ChildInv'
  BY ChildrenSame DEF StatusSame, Counts
<1>5. HeldInv'  BY DEF HeldInv
<1>6. HeldIsActive'  BY DEF IInv, TypeOK, HeldIsActive, StatusSame
<1>7. TypeOK'  BY DEF IInv, TypeOK, Stacks
<1> QED  BY <1>1, <1>2, <1>3, <1>4, <1>5, <1>6, <1>7 DEF IInv

(* usage_count of d, and only it, changes.                                 *)
LEMMA SetUsage ==
  ASSUME NEW p \in PowerType, NEW n \in Nat
  PROVE  LET q == [p EXCEPT !.usage = n]
         IN /\ q \in PowerType /\ q.usage = n /\ q.status = p.status
            /\ q.children = p.children /\ q.depth = p.depth /\ (q.error <=> p.error)
            /\ (q.auto <=> p.auto) /\ q.autosuspend = p.autosuspend
            /\ Fixed(q) = Fixed(p)
<1> DEFINE q == [p EXCEPT !.usage = n]
<1>1. /\ q \in PowerType /\ q.usage = n /\ q.status = p.status
      /\ q.children = p.children /\ q.depth = p.depth /\ (q.error <=> p.error)
      /\ (q.auto <=> p.auto) /\ q.autosuspend = p.autosuspend
  BY DEF PowerType
<1> HIDE DEF q
<1>2. Fixed(q) = Fixed(p)  BY <1>1 DEF Fixed
<1> QED  BY <1>1, <1>2 DEF q

(* A usage counter changes by as much as the references do.                *)
LEMMA UsageAt ==
  ASSUME IInv, NEW e \in Devices, Cardinality(Users(e)') \in Int, Count(OnParent(e))' \in Int,
         Count(InBarrier(e))' \in Int, power'[e].usage \in Int,
         power'[e].usage - power[e].usage =
             (Cardinality(Users(e)') - Cardinality(Users(e)))
           + (Count(OnParent(e))' - Count(OnParent(e)))
           + (Count(InBarrier(e))' - Count(InBarrier(e)))
           + (Fixed(power'[e]) - Fixed(power[e]))
  PROVE  power'[e].usage = Cardinality(Users(e)') + Count(OnParent(e))'
                             + Count(InBarrier(e))' + Fixed(power'[e])
<1>1. power[e].usage = Cardinality(Users(e)) + Count(OnParent(e)) + Count(InBarrier(e))
                         + Fixed(power[e])
  BY DEF IInv, UsageInv
<1>2. /\ Cardinality(Users(e)) \in Int /\ Count(OnParent(e)) \in Int
      /\ Count(InBarrier(e)) \in Int /\ Fixed(power[e]) \in Int /\ Fixed(power'[e]) \in Int
  BY InUse DEF Fixed
<1> DEFINE c == Cardinality(Users(e))
           c1 == Cardinality(Users(e)')
           m == Count(OnParent(e))
           m1 == Count(OnParent(e))'
           n == Count(InBarrier(e))
           n1 == Count(InBarrier(e))'
           k == Fixed(power[e])
           k1 == Fixed(power'[e])
           x == power[e].usage
           x1 == power'[e].usage
<1>3. /\ x = c + m + n + k /\ x1 - x = (c1 - c) + (m1 - m) + (n1 - n) + (k1 - k)
      /\ c \in Int /\ c1 \in Int /\ m \in Int /\ m1 \in Int /\ n \in Int /\ n1 \in Int
      /\ k \in Int /\ k1 \in Int /\ x1 \in Int
  BY <1>1, <1>2
<1> HIDE DEF c, c1, m, m1, n, n1, k, k1, x, x1
<1>4. x1 = c1 + m1 + n1 + k1  BY <1>3
<1> QED  BY <1>4 DEF c1, m1, n1, k1, x1

(* Replacing one value of a function, as every write to one device does.   *)
LEMMA PutAt ==
  ASSUME NEW w \in [Devices -> PowerType], NEW u \in Devices, NEW r \in PowerType,
         NEW v, v = [w EXCEPT ![u] = r]
  PROVE  /\ v \in [Devices -> PowerType] /\ v[u] = r
         /\ \A e \in Devices \ {u} : v[e] = w[e]
OBVIOUS

(* rpm_resume takes a reference on the parent.                             *)
LEMMA ResumeGet ==
  ASSUME IInv, NEW a \in Actors, Running(a, "resume"), NEW d \in Devices, d = Top(a).dev,
         Parent[d] # NULL, ~Top(a).par, NEW q \in PowerType, SamePower(power[d], q),
         power' = [power EXCEPT ![d] = q, ![Parent[d]].usage = @ + 1],
         Become(a, [Top(a) EXCEPT !.at = "resume_parent", !.par = TRUE]), Drop(d),
         UNCHANGED asleep, UNCHANGED held, UNCHANGED <<refs, disabled>>
  PROVE  IInv'
<1> DEFINE u == Parent[d]
           f == Top(a)
           g == [f EXCEPT !.at = "resume_parent", !.par = TRUE]
           w == [power EXCEPT ![d] = q]
           n == power[u].usage + 1
           r == [power[u] EXCEPT !.usage = n]
<1>1. /\ TypeOK /\ StackInv /\ stack[a] # <<>>
      /\ f.at = "resume" /\ f \in OwnFrame(a) /\ f \in GoodFrame /\ f \in FrameType
  BY AtTop
<1>2. u \in Devices /\ u # d /\ power[u] \in PowerType  BY <1>1, PMAssumption DEF TypeOK
<1>3. /\ w \in [Devices -> PowerType] /\ w[d] = q /\ w[u] = power[u]
      /\ \A e \in Devices \ {d} : w[e] = power[e]
  BY <1>1, <1>2 DEF TypeOK
<1>4. power' = [w EXCEPT ![u] = r]
  BY <1>2, <1>3
<1>5. n \in Nat /\ n = power[u].usage + 1  BY <1>2 DEF PowerType
<1> HIDE DEF w, n
<1>6. /\ r \in PowerType /\ r.usage = n /\ r.status = power[u].status
      /\ r.children = power[u].children /\ r.depth = power[u].depth
      /\ (r.error <=> power[u].error) /\ Fixed(r) = Fixed(power[u])
  BY <1>2, <1>5, SetUsage
<1> HIDE DEF r
<1>7. /\ power' \in [Devices -> PowerType] /\ power'[u] = r /\ power'[d] = q
      /\ \A e \in Devices \ {d, u} : power'[e] = power[e]
  <2> DEFINE v == power'
  <2>1. v = [w EXCEPT ![u] = r]  BY <1>4
  <2> HIDE DEF u, v
  <2>2. /\ v \in [Devices -> PowerType] /\ v[u] = r
        /\ \A e \in Devices \ {u} : v[e] = w[e]
    BY <1>2, <1>3, <1>6, <2>1, PutAt
  <2>3. v[d] = q /\ \A e \in Devices \ {d, u} : v[e] = power[e]
    BY <1>2, <1>3, <2>2, Zenon
  <2> QED  BY <2>2, <2>3 DEF v
<1>71. StatusSame  BY <1>6, <1>7 DEF StatusSame, SamePower
<1>8. /\ g \in OwnFrame(a) /\ g \in FrameType /\ g.dev = d /\ g.par /\ g.at = "resume_parent"
      /\ g.flags = f.flags
  <2>1. "DISABLE" \notin f.flags  BY <1>1 DEF GoodFrame, BarrierAts
  <2>2. /\ g \in FrameType /\ g.at = "resume_parent" /\ g.dev = d /\ g.par = TRUE
        /\ g.flags = f.flags
    BY <1>1 DEF FrameType
  <2>3. f.dev = d  OBVIOUS
  <2> HIDE DEF f, g
  <2>4. g \in GoodFrame  BY <1>1, <2>1, <2>2 DEF GoodFrame, BarrierAts, ResumeAts
  <2> QED  BY <1>1, <2>1, <2>2, <2>3, <2>4 DEF OwnFrame, ResumeAts
<1> HIDE DEF g
<1>9. /\ stack' \in Stacks /\ StackInv'
      /\ \A P : /\ Count(P) \in Nat
                /\ Count(P)' = Count(P) + One(g \in P) - One(f \in P)
  BY <1>1, <1>8, BecomeEffect DEF g
<1>10. ASSUME NEW e \in Devices
       PROVE  /\ g \notin InSuspend(e) /\ f \notin InSuspend(e)
              /\ g \notin InResume(e) /\ f \notin InResume(e)
              /\ g \notin InBarrier(e) /\ f \notin InBarrier(e)
              /\ g \notin DepthRaised(e) /\ f \notin DepthRaised(e)
              /\ f \notin OnParent(e) /\ (g \in OnParent(e) <=> e = u)
  <2>1. "DISABLE" \notin f.flags  BY <1>1 DEF GoodFrame, BarrierAts
  <2> QED  BY <1>1, <1>8, <2>1 DEF InSuspend, InResume, InBarrier, DepthRaised,
                                   OnParent, BarrierAts
<1>11. ASSUME NEW P, g \notin P, f \notin P PROVE Count(P)' = Count(P)
  BY <1>9, <1>11 DEF One
<1>12. UsageStepCounts  BY <1>10, <1>11 DEF UsageStepCounts
<1>13. UsageInv'
  <2> SUFFICES ASSUME NEW e \in Devices
               PROVE  power'[e].usage = Cardinality(Users(e)') + Count(OnParent(e))'
                                          + Count(InBarrier(e))' + Fixed(power'[e])
    BY DEF UsageInv
  <2>1. Users(e)' = Users(e) /\ Count(InBarrier(e))' = Count(InBarrier(e))
    BY <1>10, <1>11 DEF Users
  <2>2. Count(OnParent(e))' = Count(OnParent(e)) + One(e = u)
    BY <1>9, <1>10 DEF One
  <2>3. Fixed(power'[e]) = Fixed(power[e])
    <3>1. Fixed(q) = Fixed(power[d])  BY DEF Fixed, SamePower
    <3> QED  BY <1>6, <1>7, <3>1, Zenon
  <2>4. power'[e].usage = power[e].usage + One(e = u) /\ power[e].usage \in Nat
    <3>1. power[e].usage \in Nat  BY <1>1 DEF TypeOK, PowerType
    <3>2. CASE e = u  BY <1>5, <1>6, <1>7, <3>1, <3>2 DEF One
    <3>3. CASE e # u
      <4>1. power'[e].usage = power[e].usage  BY <1>7, <3>3 DEF SamePower
      <4> QED  BY <3>1, <3>3, <4>1 DEF One
    <3> QED  BY <3>1, <3>2, <3>3
  <2>5. /\ Cardinality(Users(e)) \in Nat /\ Count(InBarrier(e)) \in Nat
        /\ Count(OnParent(e)) \in Nat /\ Fixed(power[e]) \in Nat /\ One(e = u) \in Nat
    BY InUse DEF One, Fixed
  <2>6. /\ Cardinality(Users(e)') \in Int /\ Count(OnParent(e))' \in Int
        /\ Count(InBarrier(e))' \in Int /\ power'[e].usage \in Int
    BY <2>1, <2>2, <2>4, <2>5
  <2>7. power'[e].usage - power[e].usage =
             (Cardinality(Users(e)') - Cardinality(Users(e)))
           + (Count(OnParent(e))' - Count(OnParent(e)))
           + (Count(InBarrier(e))' - Count(InBarrier(e)))
           + (Fixed(power'[e]) - Fixed(power[e]))
    BY <2>1, <2>2, <2>3, <2>4, <2>5
  <2> QED  BY <2>6, <2>7, UsageAt
<1>14. lock' \in [Devices -> Actors \cup {NULL}] /\ asleep' \subseteq Actors
  BY <1>1, LockTypes
<1>15. \A t \in Tasks : held'[t] \subseteq refs'[t] /\ held'[t] \subseteq held[t]
  BY DEF IInv, HeldInv
<1> QED  BY <1>7, <1>71, <1>9, <1>12, <1>13, <1>14, <1>15, UsageStep DEF IInv, TypeOK

LEMMA ResumeStep ==
  ASSUME IInv, NEW a \in Actors, rpm_resume(a)
  PROVE  IInv'
<1> DEFINE at == "resume"
<1>1. Running(a, at) /\ at \in PlainAts /\ at \in ResumeAts /\ at \in {"resume", "resume_cb"}
  BY DEF rpm_resume, Section, PlainAts, ResumeAts
<1>2. PICK d \in Devices : d = Top(a).dev  BY <1>1, AtTop
<1> DEFINE p == power[d]
           u == Parent[d]
           q == [p EXCEPT !.request = "NONE", !.timer = IF @ = "suspend" THEN "off" ELSE @]
           q1 == [q EXCEPT !.deferred = @ \/ p.status = "SUSPENDING"]
           q2 == QueueRequest(q, "RESUME")
           refused == p.error \/ p.depth > 0
<1>3. TypeOK /\ StackInv /\ p \in PowerType /\ power[d] \in PowerType  BY <1>1, <1>2, AtTop
<1>4. UNCHANGED <<refs, disabled>>  BY DEF rpm_resume
<1>5. \/ ResumeOut(a, FALSE) /\ UNCHANGED <<power, asleep>>
      \/ p.status = "ACTIVE" /\ SetPower(d, q) /\ ResumeOut(a, TRUE) /\ UNCHANGED asleep
      \/ SetPower(d, q1) /\ ResumeOut(a, FALSE) /\ UNCHANGED asleep
      \/ /\ SetPower(d, q) /\ asleep' = asleep \cup {a} /\ Goto(a, "resume_wait") /\ Drop(d)
         /\ UNCHANGED held
      \/ SetPower(d, q2) /\ ResumeOut(a, FALSE) /\ UNCHANGED asleep
      \/ /\ u # NULL /\ ~Top(a).par
         /\ power' = [power EXCEPT ![d] = q, ![u].usage = @ + 1]
         /\ Become(a, [Top(a) EXCEPT !.at = "resume_parent", !.par = TRUE])
         /\ Drop(d) /\ UNCHANGED <<asleep, held>>
      \/ /\ ~refused /\ Quiet(p) /\ (u = NULL \/ Top(a).par)
         /\ SetPower(d, [q EXCEPT !.status = "RESUMING"])
         /\ Goto(a, "resume_cb") /\ Drop(d) /\ UNCHANGED <<asleep, held>>
  BY <1>2 DEF rpm_resume
<1>6. q \in PowerType /\ SamePower(p, q)
  BY <1>3, ZenonT(30) DEF PowerType, Requests, SamePower
<1> HIDE DEF q
<1>7. q1 \in PowerType /\ SamePower(p, q1)
  <2>1. q1 \in PowerType /\ SamePower(q, q1)  BY <1>6 DEF PowerType, SamePower
  <2> QED  BY <1>6, <2>1 DEF SamePower
<1>8. q2 \in PowerType /\ SamePower(p, q2)
  <2>1. "RESUME" \in Requests  BY DEF Requests
  <2>2. q2 \in PowerType /\ SamePower(q, q2)  BY <1>6, <2>1, QueueType
  <2> QED  BY <1>6, <2>2 DEF SamePower
<1> HIDE DEF q1, q2
<1>9. ASSUME NEW active, ResumeOut(a, active)
      PROVE  /\ stack' \in Stacks /\ StackInv' /\ CountsSame
             /\ lock' \in [Devices -> Actors \cup {NULL}]
  BY <1>1, <1>4, <1>9, OutSame
<1>10. CASE ResumeOut(a, FALSE) /\ UNCHANGED <<power, asleep>>
  <2>1. power' \in [Devices -> PowerType] /\ AllPowerSame  BY <1>3, <1>10, KeepPowerSame
  <2>2. HeldGrows(a, d)  BY <1>1, <1>2, <1>10, OutHeld
  <2> QED  BY <1>3, <1>4, <1>9, <1>10, <2>1, <2>2, LockTypes, QuietHeld
<1>11. CASE p.status = "ACTIVE" /\ SetPower(d, q) /\ ResumeOut(a, TRUE) /\ UNCHANGED asleep
  <2>1. power' \in [Devices -> PowerType] /\ AllPowerSame  BY <1>3, <1>6, <1>11, SetPowerSame
  <2>2. power'[d].status = "ACTIVE"  BY <1>11, <2>1 DEF AllPowerSame, SamePower
  <2>3. HeldGrows(a, d)  BY <1>1, <1>2, <1>11, <2>2, OutHeld
  <2> QED  BY <1>3, <1>4, <1>9, <1>11, <2>1, <2>3, LockTypes, QuietHeld
<1>12. CASE SetPower(d, q1) /\ ResumeOut(a, FALSE) /\ UNCHANGED asleep
  <2>1. power' \in [Devices -> PowerType] /\ AllPowerSame  BY <1>3, <1>7, <1>12, SetPowerSame
  <2>2. HeldGrows(a, d)  BY <1>1, <1>2, <1>12, OutHeld
  <2> QED  BY <1>3, <1>4, <1>9, <1>12, <2>1, <2>2, LockTypes, QuietHeld
<1>13. CASE /\ SetPower(d, q) /\ asleep' = asleep \cup {a} /\ Goto(a, "resume_wait") /\ Drop(d)
            /\ UNCHANGED held
  <2>1. power' \in [Devices -> PowerType] /\ AllPowerSame  BY <1>3, <1>6, <1>13, SetPowerSame
  <2>2. stack' \in Stacks /\ StackInv' /\ CountsSame
    <3>1. "resume_wait" \in PlainAts /\ "resume_wait" \in ResumeAts
      BY DEF PlainAts, ResumeAts
    <3> QED  BY <1>1, <1>4, <1>13, <3>1, GotoSame
  <2> QED  BY <1>3, <1>4, <1>13, <2>1, <2>2, LockTypes, QuietStep
<1>14. CASE SetPower(d, q2) /\ ResumeOut(a, FALSE) /\ UNCHANGED asleep
  <2>1. power' \in [Devices -> PowerType] /\ AllPowerSame  BY <1>3, <1>8, <1>14, SetPowerSame
  <2>2. HeldGrows(a, d)  BY <1>1, <1>2, <1>14, OutHeld
  <2> QED  BY <1>3, <1>4, <1>9, <1>14, <2>1, <2>2, LockTypes, QuietHeld
<1>15. CASE /\ u # NULL /\ ~Top(a).par
            /\ power' = [power EXCEPT ![d] = q, ![u].usage = @ + 1]
            /\ Become(a, [Top(a) EXCEPT !.at = "resume_parent", !.par = TRUE])
            /\ Drop(d) /\ UNCHANGED <<asleep, held>>
  BY <1>1, <1>2, <1>4, <1>6, <1>15, ResumeGet
<1>16. CASE /\ ~refused /\ Quiet(p) /\ (u = NULL \/ Top(a).par)
            /\ SetPower(d, [q EXCEPT !.status = "RESUMING"])
            /\ Goto(a, "resume_cb") /\ Drop(d) /\ UNCHANGED <<asleep, held>>
  BY <1>1, <1>2, <1>4, <1>6, <1>16, ResumeEntry
<1> QED  BY <1>5, <1>10, <1>11, <1>12, <1>13, <1>14, <1>15, <1>16

(* The references on d change, and no others.                              *)
LEMMA UsageOf ==
  ASSUME IInv, NEW d \in Devices, power' \in [Devices -> PowerType],
         \A e \in Devices \ {d} :
           /\ power'[e].usage = power[e].usage /\ Fixed(power'[e]) = Fixed(power[e])
           /\ Users(e)' = Users(e) /\ Count(OnParent(e))' = Count(OnParent(e))
           /\ Count(InBarrier(e))' = Count(InBarrier(e)),
         Cardinality(Users(d)') \in Int, Count(OnParent(d))' \in Int, Count(InBarrier(d))' \in Int,
         power'[d].usage - power[d].usage =
             (Cardinality(Users(d)') - Cardinality(Users(d)))
           + (Count(OnParent(d))' - Count(OnParent(d)))
           + (Count(InBarrier(d))' - Count(InBarrier(d)))
           + (Fixed(power'[d]) - Fixed(power[d]))
  PROVE  UsageInv'
<1> SUFFICES ASSUME NEW e \in Devices
             PROVE  power'[e].usage = Cardinality(Users(e)') + Count(OnParent(e))'
                                        + Count(InBarrier(e))' + Fixed(power'[e])
  BY DEF UsageInv
<1>1. CASE e = d
  <2>1. power'[d].usage \in Int  BY DEF PowerType
  <2> QED  BY <1>1, <2>1, UsageAt
<1>2. CASE e # d
  BY <1>2 DEF IInv, UsageInv
<1> QED  BY <1>1, <1>2

LEMMA ResumePutStep ==
  ASSUME IInv, NEW a \in Actors, resume_put(a)
  PROVE  IInv'
<1>1. Running(a, "resume_put")  BY DEF resume_put, Section
<1>2. PICK d \in Devices : d = Top(a).dev  BY <1>1, AtTop
<1> DEFINE f == Top(a)
<1>3. /\ TypeOK /\ StackInv /\ stack[a] # <<>>
      /\ f.at = "resume_put" /\ f \in OwnFrame(a) /\ f \in GoodFrame /\ f \in FrameType /\ f.par
  BY <1>1, AtTop DEF GoodFrame
<1>4. PICK u \in Devices : u = Parent[d]
  BY <1>2, <1>3, PMAssumption DEF GoodFrame
<1> DEFINE n == power[u].usage - 1
           r == [power[u] EXCEPT !.usage = n]
<1>5. power[u] \in PowerType /\ power[u].usage \in Nat  BY <1>3 DEF TypeOK, PowerType
<1>6. power' = [power EXCEPT ![u] = r]  BY <1>2, <1>3, <1>4 DEF resume_put, TypeOK
<1>7. UNCHANGED <<refs, held, disabled>> /\ UNCHANGED asleep  BY DEF resume_put
<1>8. Count(OnParent(u)) \in Nat /\ Count(OnParent(u)) >= 1
  <2>1. f \in OnParent(u)  BY <1>2, <1>3, <1>4 DEF OnParent
  <2> QED  BY <1>3, <2>1, TopCounted
<1>9. n \in Nat
  <2>1. power[u].usage = Cardinality(Users(u)) + Count(OnParent(u)) + Count(InBarrier(u))
                           + Fixed(power[u])
    BY DEF IInv, UsageInv
  <2>2. Cardinality(Users(u)) \in Nat /\ Count(InBarrier(u)) \in Nat /\ Fixed(power[u]) \in Nat
    BY InUse DEF Fixed
  <2> QED  BY <1>5, <1>8, <2>1, <2>2
<1>10. n = power[u].usage - 1  OBVIOUS
<1> HIDE DEF n
<1>11. /\ r \in PowerType /\ r.usage = n /\ r.status = power[u].status
       /\ r.children = power[u].children /\ r.depth = power[u].depth
       /\ (r.error <=> power[u].error) /\ Fixed(r) = Fixed(power[u])
  BY <1>5, <1>9, SetUsage
<1> HIDE DEF r
<1>12. /\ power' \in [Devices -> PowerType] /\ power'[u] = r
       /\ \A e \in Devices \ {u} : power'[e] = power[e]
  BY <1>3, <1>6, <1>11 DEF TypeOK
<1>13. StatusSame  BY <1>11, <1>12 DEF StatusSame
<1> DEFINE g == [f EXCEPT !.at = "resume_put_idle", !.par = FALSE]
<1>14. \/ Become(a, g) /\ UNCHANGED lock
       \/ Return(a)
  BY DEF resume_put
<1>15. "DISABLE" \notin f.flags  BY <1>3 DEF GoodFrame, BarrierAts
<1>16. /\ g \in FrameType /\ g.at = "resume_put_idle" /\ g.dev = d /\ ~g.par
       /\ g.flags = f.flags
  BY <1>2, <1>3 DEF FrameType
<1>17. f.dev = d  BY <1>2
<1> HIDE DEF f, g
<1>18. g \in OwnFrame(a)
  <2>1. g \in GoodFrame
    BY <1>3, <1>4, <1>15, <1>16, PMAssumption DEF GoodFrame, BarrierAts, ResumeAts
  <2> QED  BY <1>3, <1>15, <1>16, <1>17, <2>1 DEF OwnFrame, ResumeAts
<1>19. ASSUME NEW e \in Devices
       PROVE  /\ g \notin InSuspend(e) /\ f \notin InSuspend(e)
              /\ g \notin InResume(e) /\ f \notin InResume(e)
              /\ g \notin InBarrier(e) /\ f \notin InBarrier(e)
              /\ g \notin DepthRaised(e) /\ f \notin DepthRaised(e)
              /\ g \notin OnParent(e) /\ (f \in OnParent(e) <=> e = u)
  BY <1>3, <1>4, <1>15, <1>16, <1>17
     DEF InSuspend, InResume, InBarrier, DepthRaised, OnParent, BarrierAts
<1>20. /\ stack' \in Stacks /\ StackInv' /\ lock' \in [Devices -> Actors \cup {NULL}]
       /\ \A P : g \notin P => Count(P) \in Nat /\ Count(P)' = Count(P) - One(f \in P)
  <2>1. CASE Become(a, g) /\ UNCHANGED lock
    <3>1. /\ stack' \in Stacks /\ StackInv'
          /\ \A P : /\ Count(P) \in Nat
                    /\ Count(P)' = Count(P) + One(g \in P) - One(f \in P)
      BY <1>3, <1>7, <1>18, <2>1, BecomeEffect DEF f
    <3> QED  BY <1>3, <2>1, <3>1 DEF One, TypeOK
  <2>2. CASE Return(a)
    <3>1. stack' = [stack EXCEPT ![a] = Tail(stack[a])]  BY <2>2 DEF Return
    <3>2. /\ stack' \in Stacks /\ StackInv'
          /\ \A P : Count(P) \in Nat /\ Count(P)' = Count(P) - One(f \in P)
      BY <1>3, <1>7, <3>1, ReturnEffect DEF f
    <3> QED  BY <1>3, <2>2, <3>2, LockTypes
  <2> QED  BY <1>14, <2>1, <2>2
<1>21. ASSUME NEW P, g \notin P, f \notin P PROVE Count(P)' = Count(P)
  BY <1>20, <1>21 DEF One
<1>22. UsageStepCounts  BY <1>19, <1>21 DEF UsageStepCounts
<1>23. UsageInv'
  <2>1. \A e \in Devices : Users(e)' = Users(e) /\ Count(InBarrier(e))' = Count(InBarrier(e))
    BY <1>7, <1>19, <1>21 DEF Users
  <2>2. \A e \in Devices \ {u} : /\ power'[e].usage = power[e].usage
                                 /\ Fixed(power'[e]) = Fixed(power[e])
                                 /\ Count(OnParent(e))' = Count(OnParent(e))
    BY <1>12, <1>19, <1>21
  <2>3. Count(OnParent(u))' = Count(OnParent(u)) - 1  BY <1>19, <1>20 DEF One
  <2>4. /\ Cardinality(Users(u)) \in Nat /\ Count(InBarrier(u)) \in Nat
        /\ Fixed(power[u]) \in Nat
    BY InUse DEF Fixed
  <2>5. /\ Cardinality(Users(u)') \in Int /\ Count(OnParent(u))' \in Int
        /\ Count(InBarrier(u))' \in Int
    BY <1>8, <2>1, <2>3, <2>4
  <2>6. power'[u].usage - power[u].usage =
             (Cardinality(Users(u)') - Cardinality(Users(u)))
           + (Count(OnParent(u))' - Count(OnParent(u)))
           + (Count(InBarrier(u))' - Count(InBarrier(u)))
           + (Fixed(power'[u]) - Fixed(power[u]))
    BY <1>5, <1>8, <1>10, <1>11, <1>12, <2>1, <2>3, <2>4
  <2> QED  BY <1>12, <2>1, <2>2, <2>5, <2>6, UsageOf
<1>24. \A t \in Tasks : held'[t] \subseteq refs'[t] /\ held'[t] \subseteq held[t]
  BY <1>7 DEF IInv, HeldInv
<1> QED  BY <1>7, <1>12, <1>13, <1>20, <1>22, <1>23, <1>24, UsageStep DEF IInv, TypeOK

(***************************************************************************)
(* Entry points.                                                           *)
(***************************************************************************)

LEMMA SameCounts ==
  ASSUME CountsSame
  PROVE  UsageStepCounts
BY DEF CountsSame, UsageStepCounts

LEMMA PutStep ==
  ASSUME IInv, NEW t \in Tasks, NEW d \in Devices, stack[t] = <<>>, NEW f,
         f \in OwnFrame(t)', Uncounted(f), PutAndCall(t, d, f), UNCHANGED <<lock, asleep, disabled>>
  PROVE  IInv'
<1> DEFINE n == power[d].usage - 1
           r == [power[d] EXCEPT !.usage = n]
<1>1. /\ TypeOK /\ StackInv /\ t \in Actors /\ power[d] \in PowerType /\ power[d].usage \in Nat
      /\ refs \in [Tasks -> SUBSET Devices] /\ held \in [Tasks -> SUBSET Devices]
  BY DEF IInv, TypeOK, PowerType, Actors
<1>2. /\ d \in refs[t] /\ power' = [power EXCEPT ![d] = r]
      /\ refs' = [refs EXCEPT ![t] = @ \ {d}] /\ held' = [held EXCEPT ![t] = @ \ {d}]
      /\ Enter(t, f) \/ stack' = stack
  BY DEF PutAndCall
<1>3. /\ refs' \in [Tasks -> SUBSET Devices] /\ held' \in [Tasks -> SUBSET Devices]
      /\ refs'[t] = refs[t] \ {d} /\ \A s \in Tasks \ {t} : refs'[s] = refs[s]
      /\ held'[t] = held[t] \ {d} /\ \A s \in Tasks \ {t} : held'[s] = held[s]
  BY <1>1, <1>2
<1>4. stack' \in Stacks /\ StackInv' /\ CountsSame
  BY <1>1, <1>2, <1>3, EnterSame, StaySame
<1>5. Users(d)' = Users(d) \ {t} /\ t \in Users(d) /\ \A e \in Devices \ {d} : Users(e)' = Users(e)
  BY <1>2, <1>3 DEF Users
<1>6. Cardinality(Users(d)') = Cardinality(Users(d)) - 1 /\ Cardinality(Users(d)) \in Nat
      /\ Cardinality(Users(d)) >= 1
  <2>1. IsFiniteSet(Users(d))  BY PMAssumption, FS_Subset DEF Users
  <2>2. Cardinality(Users(d) \ {t}) = Cardinality(Users(d)) - 1
    BY <1>5, <2>1, FS_RemoveElement
  <2>3. Cardinality(Users(d)) \in Nat /\ Cardinality(Users(d)) >= 1  BY <1>2, InUse
  <2> QED  BY <1>5, <2>2, <2>3
<1>7. /\ Count(OnParent(d)) \in Nat /\ Count(InBarrier(d)) \in Nat /\ Fixed(power[d]) \in Nat
  BY InUse DEF Fixed
<1>8. n \in Nat /\ n = power[d].usage - 1
  <2>1. power[d].usage = Cardinality(Users(d)) + Count(OnParent(d)) + Count(InBarrier(d))
                           + Fixed(power[d])
    BY DEF IInv, UsageInv
  <2> QED  BY <1>1, <1>6, <1>7, <2>1
<1> HIDE DEF n
<1>9. /\ r \in PowerType /\ r.usage = n /\ r.status = power[d].status
      /\ r.children = power[d].children /\ r.depth = power[d].depth
      /\ (r.error <=> power[d].error) /\ Fixed(r) = Fixed(power[d])
  BY <1>1, <1>8, SetUsage
<1> HIDE DEF r
<1>10. /\ power' \in [Devices -> PowerType] /\ power'[d] = r
       /\ \A e \in Devices \ {d} : power'[e] = power[e]
  BY <1>1, <1>2, <1>9 DEF TypeOK
<1>11. StatusSame  BY <1>9, <1>10 DEF StatusSame
<1>12. UsageInv'
  <2>1. \A e \in Devices : /\ Count(OnParent(e))' = Count(OnParent(e))
                           /\ Count(InBarrier(e))' = Count(InBarrier(e))
    BY <1>4 DEF CountsSame
  <2>2. /\ Cardinality(Users(d)') \in Int /\ Count(OnParent(d))' \in Int
        /\ Count(InBarrier(d))' \in Int
    BY <1>6, <1>7, <2>1
  <2>3. power'[d].usage - power[d].usage =
             (Cardinality(Users(d)') - Cardinality(Users(d)))
           + (Count(OnParent(d))' - Count(OnParent(d)))
           + (Count(InBarrier(d))' - Count(InBarrier(d)))
           + (Fixed(power'[d]) - Fixed(power[d]))
    BY <1>1, <1>6, <1>7, <1>8, <1>9, <1>10, <2>1
  <2>4. \A e \in Devices \ {d} : /\ power'[e].usage = power[e].usage
                                 /\ Fixed(power'[e]) = Fixed(power[e])
    BY <1>10
  <2> QED  BY <1>5, <1>10, <2>1, <2>2, <2>3, <2>4, UsageOf
<1>13. \A s \in Tasks : held'[s] \subseteq refs'[s] /\ held'[s] \subseteq held[s]
  BY <1>3 DEF IInv, HeldInv
<1>14. lock' \in [Devices -> Actors \cup {NULL}] /\ asleep' \subseteq Actors
  BY <1>1 DEF TypeOK
<1>15. UsageStepCounts  BY <1>4, SameCounts
<1> QED  BY <1>3, <1>4, <1>10, <1>11, <1>12, <1>13, <1>14, <1>15, UsageStep

(* rpm_idle or rpm_suspend is entered without a reference to give back.    *)
LEMMA PlainEntry ==
  ASSUME IInv, NEW t \in Tasks, stack[t] = <<>>, NEW f,
         f \in OwnFrame(t)', Uncounted(f), Enter(t, f),
         UNCHANGED <<power, refs, held>>, UNCHANGED <<lock, asleep, disabled>>
  PROVE  IInv'
<1>1. TypeOK /\ StackInv /\ t \in Actors  BY DEF IInv, Actors
<1>2. stack' \in Stacks /\ StackInv' /\ CountsSame  BY <1>1, EnterSame
<1>3. power' \in [Devices -> PowerType] /\ AllPowerSame  BY <1>1, KeepPowerSame
<1> QED  BY <1>1, <1>2, <1>3, QuietStep DEF TypeOK

LEMMA EntryIdleStep ==
  ASSUME IInv, NEW t \in Tasks, NEW d \in Devices, __pm_runtime_idle(t, d)
  PROVE  IInv'
<1>1. PICK flags \in IdleFlags :
        \/ PutAndCall(t, d, Frame("idle", d, flags))
        \/ Enter(t, Frame("idle", d, flags)) /\ UNCHANGED <<power, refs, held>>
  BY DEF __pm_runtime_idle
<1>2. flags \in SUBSET CallFlags /\ "idle" \in NewAts /\ "idle" # "resume"
  BY PMAssumption DEF CallFlags, NewAts
<1>3. Frame("idle", d, flags) \in OwnFrame(t)' /\ Uncounted(Frame("idle", d, flags))
  BY <1>2, NewOwn
<1>4. stack[t] = <<>> /\ UNCHANGED <<lock, asleep, disabled>>  BY DEF __pm_runtime_idle
<1> QED  BY <1>1, <1>3, <1>4, PutStep, PlainEntry

LEMMA EntrySuspendStep ==
  ASSUME IInv, NEW t \in Tasks, NEW d \in Devices, __pm_runtime_suspend(t, d)
  PROVE  IInv'
<1>1. PICK flags \in SuspendFlags :
        \/ PutAndCall(t, d, Frame("suspend", d, flags))
        \/ Enter(t, Frame("suspend", d, flags)) /\ UNCHANGED <<power, refs, held>>
  BY DEF __pm_runtime_suspend
<1>2. flags \in SUBSET CallFlags /\ "suspend" \in NewAts /\ "suspend" # "resume"
  BY PMAssumption DEF CallFlags, NewAts
<1>3. Frame("suspend", d, flags) \in OwnFrame(t)' /\ Uncounted(Frame("suspend", d, flags))
  BY <1>2, NewOwn
<1>4. stack[t] = <<>> /\ UNCHANGED <<lock, asleep, disabled>>  BY DEF __pm_runtime_suspend
<1> QED  BY <1>1, <1>3, <1>4, PutStep, PlainEntry

LEMMA EntryResumeStep ==
  ASSUME IInv, NEW t \in Tasks, NEW d \in Devices, __pm_runtime_resume(t, d)
  PROVE  IInv'
<1>1. PICK flags \in ResumeFlags :
        /\ Enter(t, Frame("resume", d, flags))
        /\ IF "GET_PUT" \in flags
           THEN /\ d \notin refs[t]
                /\ power' = [power EXCEPT ![d].usage = @ + 1]
                /\ refs' = [refs EXCEPT ![t] = @ \cup {d}]
           ELSE UNCHANGED <<power, refs>>
  BY DEF __pm_runtime_resume
<1>2. flags \in SUBSET CallFlags /\ "resume" \in NewAts
  BY PMAssumption DEF CallFlags, NewAts
<1>3. stack[t] = <<>> /\ UNCHANGED <<lock, asleep, held, disabled>>  BY DEF __pm_runtime_resume
<1> DEFINE f == Frame("resume", d, flags)
<1>4. CASE "GET_PUT" \notin flags
  <2>1. f \in OwnFrame(t)' /\ Uncounted(f)  BY <1>2, <1>4, NewOwn
  <2> QED  BY <1>1, <1>3, <1>4, <2>1, PlainEntry
<1>5. CASE "GET_PUT" \in flags
  <2> DEFINE n == power[d].usage + 1
             r == [power[d] EXCEPT !.usage = n]
  <2>1. /\ TypeOK /\ StackInv /\ t \in Actors /\ power[d] \in PowerType /\ power[d].usage \in Nat
        /\ refs \in [Tasks -> SUBSET Devices] /\ held \in [Tasks -> SUBSET Devices]
    BY DEF IInv, TypeOK, PowerType, Actors
  <2>2. /\ d \notin refs[t] /\ power' = [power EXCEPT ![d] = r]
        /\ refs' = [refs EXCEPT ![t] = @ \cup {d}]
    BY <1>1, <1>5
  <2>3. /\ refs' \in [Tasks -> SUBSET Devices]
        /\ refs'[t] = refs[t] \cup {d} /\ \A s \in Tasks \ {t} : refs'[s] = refs[s]
    BY <2>1, <2>2
  <2>4. f \in OwnFrame(t)' /\ Uncounted(f)
    <3>1. f \in GoodFrame /\ Uncounted(f)  BY <1>2, NewFrame
    <3>2. "DISABLE" \notin f.flags /\ f.dev = d  BY <1>2 DEF Frame, CallFlags
    <3> HIDE DEF f
    <3> QED  BY <2>3, <3>1, <3>2 DEF OwnFrame
  <2> HIDE DEF f
  <2>5. stack' \in Stacks /\ StackInv' /\ CountsSame
    BY <1>1, <1>3, <2>1, <2>3, <2>4, EnterSame DEF f
  <2>6. /\ Users(d)' = Users(d) \cup {t} /\ t \notin Users(d)
        /\ \A e \in Devices \ {d} : Users(e)' = Users(e)
    BY <2>2, <2>3 DEF Users
  <2>7. Cardinality(Users(d)') = Cardinality(Users(d)) + 1 /\ Cardinality(Users(d)) \in Nat
    <3>1. IsFiniteSet(Users(d))  BY PMAssumption, FS_Subset DEF Users
    <3>2. Cardinality(Users(d) \cup {t}) = Cardinality(Users(d)) + 1
      BY <2>6, <3>1, FS_AddElement
    <3> QED  BY <2>6, <3>2, InUse
  <2>8. /\ Count(OnParent(d)) \in Nat /\ Count(InBarrier(d)) \in Nat /\ Fixed(power[d]) \in Nat
    BY InUse DEF Fixed
  <2>9. n \in Nat /\ n = power[d].usage + 1  BY <2>1
  <2> HIDE DEF n
  <2>10. /\ r \in PowerType /\ r.usage = n /\ r.status = power[d].status
         /\ r.children = power[d].children /\ r.depth = power[d].depth
         /\ (r.error <=> power[d].error) /\ Fixed(r) = Fixed(power[d])
    BY <2>1, <2>9, SetUsage
  <2> HIDE DEF r
  <2>11. /\ power' \in [Devices -> PowerType] /\ power'[d] = r
         /\ \A e \in Devices \ {d} : power'[e] = power[e]
    BY <2>1, <2>2, <2>10 DEF TypeOK
  <2>12. StatusSame  BY <2>10, <2>11 DEF StatusSame
  <2>13. UsageInv'
    <3>1. \A e \in Devices : /\ Count(OnParent(e))' = Count(OnParent(e))
                             /\ Count(InBarrier(e))' = Count(InBarrier(e))
      BY <2>5 DEF CountsSame
    <3>2. /\ Cardinality(Users(d)') \in Int /\ Count(OnParent(d))' \in Int
          /\ Count(InBarrier(d))' \in Int
      BY <2>7, <2>8, <3>1
    <3>3. power'[d].usage - power[d].usage =
               (Cardinality(Users(d)') - Cardinality(Users(d)))
             + (Count(OnParent(d))' - Count(OnParent(d)))
             + (Count(InBarrier(d))' - Count(InBarrier(d)))
             + (Fixed(power'[d]) - Fixed(power[d]))
      BY <2>1, <2>7, <2>8, <2>9, <2>10, <2>11, <3>1
    <3>4. \A e \in Devices \ {d} : /\ power'[e].usage = power[e].usage
                                   /\ Fixed(power'[e]) = Fixed(power[e])
      BY <2>11
    <3> QED  BY <2>6, <2>11, <3>1, <3>2, <3>3, <3>4, UsageOf
  <2>14. \A s \in Tasks : held'[s] \subseteq refs'[s] /\ held'[s] \subseteq held[s]
    BY <1>3, <2>3 DEF IInv, HeldInv
  <2>15. lock' \in [Devices -> Actors \cup {NULL}] /\ asleep' \subseteq Actors
    BY <1>3, <2>1 DEF TypeOK
  <2>16. UsageStepCounts  BY <2>5, SameCounts
  <2> QED  BY <1>3, <2>1, <2>3, <2>5, <2>11, <2>12, <2>13, <2>14, <2>15, <2>16, UsageStep
<1> QED  BY <1>4, <1>5

(* A reference of pm_runtime_forbid() or of a negative autosuspend delay.  *)
LEMMA FixedStep ==
  ASSUME IInv, NEW d \in Devices, NEW q \in PowerType, SetPower(d, q),
         q.status = power[d].status, q.children = power[d].children,
         q.depth = power[d].depth, q.error <=> power[d].error,
         q.usage - power[d].usage = Fixed(q) - Fixed(power[d]),
         stack' \in Stacks, StackInv', CountsSame,
         lock' \in [Devices -> Actors \cup {NULL}], asleep' \subseteq Actors,
         UNCHANGED <<refs, held, disabled>>
  PROVE  IInv'
<1>1. TypeOK  BY DEF IInv
<1>2. /\ power' \in [Devices -> PowerType] /\ power'[d] = q
      /\ \A e \in Devices \ {d} : power'[e] = power[e]
  BY <1>1, SetPowerType
<1>3. StatusSame  BY <1>2 DEF StatusSame
<1>4. UsageInv'
  <2>1. \A e \in Devices : /\ Count(OnParent(e))' = Count(OnParent(e))
                           /\ Count(InBarrier(e))' = Count(InBarrier(e))
                           /\ Users(e)' = Users(e)
    BY DEF CountsSame, Users
  <2>2. /\ Cardinality(Users(d)) \in Int /\ Count(OnParent(d)) \in Int
        /\ Count(InBarrier(d)) \in Int /\ Fixed(power[d]) \in Int /\ Fixed(q) \in Int
        /\ q.usage \in Int /\ power[d].usage \in Int
    BY <1>1, InUse DEF Fixed, TypeOK, PowerType
  <2>3. /\ Cardinality(Users(d)') \in Int /\ Count(OnParent(d))' \in Int
        /\ Count(InBarrier(d))' \in Int
    BY <2>1, <2>2
  <2>4. power'[d].usage - power[d].usage =
             (Cardinality(Users(d)') - Cardinality(Users(d)))
           + (Count(OnParent(d))' - Count(OnParent(d)))
           + (Count(InBarrier(d))' - Count(InBarrier(d)))
           + (Fixed(power'[d]) - Fixed(power[d]))
    BY <1>2, <2>1, <2>2
  <2>5. \A e \in Devices \ {d} : /\ power'[e].usage = power[e].usage
                                 /\ Fixed(power'[e]) = Fixed(power[e])
    BY <1>2
  <2> QED  BY <1>2, <2>1, <2>3, <2>4, <2>5, UsageOf
<1>5. \A s \in Tasks : held'[s] \subseteq refs'[s] /\ held'[s] \subseteq held[s]
  BY DEF IInv, HeldInv
<1>6. UsageStepCounts  BY SameCounts
<1> QED  BY <1>1, <1>2, <1>3, <1>4, <1>5, <1>6, UsageStep DEF TypeOK

LEMMA FixedUsage ==
  ASSUME IInv, NEW d \in Devices
  PROVE  power[d].usage >= Fixed(power[d])
<1>1. power[d].usage = Cardinality(Users(d)) + Count(OnParent(d)) + Count(InBarrier(d))
                         + Fixed(power[d])
  BY DEF IInv, UsageInv
<1>2. /\ Cardinality(Users(d)) \in Nat /\ Count(OnParent(d)) \in Nat
      /\ Count(InBarrier(d)) \in Nat /\ Fixed(power[d]) \in Nat
  BY InUse DEF Fixed
<1>3. \A c, m, n, k \in Nat : c + m + n + k >= k  OBVIOUS
<1> QED  BY <1>1, <1>2, <1>3

LEMMA ForbidStep ==
  ASSUME IInv, NEW t \in Tasks, NEW d \in Devices, pm_runtime_forbid(t, d)
  PROVE  IInv'
<1> DEFINE p == power[d]
           n == p.usage + 1
           q == [p EXCEPT !.auto = FALSE, !.usage = n]
           f == Frame("resume", d, {})
<1>1. TypeOK /\ StackInv /\ t \in Actors /\ p \in PowerType  BY DEF IInv, TypeOK, Actors
<1>2. /\ stack[t] = <<>> /\ p.auto /\ SetPower(d, q) /\ Enter(t, f) /\ Keep(t, d)
      /\ UNCHANGED <<refs, held, disabled>> /\ UNCHANGED asleep
  BY DEF pm_runtime_forbid
<1>3. {} \in SUBSET CallFlags /\ "GET_PUT" \notin {} /\ "resume" \in NewAts  BY DEF NewAts
<1>4. f \in OwnFrame(t)' /\ Uncounted(f)  BY <1>3, NewOwn
<1> HIDE DEF f
<1>5. stack' \in Stacks /\ StackInv' /\ CountsSame  BY <1>1, <1>2, <1>4, EnterSame
<1>6. n \in Nat /\ n = p.usage + 1  BY <1>1 DEF PowerType
<1> HIDE DEF n
<1>7. /\ q \in PowerType /\ q.status = p.status /\ q.children = p.children
      /\ q.depth = p.depth /\ (q.error <=> p.error) /\ q.usage = n
      /\ ~q.auto /\ q.autosuspend = p.autosuspend /\ p.usage \in Nat
  BY <1>1, <1>6 DEF PowerType
<1> HIDE DEF q
<1>8. q.usage - p.usage = Fixed(q) - Fixed(p)  BY <1>2, <1>6, <1>7 DEF Fixed
<1> QED  BY <1>1, <1>2, <1>5, <1>7, <1>8, LockTypes, FixedStep

LEMMA AllowStep ==
  ASSUME IInv, NEW t \in Tasks, NEW d \in Devices, pm_runtime_allow(t, d)
  PROVE  IInv'
<1> DEFINE p == power[d]
           n == p.usage - 1
           q == [p EXCEPT !.auto = TRUE, !.usage = n]
           f == Frame("idle", d, {"AUTO"})
<1>1. TypeOK /\ StackInv /\ t \in Actors /\ p \in PowerType  BY DEF IInv, TypeOK, Actors
<1>2. /\ stack[t] = <<>> /\ ~p.auto /\ SetPower(d, q)
      /\ \/ Enter(t, f) /\ Keep(t, d)
         \/ UNCHANGED <<stack, lock>>
      /\ UNCHANGED <<refs, held, disabled>> /\ UNCHANGED asleep
  BY DEF pm_runtime_allow
<1>3. {"AUTO"} \in SUBSET CallFlags /\ "GET_PUT" \notin {"AUTO"} /\ "idle" \in NewAts
  BY DEF NewAts, CallFlags
<1>4. f \in OwnFrame(t)' /\ Uncounted(f)  BY <1>3, NewOwn
<1> HIDE DEF f
<1>5. stack' \in Stacks /\ StackInv' /\ CountsSame
  BY <1>1, <1>2, <1>4, EnterSame, StaySame
<1>6. n \in Nat /\ n = p.usage - 1
  <2>1. p.usage >= Fixed(p) /\ p.usage \in Nat  BY <1>1, FixedUsage DEF PowerType
  <2>2. Fixed(p) >= 1  BY <1>2 DEF Fixed
  <2>3. Fixed(p) \in Nat  BY DEF Fixed
  <2> QED  BY <2>1, <2>2, <2>3
<1> HIDE DEF n
<1>7. /\ q \in PowerType /\ q.status = p.status /\ q.children = p.children
      /\ q.depth = p.depth /\ (q.error <=> p.error) /\ q.usage = n
      /\ q.auto /\ q.autosuspend = p.autosuspend /\ p.usage \in Nat
  BY <1>1, <1>6 DEF PowerType
<1> HIDE DEF q
<1>8. q.usage - p.usage = Fixed(q) - Fixed(p)
  <2>1. Fixed(q) = Fixed(p) - 1  BY <1>2, <1>7 DEF Fixed
  <2>2. Fixed(p) \in Nat  BY DEF Fixed
  <2> QED  BY <1>6, <1>7, <2>1, <2>2
<1>9. lock' \in [Devices -> Actors \cup {NULL}] /\ asleep' \subseteq Actors
  BY <1>1, <1>2, LockTypes
<1> QED  BY <1>1, <1>2, <1>5, <1>7, <1>8, <1>9, FixedStep

LEMMA AutosuspendStep ==
  ASSUME IInv, NEW t \in Tasks, NEW d \in Devices, update_autosuspend(t, d)
  PROVE  IInv'
<1> DEFINE p == power[d]
<1>1. /\ TypeOK /\ StackInv /\ t \in Actors /\ p \in PowerType /\ p.usage \in Nat
  BY DEF IInv, TypeOK, Actors, PowerType
<1>2. /\ stack[t] = <<>> /\ Keep(t, d)
      /\ UNCHANGED <<refs, held, disabled>> /\ UNCHANGED asleep
  BY DEF update_autosuspend
<1>3. PICK new \in {"off", "on", "never"} \ {p.autosuspend} :
        \/ /\ new = "never"
           /\ SetPower(d, [p EXCEPT !.autosuspend = new, !.usage = @ + 1])
           /\ Enter(t, Frame("resume", d, {}))
        \/ /\ new # "never"
           /\ SetPower(d, [p EXCEPT !.autosuspend = new,
                             !.usage = IF p.autosuspend = "never" THEN @ - 1 ELSE @])
           /\ Enter(t, Frame("idle", d, {"AUTO"}))
  BY DEF update_autosuspend
<1>4. CASE /\ new = "never"
           /\ SetPower(d, [p EXCEPT !.autosuspend = new, !.usage = @ + 1])
           /\ Enter(t, Frame("resume", d, {}))
  <2> DEFINE n == p.usage + 1
             q == [p EXCEPT !.autosuspend = new, !.usage = n]
             f == Frame("resume", d, {})
  <2>1. {} \in SUBSET CallFlags /\ "GET_PUT" \notin {} /\ "resume" \in NewAts  BY DEF NewAts
  <2>2. f \in OwnFrame(t)' /\ Uncounted(f)  BY <2>1, NewOwn
  <2> HIDE DEF f
  <2>3. stack' \in Stacks /\ StackInv' /\ CountsSame
    BY <1>1, <1>2, <1>4, <2>2, EnterSame DEF f
  <2>4. n \in Nat /\ n = p.usage + 1 /\ SetPower(d, q)  BY <1>1, <1>4
  <2> HIDE DEF n
  <2>5. /\ q \in PowerType /\ q.status = p.status /\ q.children = p.children
        /\ q.depth = p.depth /\ (q.error <=> p.error) /\ q.usage = n
        /\ (q.auto <=> p.auto) /\ q.autosuspend = "never"
    BY <1>1, <1>4, <2>4 DEF PowerType
  <2> HIDE DEF q
  <2>6. q.usage - p.usage = Fixed(q) - Fixed(p)  BY <1>1, <1>3, <1>4, <2>4, <2>5 DEF Fixed
  <2> QED  BY <1>1, <1>2, <1>4, <2>3, <2>4, <2>5, <2>6, LockTypes, FixedStep
<1>5. CASE /\ new # "never"
           /\ SetPower(d, [p EXCEPT !.autosuspend = new,
                             !.usage = IF p.autosuspend = "never" THEN @ - 1 ELSE @])
           /\ Enter(t, Frame("idle", d, {"AUTO"}))
  <2> DEFINE n == IF p.autosuspend = "never" THEN p.usage - 1 ELSE p.usage
             q == [p EXCEPT !.autosuspend = new, !.usage = n]
             f == Frame("idle", d, {"AUTO"})
  <2>1. {"AUTO"} \in SUBSET CallFlags /\ "GET_PUT" \notin {"AUTO"} /\ "idle" \in NewAts
    BY DEF NewAts, CallFlags
  <2>2. f \in OwnFrame(t)' /\ Uncounted(f)  BY <2>1, NewOwn
  <2> HIDE DEF f
  <2>3. stack' \in Stacks /\ StackInv' /\ CountsSame
    BY <1>1, <1>2, <1>5, <2>2, EnterSame DEF f
  <2>4. n \in Nat /\ (p.autosuspend = "never" => n = p.usage - 1)
        /\ (p.autosuspend # "never" => n = p.usage)
    <3>1. p.usage >= Fixed(p)  BY <1>1, FixedUsage
    <3>2. p.autosuspend = "never" => Fixed(p) >= 1  BY DEF Fixed
    <3>3. Fixed(p) \in Nat  BY DEF Fixed
    <3> QED  BY <1>1, <3>1, <3>2, <3>3
  <2>5. SetPower(d, q)  BY <1>5
  <2> HIDE DEF n
  <2>6. /\ q \in PowerType /\ q.status = p.status /\ q.children = p.children
        /\ q.depth = p.depth /\ (q.error <=> p.error) /\ q.usage = n
        /\ (q.auto <=> p.auto) /\ q.autosuspend = new
    BY <1>1, <1>3, <2>4 DEF PowerType
  <2> HIDE DEF q
  <2>7. q.usage - p.usage = Fixed(q) - Fixed(p)
    <3>1. CASE p.autosuspend = "never"
      <4>1. Fixed(q) = Fixed(p) - 1  BY <1>5, <2>6, <3>1 DEF Fixed
      <4>2. Fixed(p) \in Nat  BY DEF Fixed
      <4> QED  BY <1>1, <2>4, <2>6, <3>1, <4>1, <4>2
    <3>2. CASE p.autosuspend # "never"
      <4>1. Fixed(q) = Fixed(p)  BY <1>5, <2>6, <3>2 DEF Fixed
      <4>2. Fixed(p) \in Nat  BY DEF Fixed
      <4> QED  BY <1>1, <2>4, <2>6, <3>2, <4>1, <4>2
    <3> QED  BY <3>1, <3>2
  <2> QED  BY <1>1, <1>2, <2>3, <2>5, <2>6, <2>7, LockTypes, FixedStep
<1> QED  BY <1>3, <1>4, <1>5

(***************************************************************************)
(* Disabling, and the barrier.                                             *)
(***************************************************************************)

DriverAts == {"disable", "disable_resumed"} \cup BarrierAts

(* All is counted as before but the disables and the barriers of d.        *)
CountsElse(d) == \A e \in Devices :
  /\ Count(InSuspend(e))' = Count(InSuspend(e))
  /\ Count(InResume(e))' = Count(InResume(e))
  /\ Count(OnParent(e))' = Count(OnParent(e))
  /\ e # d => /\ Count(InBarrier(e))' = Count(InBarrier(e))
              /\ Count(DepthRaised(e))' = Count(DepthRaised(e))

LEMMA DriverFrame ==
  ASSUME NEW f \in GoodFrame, f.at \in DriverAts, NEW e \in Devices
  PROVE  /\ f \notin InSuspend(e) /\ f \notin InResume(e) /\ f \notin OnParent(e)
         /\ f.dev # e => f \notin InBarrier(e) /\ f \notin DepthRaised(e)
<1>1. ~f.par /\ f.at # "suspend_cb" /\ f.at # "resume_cb"
  BY DEF GoodFrame, DriverAts, BarrierAts, ResumeAts
<1> QED  BY <1>1 DEF InSuspend, InResume, OnParent, InBarrier, DepthRaised

(* The depth of d, and only it, changes, with or without its usage.        *)
LEMMA DriverStep ==
  ASSUME IInv, NEW d \in Devices, power' \in [Devices -> PowerType],
         \A e \in Devices \ {d} : power'[e] = power[e],
         power'[d].status = power[d].status, power'[d].children = power[d].children,
         power'[d].error <=> power[d].error, Fixed(power'[d]) = Fixed(power[d]),
         stack' \in Stacks, StackInv', CountsElse(d), Count(InBarrier(d))' \in Int,
         power'[d].usage - power[d].usage = Count(InBarrier(d))' - Count(InBarrier(d)),
         power'[d].depth >= Cardinality(Disablers(d)') + Count(DepthRaised(d))',
         power'[d].depth # 0 /\ Count(DepthRaised(d))' = 0 => ~Changing(power[d]),
         disabled' \in [Tasks -> SUBSET Devices],
         \A e \in Devices \ {d} : Disablers(e)' = Disablers(e),
         lock' \in [Devices -> Actors \cup {NULL}], asleep' \subseteq Actors,
         UNCHANGED <<refs, held>>
  PROVE  IInv'
<1>1. TypeOK  BY DEF IInv
<1>2. TypeOK'  BY <1>1 DEF TypeOK, Stacks
<1>3. \A e \in Devices : /\ power'[e].status = power[e].status
                         /\ power'[e].children = power[e].children
                         /\ power'[e].error <=> power[e].error
  OBVIOUS
<1>4. CallbackInv'  BY <1>3 DEF IInv, CallbackInv, CountsElse
<1>5. ASSUME NEW e \in Devices \ {d}
      PROVE  power'[e].depth >= Cardinality(Disablers(e)') + Count(DepthRaised(e))'
  <2>1. Disablers(e)' = Disablers(e) /\ power'[e].depth = power[e].depth  OBVIOUS
  <2>2. Count(DepthRaised(e))' = Count(DepthRaised(e))  BY DEF CountsElse
  <2>3. power[e].depth >= Cardinality(Disablers(e)) + Count(DepthRaised(e))
    BY DEF IInv, DepthInv
  <2> QED  BY <2>1, <2>2, <2>3
<1>6. DepthInv'  BY <1>5 DEF DepthInv
<1>7. RestInv'
  <2>1. \A e \in Devices : Changing(power'[e]) <=> Changing(power[e])  BY <1>3 DEF Changing
  <2>2. \A e \in Devices : power[e].error => ~Changing(power[e])  BY DEF IInv, RestInv
  <2>3. ASSUME NEW e \in Devices, power'[e].depth # 0, Count(DepthRaised(e))' = 0
        PROVE  ~Changing(power[e])
    <3>1. CASE e = d  BY <2>3, <3>1
    <3>2. CASE e # d
      <4>1. power[e].depth # 0 /\ Count(DepthRaised(e)) = 0  BY <2>3, <3>2 DEF CountsElse
      <4> QED  BY <4>1 DEF IInv, RestInv
    <3> QED  BY <3>1, <3>2
  <2> QED  BY <1>3, <2>1, <2>2, <2>3 DEF RestInv
<1>8. ChildInv'
  <2>1. \A e \in Devices : /\ Counts(power'[e]) <=> Counts(power[e])
                           /\ power'[e].children = power[e].children
    BY <1>3 DEF Counts
  <2> QED  BY <2>1, ChildrenSame
<1>9. UsageInv'
  <2>1. \A e \in Devices : Users(e)' = Users(e) /\ Count(OnParent(e))' = Count(OnParent(e))
    BY DEF Users, CountsElse
  <2>2. \A e \in Devices \ {d} : Count(InBarrier(e))' = Count(InBarrier(e))
    BY DEF CountsElse
  <2>3. /\ Cardinality(Users(d)) \in Int /\ Count(OnParent(d)) \in Int
        /\ Count(InBarrier(d)) \in Int /\ Fixed(power[d]) \in Int
        /\ power[d].usage \in Int /\ power'[d].usage \in Int
    BY <1>1, InUse DEF Fixed, TypeOK, PowerType
  <2>4. Cardinality(Users(d)') \in Int /\ Count(OnParent(d))' \in Int  BY <2>1, <2>3
  <2>5. power'[d].usage - power[d].usage =
             (Cardinality(Users(d)') - Cardinality(Users(d)))
           + (Count(OnParent(d))' - Count(OnParent(d)))
           + (Count(InBarrier(d))' - Count(InBarrier(d)))
           + (Fixed(power'[d]) - Fixed(power[d]))
    BY <2>1, <2>3
  <2>6. \A e \in Devices \ {d} : /\ power'[e].usage = power[e].usage
                                 /\ Fixed(power'[e]) = Fixed(power[e])
    OBVIOUS
  <2> QED  BY <2>1, <2>2, <2>4, <2>5, <2>6, UsageOf
<1>10. HeldInv' /\ HeldIsActive'  BY <1>1, <1>3 DEF IInv, HeldInv, HeldIsActive, TypeOK
<1> QED  BY <1>2, <1>4, <1>6, <1>7, <1>8, <1>9, <1>10 DEF IInv

(* What a call of a disable or of a barrier counts for.                    *)
DriverCounts(d) ==
  /\ Count(InBarrier(d)) \in Nat /\ Count(InBarrier(d))' \in Nat
  /\ Count(DepthRaised(d)) \in Nat /\ Count(DepthRaised(d))' \in Nat

LEMMA DriverBecome ==
  ASSUME TypeOK, StackInv, NEW a \in Actors, stack[a] # <<>>, NEW f \in OwnFrame(a),
         Become(a, f), refs' = refs, NEW d \in Devices, d = Top(a).dev, f.dev = d,
         f.at \in DriverAts, Top(a).at \in DriverAts
  PROVE  /\ stack' \in Stacks /\ StackInv' /\ CountsElse(d) /\ DriverCounts(d)
         /\ \A P : Count(P)' = Count(P) + One(f \in P) - One(Top(a) \in P)
<1>1. /\ stack' \in Stacks /\ StackInv'
      /\ \A P : /\ Count(P) \in Nat /\ Count(P)' \in Nat
                /\ Count(P)' = Count(P) + One(f \in P) - One(Top(a) \in P)
  BY BecomeEffect
<1>2. ASSUME NEW P, f \notin P, Top(a) \notin P PROVE Count(P)' = Count(P)
  BY <1>1, <1>2 DEF One
<1>3. f \in GoodFrame /\ Top(a) \in GoodFrame  BY TopType DEF OwnFrame
<1>4. CountsElse(d)  BY <1>2, <1>3, DriverFrame DEF CountsElse
<1> QED  BY <1>1, <1>4 DEF DriverCounts

LEMMA DriverReturn ==
  ASSUME TypeOK, StackInv, NEW a \in Actors, stack[a] # <<>>, Return(a), refs' = refs,
         NEW d \in Devices, d = Top(a).dev, Top(a).at \in DriverAts
  PROVE  /\ stack' \in Stacks /\ StackInv' /\ CountsElse(d) /\ DriverCounts(d)
         /\ \A P : Count(P)' = Count(P) - One(Top(a) \in P)
<1>1. stack' = [stack EXCEPT ![a] = Tail(stack[a])]  BY DEF Return
<1>2. /\ stack' \in Stacks /\ StackInv'
      /\ \A P : /\ Count(P) \in Nat /\ Count(P)' \in Nat
                /\ Count(P)' = Count(P) - One(Top(a) \in P)
  BY <1>1, ReturnEffect
<1>3. ASSUME NEW P, Top(a) \notin P PROVE Count(P)' = Count(P)
  BY <1>2, <1>3 DEF One
<1>4. Top(a) \in GoodFrame  BY TopType
<1>5. CountsElse(d)  BY <1>3, <1>4, DriverFrame DEF CountsElse
<1> QED  BY <1>2, <1>5 DEF DriverCounts

LEMMA DriverEnter ==
  ASSUME TypeOK, StackInv, NEW a \in Actors, stack[a] = <<>>, refs' = refs,
         NEW f \in OwnFrame(a), Enter(a, f), NEW d \in Devices, f.dev = d, f.at \in DriverAts
  PROVE  /\ stack' \in Stacks /\ StackInv' /\ CountsElse(d) /\ DriverCounts(d)
         /\ \A P : Count(P)' = Count(P) + One(f \in P)
<1>1. f \in OwnFrame(a)'  BY DEF OwnFrame
<1>2. /\ stack' \in Stacks /\ StackInv'
      /\ \A P : Count(P) \in Nat /\ Count(P)' \in Nat /\ Count(P)' = Count(P) + One(f \in P)
  BY <1>1, EnterEffect
<1>3. ASSUME NEW P, f \notin P PROVE Count(P)' = Count(P)
  BY <1>2, <1>3 DEF One
<1>4. f \in GoodFrame  BY DEF OwnFrame
<1>5. CountsElse(d)  BY <1>3, <1>4, DriverFrame DEF CountsElse
<1> QED  BY <1>2, <1>5 DEF DriverCounts

(* Who has disabled d; the disabling of other devices is left alone.       *)
LEMMA DisablersFinite ==
  ASSUME NEW d
  PROVE  IsFiniteSet(Disablers(d)) /\ Cardinality(Disablers(d)) \in Nat
<1>1. Disablers(d) \subseteq Tasks  BY DEF Disablers
<1> QED  BY <1>1, PMAssumption, FS_Subset, FS_CardinalityType

LEMMA DisabledKept ==
  ASSUME IInv, UNCHANGED disabled, NEW d \in Devices
  PROVE  /\ disabled' \in [Tasks -> SUBSET Devices]
         /\ \A e \in Devices : Disablers(e)' = Disablers(e)
         /\ Cardinality(Disablers(d)) \in Nat
BY DisablersFinite DEF IInv, TypeOK, Disablers

LEMMA DisabledGrows ==
  ASSUME IInv, NEW t \in Tasks, NEW d \in Devices, Disabled(t, d)
  PROVE  /\ disabled' \in [Tasks -> SUBSET Devices]
         /\ \A e \in Devices \ {d} : Disablers(e)' = Disablers(e)
         /\ Cardinality(Disablers(d)) \in Nat /\ Cardinality(Disablers(d)') \in Nat
         /\ Cardinality(Disablers(d)') <= Cardinality(Disablers(d)) + 1
<1>1. disabled \in [Tasks -> SUBSET Devices]  BY DEF IInv, TypeOK
<1>2. disabled' = [disabled EXCEPT ![t] = disabled[t] \cup {d}]  BY DEF Disabled
<1>3. disabled'[t] = disabled[t] \cup {d} /\ \A s \in Tasks \ {t} : disabled'[s] = disabled[s]
  BY <1>1, <1>2
<1>4. disabled' \in [Tasks -> SUBSET Devices]  BY <1>1, <1>2
<1>5. \A e \in Devices \ {d} : Disablers(e)' = Disablers(e)  BY <1>3 DEF Disablers
<1>6. Disablers(d)' = Disablers(d) \cup {t}  BY <1>3 DEF Disablers
<1>7. IsFiniteSet(Disablers(d)) /\ Cardinality(Disablers(d)) \in Nat  BY DisablersFinite
<1>8. /\ Cardinality(Disablers(d) \cup {t}) \in Nat
      /\ Cardinality(Disablers(d) \cup {t}) <= Cardinality(Disablers(d)) + 1
  <2>1. Cardinality(Disablers(d) \cup {t}) = IF t \in Disablers(d) THEN Cardinality(Disablers(d))
                                             ELSE Cardinality(Disablers(d)) + 1
    BY <1>7, FS_AddElement
  <2> QED  BY <1>7, <2>1
<1> QED  BY <1>4, <1>5, <1>6, <1>7, <1>8

LEMMA DisabledShrinks ==
  ASSUME IInv, NEW t \in Tasks, NEW d \in disabled[t],
         disabled' = [disabled EXCEPT ![t] = disabled[t] \ {d}]
  PROVE  /\ disabled' \in [Tasks -> SUBSET Devices]
         /\ \A e \in Devices \ {d} : Disablers(e)' = Disablers(e)
         /\ Cardinality(Disablers(d)) \in Nat /\ Cardinality(Disablers(d)') \in Nat
         /\ Cardinality(Disablers(d)') = Cardinality(Disablers(d)) - 1
<1>1. disabled \in [Tasks -> SUBSET Devices]  BY DEF IInv, TypeOK
<1>2. disabled'[t] = disabled[t] \ {d} /\ \A s \in Tasks \ {t} : disabled'[s] = disabled[s]
  BY <1>1
<1>3. disabled' \in [Tasks -> SUBSET Devices]  BY <1>1
<1>4. \A e \in Devices \ {d} : Disablers(e)' = Disablers(e)  BY <1>2 DEF Disablers
<1>5. Disablers(d)' = Disablers(d) \ {t} /\ t \in Disablers(d)  BY <1>2 DEF Disablers
<1>6. IsFiniteSet(Disablers(d)) /\ Cardinality(Disablers(d)) \in Nat  BY DisablersFinite
<1>7. IsFiniteSet(Disablers(d) \ {t}) /\ Cardinality(Disablers(d) \ {t}) = Cardinality(Disablers(d)) - 1
  BY <1>5, <1>6, FS_RemoveElement
<1>8. Cardinality(Disablers(d) \ {t}) \in Nat  BY <1>7, FS_CardinalityType
<1> QED  BY <1>3, <1>4, <1>5, <1>6, <1>7, <1>8

(* What was known of the depth and of the rest of d.                       *)
LEMMA DepthAtRest ==
  ASSUME IInv, NEW d \in Devices
  PROVE  /\ power[d].depth \in Nat /\ Count(DepthRaised(d)) \in Nat
         /\ Cardinality(Disablers(d)) \in Nat
         /\ power[d].depth >= Cardinality(Disablers(d)) + Count(DepthRaised(d))
         /\ power[d].depth # 0 /\ Count(DepthRaised(d)) = 0 => ~Changing(power[d])
<1>1. power[d].depth \in Nat  BY DEF IInv, TypeOK, PowerType
<1>2. Count(DepthRaised(d)) \in Nat  BY CountType DEF Count, IInv, TypeOK, Stacks
<1> QED  BY <1>1, <1>2, DisablersFinite DEF IInv, DepthInv, RestInv

LEMMA BarrierStartStep ==
  ASSUME IInv, NEW t \in Tasks, NEW d \in Devices, pm_runtime_barrier(t, d)
  PROVE  IInv'
<1> DEFINE p == power[d]
           n == p.usage + 1
           q == [p EXCEPT !.usage = n]
           f == Frame("barrier_enter", d, {})
<1>1. TypeOK /\ StackInv /\ t \in Actors /\ p \in PowerType  BY DEF IInv, TypeOK, Actors
<1>2. /\ stack[t] = <<>> /\ Enter(t, f) /\ refs' = refs
      /\ UNCHANGED <<lock, asleep, refs, held, disabled>>
  BY DEF pm_runtime_barrier
<1>3. power' = [power EXCEPT ![d] = q]  BY <1>1 DEF pm_runtime_barrier, TypeOK
<1>4. n \in Nat /\ n = p.usage + 1 /\ p.usage \in Nat  BY <1>1 DEF PowerType
<1> HIDE DEF n
<1>5. /\ q \in PowerType /\ q.usage = n /\ q.status = p.status /\ q.children = p.children
      /\ q.depth = p.depth /\ (q.error <=> p.error) /\ Fixed(q) = Fixed(p)
  BY <1>1, <1>4, SetUsage
<1> HIDE DEF q
<1>6. /\ power' \in [Devices -> PowerType] /\ power'[d] = q
      /\ \A e \in Devices \ {d} : power'[e] = power[e]
  BY <1>1, <1>3, <1>5 DEF TypeOK
<1>7. f \in FrameType /\ f.at = "barrier_enter" /\ f.dev = d /\ f.flags = {} /\ ~f.par
  BY DEF Frame, FrameType
<1> HIDE DEF f
<1>8. f \in OwnFrame(t) /\ f.at \in DriverAts
  BY <1>7 DEF OwnFrame, GoodFrame, DriverAts, BarrierAts
<1>9. /\ stack' \in Stacks /\ StackInv' /\ CountsElse(d) /\ DriverCounts(d)
      /\ \A P : Count(P)' = Count(P) + One(f \in P)
  BY <1>1, <1>2, <1>7, <1>8, DriverEnter
<1>10. f \in InBarrier(d) /\ f \notin DepthRaised(d)
  BY <1>7 DEF InBarrier, DepthRaised, BarrierAts
<1>11. /\ Count(InBarrier(d))' = Count(InBarrier(d)) + 1
       /\ Count(DepthRaised(d))' = Count(DepthRaised(d))
  BY <1>9, <1>10 DEF One, DriverCounts
<1>12. power'[d].usage - power[d].usage = Count(InBarrier(d))' - Count(InBarrier(d))
  BY <1>4, <1>5, <1>6, <1>9, <1>11 DEF DriverCounts
<1>13. /\ power'[d].depth >= Cardinality(Disablers(d)') + Count(DepthRaised(d))'
       /\ power'[d].depth # 0 /\ Count(DepthRaised(d))' = 0 => ~Changing(power[d])
  BY <1>2, <1>5, <1>6, <1>11, DisabledKept, DepthAtRest
<1>14. lock' \in [Devices -> Actors \cup {NULL}] /\ asleep' \subseteq Actors
  BY <1>1, <1>2 DEF TypeOK
<1>15. Count(InBarrier(d))' \in Int  BY <1>9 DEF DriverCounts
<1> QED  BY <1>2, <1>5, <1>6, <1>9, <1>12, <1>13, <1>14, <1>15, DisabledKept, DriverStep

LEMMA DisableStartStep ==
  ASSUME IInv, NEW t \in Tasks, NEW d \in Targets, pm_runtime_disable(t, d)
  PROVE  IInv'
<1>1. TypeOK /\ StackInv /\ t \in Actors /\ d \in Devices  BY PMAssumption DEF IInv, Actors
<1>2. /\ "disable" \in Settings /\ stack[t] = <<>>
      /\ UNCHANGED <<power, lock, asleep, refs, held, disabled>>
  BY DEF pm_runtime_disable
<1>3. PICK check \in {{}, {"CHECK_RESUME"}} :
        Enter(t, Frame("disable", d, {"DISABLE"} \cup check))
  BY DEF pm_runtime_disable
<1> DEFINE f == Frame("disable", d, {"DISABLE"} \cup check)
<1>4. f \in FrameType /\ f.at = "disable" /\ f.dev = d /\ "DISABLE" \in f.flags /\ ~f.par
      /\ "GET_PUT" \notin f.flags
  BY <1>1 DEF Frame, FrameType
<1>5. Enter(t, f)  BY <1>3
<1> HIDE DEF f
<1>6. f \in OwnFrame(t) /\ f.at \in DriverAts
  BY <1>2, <1>4 DEF OwnFrame, GoodFrame, DriverAts, BarrierAts
<1>7. UNCHANGED <<refs, disabled, held>> /\ UNCHANGED disabled /\ refs' = refs  BY <1>2
<1>8. /\ stack' \in Stacks /\ StackInv' /\ CountsElse(d) /\ DriverCounts(d)
      /\ \A P : Count(P)' = Count(P) + One(f \in P)
  BY <1>1, <1>2, <1>4, <1>5, <1>6, <1>7, DriverEnter
<1>9. f \notin InBarrier(d) /\ f \notin DepthRaised(d)
  BY <1>4 DEF InBarrier, DepthRaised, BarrierAts
<1>10. /\ Count(InBarrier(d))' = Count(InBarrier(d))
       /\ Count(DepthRaised(d))' = Count(DepthRaised(d))
  BY <1>8, <1>9 DEF One, DriverCounts
<1>11. power' \in [Devices -> PowerType] /\ \A e \in Devices : power'[e] = power[e]
  BY <1>1, <1>2 DEF TypeOK
<1>12. power'[d].usage - power[d].usage = Count(InBarrier(d))' - Count(InBarrier(d))
  <2>1. power[d].usage \in Int /\ Count(InBarrier(d)) \in Int
    BY <1>1, <1>8 DEF TypeOK, PowerType, DriverCounts
  <2> QED  BY <1>1, <1>10, <1>11, <2>1
<1>13. /\ power'[d].depth >= Cardinality(Disablers(d)') + Count(DepthRaised(d))'
       /\ power'[d].depth # 0 /\ Count(DepthRaised(d))' = 0 => ~Changing(power[d])
  BY <1>1, <1>7, <1>10, <1>11, DisabledKept, DepthAtRest
<1>14. lock' \in [Devices -> Actors \cup {NULL}] /\ asleep' \subseteq Actors
  BY <1>1, <1>2 DEF TypeOK
<1>15. Count(InBarrier(d))' \in Int  BY <1>8 DEF DriverCounts
<1> QED  BY <1>1, <1>2, <1>7, <1>8, <1>11, <1>12, <1>13, <1>14, <1>15, DisabledKept, DriverStep

LEMMA EnableStep ==
  ASSUME IInv, NEW t \in Tasks, NEW d \in Devices, MayEnable(t, d), pm_runtime_enable(t, d)
  PROVE  IInv'
<1> DEFINE p == power[d]
           n == IF p.depth > 0 THEN p.depth - 1 ELSE p.depth
           q == [p EXCEPT !.depth = n]
<1>1. TypeOK /\ StackInv /\ p \in PowerType /\ p.depth \in Nat  BY DEF IInv, TypeOK, PowerType
<1>2. /\ d \in disabled[t] /\ SetPower(d, q)
      /\ disabled' = [disabled EXCEPT ![t] = disabled[t] \ {d}]
      /\ UNCHANGED <<lock, stack, asleep, refs, held>>
  BY DEF pm_runtime_enable, MayEnable
<1>3. /\ disabled' \in [Tasks -> SUBSET Devices]
      /\ \A e \in Devices \ {d} : Disablers(e)' = Disablers(e)
      /\ Cardinality(Disablers(d)) \in Nat /\ Cardinality(Disablers(d)') \in Nat
      /\ Cardinality(Disablers(d)') = Cardinality(Disablers(d)) - 1
  BY <1>2, DisabledShrinks
<1>4. stack' \in Stacks /\ StackInv' /\ CountsSame  BY <1>1, <1>2, StillSame
<1>5. /\ Count(DepthRaised(d)) \in Nat
      /\ p.depth >= Cardinality(Disablers(d)) + Count(DepthRaised(d))
      /\ p.depth # 0 /\ Count(DepthRaised(d)) = 0 => ~Changing(p)
  BY DepthAtRest
<1>6. \A P : Count(P) \in Nat  BY <1>1, CountType DEF Count, TypeOK, Stacks
<1>7. n \in Nat /\ p.depth = n + 1  BY <1>1, <1>3, <1>5
<1> HIDE DEF n
<1>8. /\ q \in PowerType /\ q.usage = p.usage /\ q.status = p.status
      /\ q.children = p.children /\ q.depth = n /\ (q.error <=> p.error)
      /\ (q.auto <=> p.auto) /\ q.autosuspend = p.autosuspend
  BY <1>1, <1>7 DEF PowerType
<1> HIDE DEF q
<1>9. Fixed(q) = Fixed(p)  BY <1>8 DEF Fixed
<1>10. /\ power' \in [Devices -> PowerType] /\ power'[d] = q
       /\ \A e \in Devices \ {d} : power'[e] = power[e]
  BY <1>1, <1>2, <1>8, SetPowerType
<1>11. CountsElse(d)  BY <1>4 DEF CountsElse, CountsSame
<1>12. /\ Count(InBarrier(d))' = Count(InBarrier(d))
       /\ Count(DepthRaised(d))' = Count(DepthRaised(d))
  BY <1>4 DEF CountsSame
<1>13. Count(InBarrier(d))' \in Int  BY <1>6, <1>12
<1>14. power'[d].usage - power[d].usage = Count(InBarrier(d))' - Count(InBarrier(d))
  <2>1. p.usage \in Int /\ Count(InBarrier(d)) \in Int  BY <1>1, <1>6 DEF PowerType
  <2> QED  BY <1>8, <1>10, <1>12, <2>1
<1>15. power'[d].depth >= Cardinality(Disablers(d)') + Count(DepthRaised(d))'
  BY <1>3, <1>5, <1>7, <1>8, <1>10, <1>12
<1>16. power'[d].depth # 0 /\ Count(DepthRaised(d))' = 0 => ~Changing(power[d])
  BY <1>5, <1>7, <1>12
<1>17. lock' \in [Devices -> Actors \cup {NULL}] /\ asleep' \subseteq Actors
  BY <1>1, <1>2 DEF TypeOK
<1> QED  BY <1>2, <1>3, <1>4, <1>8, <1>9, <1>10, <1>11, <1>13, <1>14, <1>15, <1>16, <1>17,
            DriverStep

(* The barrier is over when nothing is in progress; a disable then has     *)
(* returned, a plain barrier gives its reference back.                     *)
LEMMA BarrierWaitStep ==
  ASSUME IInv, NEW t \in Tasks, barrier_wait(t)
  PROVE  IInv'
<1>0. t \in Actors  BY DEF Actors
<1>1. Running(t, "barrier_wait")  BY DEF barrier_wait, Section
<1>2. PICK d \in Devices : d = Top(t).dev  BY <1>0, <1>1, AtTop
<1> DEFINE p == power[d]
           f == Top(t)
<1>3. /\ TypeOK /\ StackInv /\ stack[t] # <<>> /\ p \in PowerType
      /\ f.at = "barrier_wait" /\ f \in OwnFrame(t) /\ f \in GoodFrame /\ f \in FrameType
  BY <1>0, <1>1, <1>2, AtTop
<1>4. UNCHANGED <<refs, held>>  BY DEF barrier_wait
<1>5. f.at \in DriverAts /\ f.at \in BarrierAts  BY <1>3 DEF DriverAts, BarrierAts
<1>6. CASE asleep' = asleep \cup {t} /\ Drop(d) /\ UNCHANGED <<power, stack, disabled>>
  <2>1. stack' \in Stacks /\ StackInv' /\ CountsSame  BY <1>3, <1>4, <1>6, StillSame
  <2>2. power' \in [Devices -> PowerType] /\ AllPowerSame  BY <1>3, <1>6, KeepPowerSame
  <2> QED  BY <1>0, <1>3, <1>4, <1>6, <2>1, <2>2, LockTypes, QuietStep
<1>7. CASE /\ ~Busy(p) /\ "DISABLE" \in f.flags
           /\ Return(t) /\ Disabled(t, d) /\ UNCHANGED <<power, asleep>>
  <2>1. ~Changing(p)  BY <1>7 DEF Busy
  <2>2. /\ stack' \in Stacks /\ StackInv' /\ CountsElse(d) /\ DriverCounts(d)
        /\ \A P : Count(P)' = Count(P) - One(f \in P)
    BY <1>0, <1>2, <1>3, <1>4, <1>5, <1>7, DriverReturn
  <2>3. f \notin InBarrier(d) /\ f \in DepthRaised(d)
    BY <1>2, <1>3, <1>5, <1>7 DEF InBarrier, DepthRaised
  <2>4. /\ Count(InBarrier(d))' = Count(InBarrier(d))
        /\ Count(DepthRaised(d))' = Count(DepthRaised(d)) - 1
    BY <2>2, <2>3 DEF One, DriverCounts
  <2>5. power' \in [Devices -> PowerType] /\ \A e \in Devices : power'[e] = power[e]
    BY <1>3, <1>7 DEF TypeOK
  <2>6. power'[d].usage - power[d].usage = Count(InBarrier(d))' - Count(InBarrier(d))
    <3>1. power[d].usage \in Int /\ Count(InBarrier(d)) \in Int
      BY <1>3, <2>2 DEF PowerType, DriverCounts
    <3> QED  BY <2>4, <2>5, <3>1
  <2>7. /\ disabled' \in [Tasks -> SUBSET Devices]
        /\ \A e \in Devices \ {d} : Disablers(e)' = Disablers(e)
        /\ Cardinality(Disablers(d)) \in Nat /\ Cardinality(Disablers(d)') \in Nat
        /\ Cardinality(Disablers(d)') <= Cardinality(Disablers(d)) + 1
    BY <1>7, DisabledGrows
  <2>8. power'[d].depth >= Cardinality(Disablers(d)') + Count(DepthRaised(d))'
    BY <2>4, <2>5, <2>7, DepthAtRest
  <2>9. lock' \in [Devices -> Actors \cup {NULL}] /\ asleep' \subseteq Actors
    BY <1>0, <1>3, <1>7, LockTypes
  <2>10. Count(InBarrier(d))' \in Int  BY <2>2 DEF DriverCounts
  <2> QED  BY <1>4, <1>7, <2>1, <2>2, <2>5, <2>6, <2>7, <2>8, <2>9, <2>10, DriverStep
<1>8. CASE /\ "DISABLE" \notin f.flags
           /\ SetPower(d, [p EXCEPT !.usage = @ - 1])
           /\ Return(t) /\ UNCHANGED <<asleep, disabled>>
  <2> DEFINE n == p.usage - 1
             q == [p EXCEPT !.usage = n]
  <2>1. f \in InBarrier(d) /\ f \notin DepthRaised(d)
    BY <1>2, <1>3, <1>5, <1>8 DEF GoodFrame, InBarrier, DepthRaised
  <2>2. /\ stack' \in Stacks /\ StackInv' /\ CountsElse(d) /\ DriverCounts(d)
        /\ \A P : Count(P)' = Count(P) - One(f \in P)
    BY <1>0, <1>2, <1>3, <1>4, <1>5, <1>8, DriverReturn
  <2>3. /\ Count(InBarrier(d))' = Count(InBarrier(d)) - 1
        /\ Count(DepthRaised(d))' = Count(DepthRaised(d))
    BY <2>1, <2>2 DEF One, DriverCounts
  <2>4. Count(InBarrier(d)) \in Nat /\ Count(InBarrier(d)) >= 1
    BY <1>0, <1>3, <2>1, TopCounted
  <2>5. n \in Nat /\ n = p.usage - 1 /\ p.usage \in Nat
    <3>1. p.usage = Cardinality(Users(d)) + Count(OnParent(d)) + Count(InBarrier(d))
                             + Fixed(p)
      BY DEF IInv, UsageInv
    <3>2. Cardinality(Users(d)) \in Nat /\ Count(OnParent(d)) \in Nat /\ Fixed(p) \in Nat
      BY InUse DEF Fixed
    <3> QED  BY <2>4, <3>1, <3>2
  <2>6. SetPower(d, q)  BY <1>8
  <2> HIDE DEF n
  <2>7. /\ q \in PowerType /\ q.usage = n /\ q.status = p.status /\ q.children = p.children
        /\ q.depth = p.depth /\ (q.error <=> p.error) /\ Fixed(q) = Fixed(p)
    BY <1>3, <2>5, SetUsage
  <2> HIDE DEF q
  <2>8. /\ power' \in [Devices -> PowerType] /\ power'[d] = q
        /\ \A e \in Devices \ {d} : power'[e] = power[e]
    BY <1>3, <2>6, <2>7, SetPowerType
  <2>9. power'[d].usage - power[d].usage = Count(InBarrier(d))' - Count(InBarrier(d))
    BY <2>3, <2>4, <2>5, <2>7, <2>8
  <2>10. /\ power'[d].depth >= Cardinality(Disablers(d)') + Count(DepthRaised(d))'
         /\ power'[d].depth # 0 /\ Count(DepthRaised(d))' = 0 => ~Changing(power[d])
    BY <1>8, <2>3, <2>7, <2>8, DisabledKept, DepthAtRest
  <2>11. lock' \in [Devices -> Actors \cup {NULL}] /\ asleep' \subseteq Actors
    BY <1>0, <1>3, <1>8, LockTypes
  <2>12. Count(InBarrier(d))' \in Int  BY <2>2 DEF DriverCounts
  <2> QED  BY <1>4, <1>8, <2>2, <2>7, <2>8, <2>9, <2>10, <2>11, <2>12, DisabledKept, DriverStep
<1> QED  BY <1>2, <1>6, <1>7, <1>8 DEF barrier_wait

(* The frames of a disable on its way.                                     *)
LEMMA DisableGoto ==
  ASSUME TypeOK, StackInv, NEW t \in Tasks, stack[t] # <<>>, NEW d \in Devices, d = Top(t).dev,
         Top(t).at \in {"disable", "disable_resumed"}, NEW to \in {"disable_resumed", "barrier"}
  PROVE  /\ "DISABLE" \in Top(t).flags /\ Top(t).at \in DriverAts
         /\ Top(t) \notin DepthRaised(d)
         /\ Top(t) \in InBarrier(d) <=> Top(t).at = "disable_resumed"
         /\ [Top(t) EXCEPT !.at = to] \in OwnFrame(t)
         /\ [Top(t) EXCEPT !.at = to].dev = d
         /\ [Top(t) EXCEPT !.at = to].at \in DriverAts
         /\ [Top(t) EXCEPT !.at = to] \in DepthRaised(d) <=> to = "barrier"
         /\ [Top(t) EXCEPT !.at = to] \in InBarrier(d) <=> to = "disable_resumed"
<1> DEFINE f == Top(t)
           g == [f EXCEPT !.at = to]
<1>0. t \in Actors  BY DEF Actors
<1>1. /\ f \in OwnFrame(t) /\ f \in GoodFrame /\ f \in FrameType /\ f.dev = d
      /\ f.at \in {"disable", "disable_resumed"}
  BY <1>0, TopType
<1>2. "DISABLE" \in f.flags /\ ~f.par /\ f.at \in DriverAts
  BY <1>1 DEF GoodFrame, DriverAts, ResumeAts
<1>3. /\ g \in FrameType /\ g.at = to /\ g.dev = d /\ g.flags = f.flags /\ g.par = f.par
  BY <1>1 DEF FrameType
<1> HIDE DEF f, g
<1>4. f \notin DepthRaised(d) /\ (f \in InBarrier(d) <=> f.at = "disable_resumed")
  BY <1>1, <1>2 DEF DepthRaised, InBarrier, BarrierAts
<1>5. /\ g \in DepthRaised(d) <=> to = "barrier"
      /\ g \in InBarrier(d) <=> to = "disable_resumed"
  BY <1>2, <1>3 DEF DepthRaised, InBarrier, BarrierAts
<1>6. g \in GoodFrame
  BY <1>1, <1>2, <1>3 DEF GoodFrame, BarrierAts
<1>7. g \in OwnFrame(t) /\ g.at \in DriverAts
  BY <1>1, <1>3, <1>6 DEF OwnFrame, ResumeAts, DriverAts, BarrierAts
<1> QED  BY <1>2, <1>3, <1>4, <1>5, <1>7 DEF f, g

(* disable_depth is raised, and the barrier follows.                       *)
LEMMA DisableRaises ==
  ASSUME IInv, NEW t \in Tasks, stack[t] # <<>>, NEW d \in Devices, d = Top(t).dev,
         Top(t).at \in {"disable", "disable_resumed"},
         NEW q \in PowerType, SetPower(d, q),
         q.status = power[d].status, q.children = power[d].children,
         q.error <=> power[d].error, Fixed(q) = Fixed(power[d]),
         power[d].depth = 0, q.depth = 1, power[d].usage - q.usage = (IF Top(t).at = "disable_resumed" THEN 1 ELSE 0),
         Goto(t, "barrier"), Keep(t, d), UNCHANGED disabled, UNCHANGED <<asleep, refs, held>>
  PROVE  IInv'
<1> DEFINE f == Top(t)
           g == [f EXCEPT !.at = "barrier"]
<1>0. t \in Actors /\ TypeOK /\ StackInv  BY DEF Actors, IInv
<1>1. /\ "DISABLE" \in f.flags /\ f.at \in DriverAts
      /\ f \notin DepthRaised(d)
      /\ (f \in InBarrier(d) <=> f.at = "disable_resumed")
      /\ g \in OwnFrame(t) /\ g.dev = d /\ g.at \in DriverAts
      /\ g \in DepthRaised(d) /\ g \notin InBarrier(d)
  BY <1>0, DisableGoto
<1>2. Become(t, g)  BY DEF Goto
<1> HIDE DEF g
<1>3. /\ stack' \in Stacks /\ StackInv' /\ CountsElse(d) /\ DriverCounts(d)
      /\ \A P : Count(P)' = Count(P) + One(g \in P) - One(f \in P)
  BY <1>0, <1>1, <1>2, DriverBecome
<1>4. Count(DepthRaised(d)) = 0 /\ Cardinality(Disablers(d)) = 0  BY DepthAtRest
<1>6. /\ Count(DepthRaised(d))' = 1
      /\ Count(InBarrier(d))' = Count(InBarrier(d))
           - (IF f.at = "disable_resumed" THEN 1 ELSE 0)
  BY <1>1, <1>3, <1>4 DEF One, DriverCounts
<1>7. /\ power' \in [Devices -> PowerType] /\ power'[d] = q
      /\ \A e \in Devices \ {d} : power'[e] = power[e]
  BY <1>0, SetPowerType
<1>8. power'[d].usage - power[d].usage = Count(InBarrier(d))' - Count(InBarrier(d))
  <2>1. power[d].usage \in Int /\ q.usage \in Int /\ Count(InBarrier(d)) \in Int
    BY <1>0, <1>3 DEF TypeOK, PowerType, DriverCounts
  <2> QED  BY <1>6, <1>7, <2>1
<1>10. /\ power'[d].depth >= Cardinality(Disablers(d)') + Count(DepthRaised(d))'
       /\ power'[d].depth # 0 /\ Count(DepthRaised(d))' = 0 => ~Changing(power[d])
  BY <1>4, <1>6, <1>7, DisabledKept
<1>11. lock' \in [Devices -> Actors \cup {NULL}] /\ asleep' \subseteq Actors
  BY <1>0, LockTypes
<1>12. Count(InBarrier(d))' \in Int  BY <1>3 DEF DriverCounts
<1> QED  BY <1>3, <1>7, <1>8, <1>10, <1>11, <1>12, DisabledKept, DriverStep

(* A disable finds a resume requested, and carries it out first.           *)
LEMMA DisableWakes ==
  ASSUME IInv, NEW t \in Tasks, stack[t] # <<>>, NEW d \in Devices, d = Top(t).dev,
         Top(t).at = "disable", SetPower(d, [power[d] EXCEPT !.usage = @ + 1]),
         Call(t, "disable_resumed", Frame("resume", d, {})), Keep(t, d),
         UNCHANGED disabled, UNCHANGED <<asleep, refs, held>>
  PROVE  IInv'
<1> DEFINE p == power[d]
           n == p.usage + 1
           q == [p EXCEPT !.usage = n]
           f == Top(t)
           g == [f EXCEPT !.at = "disable_resumed"]
           h == Frame("resume", d, {})
<1>0. t \in Actors /\ TypeOK /\ StackInv /\ p \in PowerType  BY DEF Actors, IInv, TypeOK
<1>1. /\ f \notin DepthRaised(d) /\ f \notin InBarrier(d)
      /\ f.at \in DriverAts /\ g \in OwnFrame(t) /\ g.dev = d /\ g.at \in DriverAts
      /\ g \notin DepthRaised(d) /\ g \in InBarrier(d)
  BY <1>0, DisableGoto
<1>2. h \in OwnFrame(t) /\ Uncounted(h)
  <2>1. {} \in SUBSET CallFlags /\ "GET_PUT" \notin {} /\ "resume" \in NewAts  BY DEF NewAts
  <2> QED  BY <2>1, NewOwn
<1>3. SetPower(d, q) /\ n \in Nat /\ n = p.usage + 1 /\ p.usage \in Nat
  BY <1>0 DEF PowerType
<1> HIDE DEF n, h
<1>4. /\ q \in PowerType /\ q.usage = n /\ q.status = p.status /\ q.children = p.children
      /\ q.depth = p.depth /\ (q.error <=> p.error) /\ Fixed(q) = Fixed(p)
  BY <1>0, <1>3, SetUsage
<1> HIDE DEF q
<1>5. /\ power' \in [Devices -> PowerType] /\ power'[d] = q
      /\ \A e \in Devices \ {d} : power'[e] = power[e]
  BY <1>0, <1>3, <1>4, SetPowerType
<1>6. Call(t, "disable_resumed", h)  BY DEF h
<1>7. /\ stack' \in Stacks /\ StackInv'
      /\ \A P : /\ Count(P) \in Nat /\ Count(P)' \in Nat
                /\ Count(P)' = Count(P) + One(g \in P) + One(h \in P) - One(f \in P)
  BY <1>0, <1>1, <1>2, <1>6, CallEffect
<1>8. f \in GoodFrame /\ g \in GoodFrame  BY <1>0, <1>1, TopType DEF OwnFrame
<1>9. f.dev = d  OBVIOUS
<1> HIDE DEF f, g
<1>10. ASSUME NEW P, f \notin P, g \notin P, h \notin P PROVE Count(P)' = Count(P)
  BY <1>7, <1>10 DEF One
<1>11. CountsElse(d)
  BY <1>1, <1>2, <1>8, <1>9, <1>10, DriverFrame DEF CountsElse, Uncounted
<1>12. /\ Count(InBarrier(d))' = Count(InBarrier(d)) + 1
       /\ Count(DepthRaised(d))' = Count(DepthRaised(d))
  <2>1. h \notin InBarrier(d) /\ h \notin DepthRaised(d)
    BY <1>2 DEF Uncounted
  <2>2. ASSUME NEW P, f \notin P, g \in P, h \notin P PROVE Count(P)' = Count(P) + 1
    BY <1>7, <2>2 DEF One
  <2> QED  BY <1>1, <1>10, <2>1, <2>2
<1>13. power'[d].usage - power[d].usage = Count(InBarrier(d))' - Count(InBarrier(d))
  BY <1>3, <1>4, <1>5, <1>7, <1>12
<1>14. /\ power'[d].depth >= Cardinality(Disablers(d)') + Count(DepthRaised(d))'
       /\ power'[d].depth # 0 /\ Count(DepthRaised(d))' = 0 => ~Changing(power[d])
  BY <1>4, <1>5, <1>12, DisabledKept, DepthAtRest
<1>15. lock' \in [Devices -> Actors \cup {NULL}] /\ asleep' \subseteq Actors
  BY <1>0, LockTypes
<1>16. Count(InBarrier(d))' \in Int  BY <1>7
<1> QED  BY <1>4, <1>5, <1>7, <1>11, <1>13, <1>14, <1>15, <1>16, DisabledKept, DriverStep

(* A disable that comes second returns at once.                            *)
LEMMA DisableDeeper ==
  ASSUME IInv, NEW t \in Tasks, stack[t] # <<>>, NEW d \in Devices, d = Top(t).dev,
         Top(t).at \in {"disable", "disable_resumed"},
         NEW q \in PowerType, SetPower(d, q),
         q.status = power[d].status, q.children = power[d].children,
         q.error <=> power[d].error, Fixed(q) = Fixed(power[d]),
         power[d].depth # 0, q.depth = power[d].depth + 1,
         power[d].usage - q.usage = (IF Top(t).at = "disable_resumed" THEN 1 ELSE 0),
         Return(t), Disabled(t, d), UNCHANGED <<asleep, refs, held>>
  PROVE  IInv'
<1> DEFINE f == Top(t)
<1>0. t \in Actors /\ TypeOK /\ StackInv  BY DEF Actors, IInv
<1>1. /\ f.at \in DriverAts /\ f \notin DepthRaised(d)
      /\ (f \in InBarrier(d) <=> f.at = "disable_resumed")
  BY <1>0, DisableGoto
<1>2. /\ stack' \in Stacks /\ StackInv' /\ CountsElse(d) /\ DriverCounts(d)
      /\ \A P : Count(P)' = Count(P) - One(f \in P)
  BY <1>0, <1>1, DriverReturn
<1>3. /\ Count(DepthRaised(d))' = Count(DepthRaised(d))
      /\ Count(InBarrier(d))' = Count(InBarrier(d))
           - (IF f.at = "disable_resumed" THEN 1 ELSE 0)
  BY <1>1, <1>2 DEF One, DriverCounts
<1>4. /\ power' \in [Devices -> PowerType] /\ power'[d] = q
      /\ \A e \in Devices \ {d} : power'[e] = power[e]
  BY <1>0, SetPowerType
<1>5. power'[d].usage - power[d].usage = Count(InBarrier(d))' - Count(InBarrier(d))
  <2>1. power[d].usage \in Int /\ q.usage \in Int /\ Count(InBarrier(d)) \in Int
    BY <1>0, <1>2 DEF TypeOK, PowerType, DriverCounts
  <2> QED  BY <1>3, <1>4, <2>1
<1>6. /\ disabled' \in [Tasks -> SUBSET Devices]
      /\ \A e \in Devices \ {d} : Disablers(e)' = Disablers(e)
      /\ Cardinality(Disablers(d)) \in Nat /\ Cardinality(Disablers(d)') \in Nat
      /\ Cardinality(Disablers(d)') <= Cardinality(Disablers(d)) + 1
  BY DisabledGrows
<1>7. power'[d].depth >= Cardinality(Disablers(d)') + Count(DepthRaised(d))'
  BY <1>3, <1>4, <1>6, DepthAtRest
<1>8. power'[d].depth # 0 /\ Count(DepthRaised(d))' = 0 => ~Changing(power[d])
  BY <1>3, DepthAtRest
<1>9. lock' \in [Devices -> Actors \cup {NULL}] /\ asleep' \subseteq Actors
  BY <1>0, LockTypes
<1>10. Count(InBarrier(d))' \in Int  BY <1>2 DEF DriverCounts
<1> QED  BY <1>2, <1>4, <1>5, <1>6, <1>7, <1>8, <1>9, <1>10, DriverStep

LEMMA DisableStep ==
  ASSUME IInv, NEW t \in Tasks, __pm_runtime_disable(t)
  PROVE  IInv'
<1>0. t \in Actors  BY DEF Actors
<1>1. Running(t, "disable")  BY DEF __pm_runtime_disable, Section
<1>2. PICK d \in Devices : d = Top(t).dev  BY <1>0, <1>1, AtTop
<1> DEFINE p == power[d]
<1>3. /\ TypeOK /\ StackInv /\ stack[t] # <<>> /\ Top(t).at = "disable" /\ p \in PowerType
      /\ p.depth \in Nat
  BY <1>0, <1>1, <1>2, AtTop DEF PowerType
<1>4. UNCHANGED <<asleep, refs, held>>  BY DEF __pm_runtime_disable
<1>5. ASSUME NEW n \in Nat
      PROVE  LET q == [p EXCEPT !.depth = n]
             IN /\ q \in PowerType /\ q.status = p.status /\ q.children = p.children
                /\ q.depth = n /\ (q.error <=> p.error) /\ Fixed(q) = Fixed(p)
                /\ p.usage - q.usage = (IF Top(t).at = "disable_resumed" THEN 1 ELSE 0)
  <2> DEFINE q == [p EXCEPT !.depth = n]
  <2>1. /\ q \in PowerType /\ q.usage = p.usage /\ q.status = p.status
        /\ q.children = p.children /\ q.depth = n /\ (q.error <=> p.error)
        /\ (q.auto <=> p.auto) /\ q.autosuspend = p.autosuspend /\ p.usage \in Nat
    BY <1>3 DEF PowerType
  <2> HIDE DEF q
  <2>2. Fixed(q) = Fixed(p)  BY <2>1 DEF Fixed
  <2>3. p.usage - q.usage = (IF Top(t).at = "disable_resumed" THEN 1 ELSE 0)
    BY <1>3, <2>1
  <2> QED  BY <2>1, <2>2, <2>3 DEF q
<1>6. CASE /\ SetPower(d, [p EXCEPT !.usage = @ + 1])
           /\ Call(t, "disable_resumed", Frame("resume", d, {})) /\ Keep(t, d)
           /\ UNCHANGED disabled
  BY <1>2, <1>3, <1>4, <1>6, DisableWakes
<1>7. CASE /\ p.depth = 0 /\ SetPower(d, [p EXCEPT !.depth = 1])
           /\ Goto(t, "barrier") /\ Keep(t, d) /\ UNCHANGED disabled
  <2> DEFINE q == [p EXCEPT !.depth = 1]
  <2>1. /\ q \in PowerType /\ q.status = p.status /\ q.children = p.children
        /\ q.depth = 1 /\ (q.error <=> p.error) /\ Fixed(q) = Fixed(p)
        /\ p.usage - q.usage = (IF Top(t).at = "disable_resumed" THEN 1 ELSE 0)
    BY <1>5
  <2>2. SetPower(d, q)  BY <1>7
  <2> HIDE DEF q
  <2> QED  BY <1>2, <1>3, <1>4, <1>7, <2>1, <2>2, DisableRaises
<1>8. CASE /\ p.depth > 0 /\ SetPower(d, [p EXCEPT !.depth = @ + 1])
           /\ Return(t) /\ Disabled(t, d)
  <2> DEFINE n == p.depth + 1
             q == [p EXCEPT !.depth = n]
  <2>1. n \in Nat /\ n = p.depth + 1 /\ p.depth # 0 /\ SetPower(d, q)  BY <1>3, <1>8
  <2> HIDE DEF n
  <2>2. /\ q \in PowerType /\ q.status = p.status /\ q.children = p.children
        /\ q.depth = n /\ (q.error <=> p.error) /\ Fixed(q) = Fixed(p)
        /\ p.usage - q.usage = (IF Top(t).at = "disable_resumed" THEN 1 ELSE 0)
    BY <1>5, <2>1
  <2> HIDE DEF q
  <2> QED  BY <1>2, <1>3, <1>4, <1>8, <2>1, <2>2, DisableDeeper
<1> QED  BY <1>2, <1>6, <1>7, <1>8 DEF __pm_runtime_disable

LEMMA DisableResumedStep ==
  ASSUME IInv, NEW t \in Tasks, disable_resumed(t)
  PROVE  IInv'
<1>0. t \in Actors  BY DEF Actors
<1>1. Running(t, "disable_resumed")  BY DEF disable_resumed, Section
<1>2. PICK d \in Devices : d = Top(t).dev  BY <1>0, <1>1, AtTop
<1> DEFINE p == power[d]
           n == p.usage - 1
           m == p.depth + 1
           q == [p EXCEPT !.usage = n, !.depth = m]
<1>3. /\ TypeOK /\ StackInv /\ stack[t] # <<>> /\ Top(t).at = "disable_resumed"
      /\ p \in PowerType /\ p.depth \in Nat
  BY <1>0, <1>1, <1>2, AtTop DEF PowerType
<1>4. UNCHANGED <<asleep, refs, held>>  BY DEF disable_resumed
<1>5. "DISABLE" \in Top(t).flags /\ Top(t) \in InBarrier(d)  BY <1>2, <1>3, DisableGoto
<1>6. SetPower(d, q) /\ m \in Nat /\ m = p.depth + 1  BY <1>2, <1>3 DEF disable_resumed
<1>7. n \in Nat /\ n = p.usage - 1 /\ p.usage \in Nat
  <2>1. p.usage = Cardinality(Users(d)) + Count(OnParent(d)) + Count(InBarrier(d)) + Fixed(p)
    BY DEF IInv, UsageInv
  <2>2. Cardinality(Users(d)) \in Nat /\ Count(OnParent(d)) \in Nat /\ Fixed(p) \in Nat
    BY InUse DEF Fixed
  <2>3. Count(InBarrier(d)) \in Nat /\ Count(InBarrier(d)) >= 1
    BY <1>0, <1>3, <1>5, TopCounted
  <2> QED  BY <2>1, <2>2, <2>3
<1> HIDE DEF n, m
<1>8. /\ q \in PowerType /\ q.usage = n /\ q.status = p.status
      /\ q.children = p.children /\ q.depth = m /\ (q.error <=> p.error)
      /\ (q.auto <=> p.auto) /\ q.autosuspend = p.autosuspend
  BY <1>3, <1>6, <1>7 DEF PowerType
<1> HIDE DEF q
<1>9. Fixed(q) = Fixed(p)  BY <1>8 DEF Fixed
<1>10. p.usage - q.usage = (IF Top(t).at = "disable_resumed" THEN 1 ELSE 0)
  BY <1>3, <1>7, <1>8
<1>11. CASE p.depth = 0
  <2>1. Goto(t, "barrier") /\ Keep(t, d) /\ UNCHANGED disabled
    BY <1>2, <1>11 DEF disable_resumed
  <2>2. q.depth = 1  BY <1>6, <1>8, <1>11
  <2> QED  BY <1>2, <1>3, <1>4, <1>6, <1>8, <1>9, <1>10, <1>11, <2>1, <2>2, DisableRaises
<1>12. CASE p.depth # 0
  <2>1. Return(t) /\ Disabled(t, d)  BY <1>2, <1>12 DEF disable_resumed
  <2> QED  BY <1>2, <1>3, <1>4, <1>6, <1>8, <1>9, <1>10, <1>12, <2>1, DisableDeeper
<1> QED  BY <1>11, <1>12

(***************************************************************************)
(* pm_runtime_set_active and pm_runtime_set_suspended.                     *)
(***************************************************************************)

LEMMA SetStatusStep ==
  ASSUME IInv, NEW t \in Tasks, NEW d \in Devices, MaySetStatus(d),
         __pm_runtime_set_status(t, d)
  PROVE  IInv'
<1> DEFINE p == power[d]
           u == Parent[d]
<1>1. /\ TypeOK /\ StackInv /\ t \in Actors /\ p \in PowerType /\ u \in Devices \cup {NULL}
      /\ u # d /\ NULL \notin Devices
  BY PMAssumption DEF IInv, TypeOK, Actors
<1>2. /\ stack[t] = <<>> /\ UNCHANGED <<lock, asleep, refs, disabled>> /\ refs' = refs
  BY DEF __pm_runtime_set_status
<1>3. ~Changing(p)  BY DEF MaySetStatus
<1>4. Count(InSuspend(d)) = 0 /\ Count(InResume(d)) = 0 /\ p.status \in {"ACTIVE", "SUSPENDED"}
  BY <1>1, <1>3 DEF IInv, CallbackInv, Changing, One, PowerType, Statuses
<1>5. lock' \in [Devices -> Actors \cup {NULL}] /\ asleep' \subseteq Actors
  BY <1>1, <1>2 DEF TypeOK
<1>6. ASSUME held' = [v \in Tasks |-> held[v] \ {d}] \/ UNCHANGED held
      PROVE  /\ held' \in [Tasks -> SUBSET Devices] /\ HeldInv'
             /\ \A s \in Tasks : held'[s] \subseteq held[s]
  <2>1. held \in [Tasks -> SUBSET Devices] /\ \A s \in Tasks : held[s] \subseteq refs[s]
    BY <1>1 DEF IInv, TypeOK, HeldInv
  <2>2. held' \in [Tasks -> SUBSET Devices] /\ \A s \in Tasks : held'[s] \subseteq held[s]
    BY <1>6, <2>1
  <2> QED  BY <1>2, <2>1, <2>2 DEF HeldInv
<1>7. ASSUME stack' \in Stacks, StackInv', CountsSame, power' \in [Devices -> PowerType],
             held' = [v \in Tasks |-> held[v] \ {d}] \/ UNCHANGED held,
             UseSame, ChildInv',
             \A e \in Devices \ {d} : /\ power'[e].status = power[e].status
                                      /\ power'[e].error <=> power[e].error,
             power'[d].status \in {"ACTIVE", "SUSPENDED"},
             power'[d].status = "ACTIVE" \/ \A s \in Tasks : d \notin held'[s]
      PROVE  IInv'
  <2>1. CountsBut(d)  BY <1>7 DEF CountsBut, CountsSame
  <2>2. /\ Count(InSuspend(d))' = One(power'[d].status = "SUSPENDING")
        /\ Count(InResume(d))' = One(power'[d].status = "RESUMING")
    BY <1>4, <1>7 DEF CountsSame, One
  <2>3. ~Changing(power'[d])  BY <1>7 DEF Changing
  <2>4. /\ held' \in [Tasks -> SUBSET Devices] /\ HeldInv'
        /\ \A s \in Tasks : held'[s] \subseteq held[s]
    BY <1>6, <1>7
  <2>5. HeldIsActive'
    <3>1. ASSUME NEW s \in Tasks, NEW e \in held'[s] PROVE power'[e].status = "ACTIVE"
      <4>1. e \in held[s] /\ e \in Devices  BY <1>1, <2>4 DEF TypeOK
      <4>2. power[e].status = "ACTIVE"  BY <4>1 DEF IInv, HeldIsActive
      <4> QED  BY <1>7, <4>1, <4>2
    <3> QED  BY <3>1 DEF HeldIsActive
  <2> QED  BY <1>2, <1>5, <1>7, <2>1, <2>2, <2>3, <2>4, <2>5, StatusStep
<1>8. CASE SetPower(d, [p EXCEPT !.error = FALSE]) /\ UNCHANGED <<stack, held>>
  <2> DEFINE q == [p EXCEPT !.error = FALSE]
  <2>1. q \in PowerType /\ SameUse(p, q) /\ q.status = p.status /\ SetPower(d, q)
    BY <1>1, <1>8 DEF PowerType, SameUse
  <2> HIDE DEF q
  <2>2. stack' \in Stacks /\ StackInv' /\ CountsSame  BY <1>1, <1>2, <1>8, StillSame
  <2>3. /\ power' \in [Devices -> PowerType] /\ UseSame /\ power'[d] = q
        /\ \A e \in Devices \ {d} : /\ power'[e].status = power[e].status
                                    /\ power'[e].error <=> power[e].error
        /\ \A e \in Devices : power'[e].children = power[e].children
    BY <1>1, <2>1, SetStatus
  <2>4. ChildInv'
    <3>1. \A e \in Devices : Counts(power'[e]) <=> Counts(power[e])  BY <2>1, <2>3 DEF Counts
    <3> QED  BY <2>3, <3>1, ChildrenSame
  <2>5. power'[d].status = "ACTIVE" \/ \A s \in Tasks : d \notin held'[s]
    BY <1>8, <2>1, <2>3 DEF IInv, HeldIsActive
  <2>6. power'[d].status \in {"ACTIVE", "SUSPENDED"}  BY <1>4, <2>1, <2>3
  <2> QED  BY <1>7, <1>8, <2>2, <2>3, <2>4, <2>5, <2>6
<1>9. CASE /\ p.status # "SUSPENDED"
           /\ power' = [e \in Devices |->
                 IF e = d THEN [p EXCEPT !.status = "SUSPENDED", !.error = FALSE]
                 ELSE IF e = u /\ power[e].children > 0
                 THEN [power[e] EXCEPT !.children = @ - 1]
                 ELSE power[e]]
           /\ IF u # NULL /\ u \notin IgnoreChildren
              THEN Enter(t, Frame("idle", u, {"ASYNC"})) ELSE UNCHANGED stack
           /\ held' = [v \in Tasks |-> held[v] \ {d}]
  <2> DEFINE q == [p EXCEPT !.status = "SUSPENDED", !.error = FALSE]
  <2>1. /\ q \in PowerType /\ SameUse(p, q) /\ q.status = "SUSPENDED"
    BY <1>1 DEF PowerType, SameUse, Statuses
  <2> HIDE DEF q
  <2>2. power'[d] = q  BY <1>9 DEF q
  <2>3. Counts(p) /\ ~Counts(power'[d])  BY <1>4, <1>9, <2>1, <2>2 DEF Counts
  <2>4. u \in Devices => power[u].children > 0  BY <2>3, UpParent
  <2>5. u \in Devices =>
          /\ power'[u] = [power[u] EXCEPT !.children = power[u].children - 1]
          /\ power[u] \in PowerType /\ power[u].children \in Nat
    BY <1>1, <1>9, <2>4 DEF TypeOK, PowerType
  <2>6. \A e \in Devices \ {d, u} : power'[e] = power[e]  BY <1>9
  <2>7. ASSUME u \in Devices
        PROVE  /\ power'[u] \in PowerType /\ power'[u].children = power[u].children - 1
               /\ power'[u].status = power[u].status /\ power'[u].usage = power[u].usage
               /\ power'[u].depth = power[u].depth /\ (power'[u].error <=> power[u].error)
               /\ (power'[u].auto <=> power[u].auto)
               /\ power'[u].autosuspend = power[u].autosuspend
    <3> DEFINE m == power[u].children - 1
               v == power[u]
    <3>1. m \in Nat /\ power'[u] = [v EXCEPT !.children = m] /\ v \in PowerType
      BY <2>4, <2>5, <2>7
    <3>2. m = power[u].children - 1  OBVIOUS
    <3> HIDE DEF m, v
    <3>3. LET w == [v EXCEPT !.children = m]
          IN /\ w \in PowerType /\ w.children = m /\ w.status = v.status /\ w.usage = v.usage
             /\ w.depth = v.depth /\ (w.error <=> v.error) /\ (w.auto <=> v.auto)
             /\ w.autosuspend = v.autosuspend
      BY <3>1 DEF PowerType
    <3> QED  BY <3>1, <3>2, <3>3 DEF v
  <2>8. power' \in [Devices -> PowerType]
    <3>1. \A e \in Devices : power'[e] \in PowerType
      BY <1>1, <2>1, <2>2, <2>6, <2>7 DEF TypeOK
    <3>2. power' = [e \in Devices |-> power'[e]]  BY <1>9
    <3> QED  BY <3>1, <3>2
  <2>9. UseSame  BY <2>1, <2>2, <2>6, <2>7 DEF UseSame, SameUse
  <2>10. \A e \in Devices \ {d} : /\ power'[e].status = power[e].status
                                  /\ power'[e].error <=> power[e].error
    BY <2>6, <2>7
  <2>11. ChildInv'
    <3>1. \A e \in Devices \ {d} : Counts(power'[e]) <=> Counts(power[e])
      BY <2>10 DEF Counts
    <3>2. \A e \in Devices \ {u} : power'[e].children = power[e].children
      BY <2>1, <2>2, <2>6 DEF SameUse
    <3>3. u \in Devices => power'[u].children = power[u].children - 1  BY <2>7
    <3> QED  BY <2>3, <3>1, <3>2, <3>3, ChildDown
  <2>12. stack' \in Stacks /\ StackInv' /\ CountsSame
    <3>1. CASE u # NULL /\ u \notin IgnoreChildren
      <4> DEFINE f == Frame("idle", u, {"ASYNC"})
      <4>1. {"ASYNC"} \in SUBSET CallFlags /\ "GET_PUT" \notin {"ASYNC"} /\ "idle" \in NewAts
        BY DEF NewAts, CallFlags
      <4>2. u \in Devices  BY <1>1, <3>1
      <4>3. f \in OwnFrame(t)' /\ Uncounted(f)  BY <4>1, <4>2, NewOwn
      <4>4. Enter(t, f)  BY <1>9, <3>1
      <4> HIDE DEF f
      <4> QED  BY <1>1, <1>2, <4>3, <4>4, EnterSame
    <3>2. CASE ~(u # NULL /\ u \notin IgnoreChildren)
      BY <1>1, <1>2, <1>9, <3>2, StillSame
    <3> QED  BY <3>1, <3>2
  <2>13. \A s \in Tasks : d \notin held'[s]  BY <1>9
  <2> QED  BY <1>7, <1>9, <2>1, <2>2, <2>8, <2>9, <2>10, <2>11, <2>12, <2>13
<1>10. CASE /\ p.status # "ACTIVE"
            /\ power' = [e \in Devices |->
                 IF e = d THEN [p EXCEPT !.status = "ACTIVE", !.error = FALSE]
                 ELSE IF e = u /\ p.status = "SUSPENDED"
                 THEN [power[e] EXCEPT !.children = @ + 1]
                 ELSE power[e]]
            /\ UNCHANGED <<stack, held>>
  <2> DEFINE q == [p EXCEPT !.status = "ACTIVE", !.error = FALSE]
  <2>1. /\ q \in PowerType /\ SameUse(p, q) /\ q.status = "ACTIVE"
    BY <1>1 DEF PowerType, SameUse, Statuses
  <2> HIDE DEF q
  <2>2. power'[d] = q  BY <1>10 DEF q
  <2>3. ~Counts(p) /\ Counts(power'[d]) /\ p.status = "SUSPENDED"
    BY <1>4, <1>10, <2>1, <2>2 DEF Counts
  <2>5. u \in Devices =>
          /\ power'[u] = [power[u] EXCEPT !.children = power[u].children + 1]
          /\ power[u] \in PowerType /\ power[u].children \in Nat
    BY <1>1, <1>10, <2>3 DEF TypeOK, PowerType
  <2>6. \A e \in Devices \ {d, u} : power'[e] = power[e]  BY <1>10
  <2>7. ASSUME u \in Devices
        PROVE  /\ power'[u] \in PowerType /\ power'[u].children = power[u].children + 1
               /\ power'[u].status = power[u].status /\ power'[u].usage = power[u].usage
               /\ power'[u].depth = power[u].depth /\ (power'[u].error <=> power[u].error)
               /\ (power'[u].auto <=> power[u].auto)
               /\ power'[u].autosuspend = power[u].autosuspend
    <3> DEFINE m == power[u].children + 1
               v == power[u]
    <3>1. m \in Nat /\ power'[u] = [v EXCEPT !.children = m] /\ v \in PowerType
      BY <2>5, <2>7
    <3>2. m = power[u].children + 1  OBVIOUS
    <3> HIDE DEF m, v
    <3>3. LET w == [v EXCEPT !.children = m]
          IN /\ w \in PowerType /\ w.children = m /\ w.status = v.status /\ w.usage = v.usage
             /\ w.depth = v.depth /\ (w.error <=> v.error) /\ (w.auto <=> v.auto)
             /\ w.autosuspend = v.autosuspend
      BY <3>1 DEF PowerType
    <3> QED  BY <3>1, <3>2, <3>3 DEF v
  <2>8. power' \in [Devices -> PowerType]
    <3>1. \A e \in Devices : power'[e] \in PowerType
      BY <1>1, <2>1, <2>2, <2>6, <2>7 DEF TypeOK
    <3>2. power' = [e \in Devices |-> power'[e]]  BY <1>10
    <3> QED  BY <3>1, <3>2
  <2>9. UseSame  BY <2>1, <2>2, <2>6, <2>7 DEF UseSame, SameUse
  <2>10. \A e \in Devices \ {d} : /\ power'[e].status = power[e].status
                                  /\ power'[e].error <=> power[e].error
    BY <2>6, <2>7
  <2>11. ChildInv'
    <3>1. \A e \in Devices \ {d} : Counts(power'[e]) <=> Counts(power[e])
      BY <2>10 DEF Counts
    <3>2. \A e \in Devices \ {u} : power'[e].children = power[e].children
      BY <2>1, <2>2, <2>6 DEF SameUse
    <3>3. u \in Devices => power'[u].children = power[u].children + 1  BY <2>7
    <3> QED  BY <2>3, <3>1, <3>2, <3>3, ChildUp
  <2>12. stack' \in Stacks /\ StackInv' /\ CountsSame  BY <1>1, <1>2, <1>10, StillSame
  <2> QED  BY <1>7, <1>10, <2>1, <2>2, <2>8, <2>9, <2>10, <2>11, <2>12
<1> QED  BY <1>8, <1>9, <1>10 DEF __pm_runtime_set_status

(***************************************************************************)
(* The invariant holds.                                                    *)
(***************************************************************************)

LEMMA IInit == ASSUME Init PROVE IInv
<1>1. TypeOK
  <2>1. power \in [Devices -> PowerType]  BY DEF Init, PowerType, Statuses, Requests
  <2>2. <<>> \in Seq(FrameType)  OBVIOUS
  <2>3. stack \in [Actors -> Seq(FrameType)]  BY <2>2 DEF Init
  <2>4. lock \in [Devices -> Actors \cup {NULL}]  BY DEF Init
  <2>5. refs \in [Tasks -> SUBSET Devices] /\ held \in [Tasks -> SUBSET Devices]
    BY DEF Init
  <2>6. disabled \in [Tasks -> SUBSET Devices]  BY DEF Init
  <2>7. asleep \subseteq Actors  BY DEF Init
  <2> QED  BY <2>1, <2>3, <2>4, <2>5, <2>6, <2>7 DEF TypeOK
<1>2. ASSUME NEW P PROVE Count(P) = 0
  <2>1. FramesOf(stack) = {}  BY DEF Init, FramesOf
  <2>2. CountedIn(stack, P) = {}  BY <2>1 DEF CountedIn
  <2> QED  BY <2>2, FS_EmptySet DEF Count, CountIn
<1>3. StackInv
  <2>1. \A a \in Actors : stack[a] = <<>>  BY DEF Init
  <2>2. \A S : <<>> \in Seq(S)  OBVIOUS
  <2> QED  BY <2>1, <2>2 DEF StackInv
<1>4. \A d \in Devices : /\ power[d].status = "SUSPENDED" /\ power[d].usage = 0
                         /\ power[d].children = 0 /\ power[d].depth = 1
                         /\ ~power[d].error /\ power[d].auto /\ power[d].autosuspend = "off"
  BY DEF Init
<1>5. CallbackInv  BY <1>2, <1>4 DEF CallbackInv, One
<1>6. ASSUME NEW d \in Devices PROVE Cardinality(Disablers(d)) = 1
  <2>1. Disablers(d) = {Driver[d]}  BY PMAssumption DEF Init, Disablers
  <2> QED  BY <2>1, FS_Singleton
<1>7. DepthInv  BY <1>2, <1>4, <1>6 DEF DepthInv
<1>8. RestInv  BY <1>4 DEF RestInv, Changing
<1>9. ChildInv
  <2>1. \A u \in Devices : Up(u) = {}  BY <1>4 DEF Up
  <2> QED  BY <1>4, <2>1, FS_EmptySet DEF ChildInv
<1>10. UsageInv
  <2>1. \A d \in Devices : Users(d) = {}  BY DEF Users, Init
  <2>2. \A d \in Devices : Fixed(power[d]) = 0  BY <1>4 DEF Fixed
  <2>3. Cardinality({}) = 0  BY FS_EmptySet
  <2> QED  BY <1>2, <1>4, <2>1, <2>2, <2>3 DEF UsageInv
<1>11. HeldInv /\ HeldIsActive  BY DEF HeldInv, HeldIsActive, Init
<1> QED  BY <1>1, <1>3, <1>5, <1>7, <1>8, <1>9, <1>10, <1>11 DEF IInv

LEMMA INext == ASSUME IInv, [Next]_vars PROVE IInv'
<1>1. ASSUME NEW a \in Actors, Run(a) PROVE IInv'
  BY <1>1, IdleStep, RuntimeIdleStep, IdleEndStep, SuspendStep, SuspendWokenStep,
     SuspendDoneStep, SuspendFailedStep, SuspendNotifyStep, ResumeStep, ResumeWokenStep,
     ResumeParentStep, ResumeParentRetStep, ResumeDoneStep, ResumeFailedStep, ResumePutStep,
     ResumePutIdleStep DEF Run
<1>2. ASSUME NEW t \in Tasks, RunTask(t) PROVE IInv'
  BY <1>2, DisableStep, DisableResumedStep, BarrierEnterStep, BarrierStep, CancelStep,
     CancelledStep, BarrierWaitStep DEF RunTask
<1>3. ASSUME NEW d \in Devices, Worker(d) \/ pm_suspend_timer_fn(d) PROVE IInv'
  BY <1>3, WorkStartStep, WorkStep, TimerStep DEF Worker
<1>4. ASSUME NEW t \in Tasks, NEW d \in Devices, MayEnable(t, d), pm_runtime_enable(t, d)
      PROVE  IInv'
  BY <1>4, EnableStep
<1>5. ASSUME NEW t \in Tasks, NEW d \in Targets, Start(t, d) PROVE IInv'
  <2>1. d \in Devices  BY PMAssumption
  <2> QED  BY <1>5, <2>1, EntryIdleStep, EntrySuspendStep, EntryResumeStep, ScheduleStep,
              ForbidStep, AllowStep, AutosuspendStep, SetStatusStep, DisableStartStep,
              BarrierStartStep DEF Start
<1>6. CASE UNCHANGED vars
  <2>1. /\ UNCHANGED power /\ UNCHANGED <<stack, refs>> /\ UNCHANGED <<refs, held, disabled>>
        /\ UNCHANGED lock /\ UNCHANGED asleep
    BY <1>6 DEF vars
  <2>2. TypeOK /\ StackInv  BY DEF IInv
  <2>3. stack' \in Stacks /\ StackInv' /\ CountsSame  BY <2>1, <2>2, StillSame
  <2>4. power' \in [Devices -> PowerType] /\ AllPowerSame  BY <2>1, <2>2, KeepPowerSame
  <2>5. lock' \in [Devices -> Actors \cup {NULL}] /\ asleep' \subseteq Actors
    BY <2>1, <2>2 DEF TypeOK
  <2> QED  BY <2>1, <2>3, <2>4, <2>5, QuietStep
<1> QED  BY <1>1, <1>2, <1>3, <1>4, <1>5, <1>6 DEF Next

(* The invariant: types; the frames there can be; each counter of a device *)
(* is the number of calls, users, children and settings it stands for.     *)
THEOREM Invariance == Spec => []IInv
<1>1. Init => IInv  BY IInit
<1>2. IInv /\ [Next]_vars => IInv'  BY INext
<1> QED  BY <1>1, <1>2, PTL DEF Spec

(* The frames that the properties count are those of Count.                *)
LEMMA CountedFrames ==
  ASSUME IInv
  PROVE  /\ Frames = FramesOf(stack)
         /\ \A f \in Frames : FrameAt(f) = FrameOf(stack, f) /\ FrameAt(f) \in FrameType
<1>1. Frames = FramesOf(stack)  BY DEF Frames, FramesOf
<1>2. ASSUME NEW f \in Frames PROVE FrameAt(f) = FrameOf(stack, f) /\ FrameAt(f) \in FrameType
  <2>1. PICK a \in Actors : f \in {a} \X (1 .. Len(stack[a]))  BY DEF Frames
  <2>2. f[1] = a /\ f[2] \in 1 .. Len(stack[a])  BY <2>1
  <2>3. stack[a] \in Seq(FrameType)  BY DEF IInv, TypeOK
  <2>4. Len(stack[a]) + 1 - f[2] \in 1 .. Len(stack[a])  BY <2>2, <2>3, LenProperties
  <2>5. FrameAt(f) \in FrameType
    <3> HIDE DEF FrameType
    <3> QED  BY <2>2, <2>3, <2>4, ElementOfSeq DEF FrameAt
  <2> QED  BY <2>5 DEF FrameAt, FrameOf
<1> QED  BY <1>1, <1>2

(* Types; usage_count, child_count and disable_depth never go below zero,  *)
(* whatever calls are made and in whatever order their parts run.          *)
THEOREM TypeCorrect == Spec => []TypeOK
<1>1. IInv => TypeOK  BY DEF IInv
<1> QED  BY <1>1, Invariance, PTL

(* rpm_suspend and rpm_resume run one callback of a device at a time, and  *)
(* the status says which.                                                  *)
THEOREM CallbacksCorrect == Spec => []CallbacksExclusive
<1>1. ASSUME IInv PROVE CallbacksExclusive
  <2> SUFFICES ASSUME NEW d \in Devices
               PROVE  /\ Cardinality({f \in Frames : FrameAt(f).dev = d
                                                     /\ FrameAt(f).at = "suspend_cb"})
                           = (IF power[d].status = "SUSPENDING" THEN 1 ELSE 0)
                      /\ Cardinality({f \in Frames : FrameAt(f).dev = d
                                                     /\ FrameAt(f).at = "resume_cb"})
                           = (IF power[d].status = "RESUMING" THEN 1 ELSE 0)
    BY DEF CallbacksExclusive
  <2>1. /\ {f \in Frames : FrameAt(f).dev = d /\ FrameAt(f).at = "suspend_cb"}
             = CountedIn(stack, InSuspend(d))
        /\ {f \in Frames : FrameAt(f).dev = d /\ FrameAt(f).at = "resume_cb"}
             = CountedIn(stack, InResume(d))
    BY <1>1, CountedFrames DEF CountedIn, InSuspend, InResume
  <2>2. /\ Count(InSuspend(d)) = One(power[d].status = "SUSPENDING")
        /\ Count(InResume(d)) = One(power[d].status = "RESUMING")
    BY <1>1 DEF IInv, CallbackInv
  <2> QED  BY <2>1, <2>2 DEF Count, CountIn, One
<1> QED  BY <1>1, Invariance, PTL

(* child_count is the number of children that are active or being          *)
(* suspended: rpm_suspend, rpm_resume and __pm_runtime_set_status keep it  *)
(* balanced on every path.                                                 *)
THEOREM ChildrenCorrect == Spec => []ChildCount
<1>1. IInv => ChildCount  BY DEF IInv, ChildInv, ChildCount, Up
<1> QED  BY <1>1, Invariance, PTL

(* usage_count is the number of references there are; no path of rpm_resume*)
(* leaks the one on the parent, and no barrier its own.                    *)
THEOREM UsageCorrect == Spec => []UsageBalanced
<1>1. ASSUME IInv PROVE UsageBalanced
  <2> SUFFICES ASSUME NEW d \in Devices
               PROVE  power[d].usage =
                   Cardinality({t \in Tasks : d \in refs[t]})
                   + Cardinality({f \in Frames : FrameAt(f).par /\ Parent[FrameAt(f).dev] = d})
                   + Cardinality({f \in Frames : /\ FrameAt(f).dev = d
                       /\ \/ FrameAt(f).at = "disable_resumed"
                          \/ /\ FrameAt(f).flags = {}
                             /\ FrameAt(f).at \in {"barrier_enter", "barrier", "cancel",
                                                   "cancelled", "barrier_wait"}})
                   + (IF power[d].auto THEN 0 ELSE 1)
                   + (IF power[d].autosuspend = "never" THEN 1 ELSE 0)
    BY DEF UsageBalanced
  <2>1. {f \in Frames : FrameAt(f).par /\ Parent[FrameAt(f).dev] = d}
          = CountedIn(stack, OnParent(d))
    BY <1>1, CountedFrames DEF CountedIn, OnParent
  <2>2. {f \in Frames : /\ FrameAt(f).dev = d
                        /\ \/ FrameAt(f).at = "disable_resumed"
                           \/ /\ FrameAt(f).flags = {}
                              /\ FrameAt(f).at \in {"barrier_enter", "barrier", "cancel",
                                                    "cancelled", "barrier_wait"}}
          = CountedIn(stack, InBarrier(d))
    BY <1>1, CountedFrames DEF CountedIn, InBarrier, BarrierAts
  <2>3. power[d].usage = Cardinality(Users(d)) + Count(OnParent(d)) + Count(InBarrier(d))
                           + Fixed(power[d])
    BY <1>1 DEF IInv, UsageInv
  <2>4. /\ Cardinality(Users(d)) \in Nat /\ Count(OnParent(d)) \in Nat
        /\ Count(InBarrier(d)) \in Nat
    BY <1>1, InUse
  <2>5. Users(d) = {t \in Tasks : d \in refs[t]}  BY DEF Users
  <2>6. /\ Count(OnParent(d)) = Cardinality(CountedIn(stack, OnParent(d)))
        /\ Count(InBarrier(d)) = Cardinality(CountedIn(stack, InBarrier(d)))
    BY DEF Count, CountIn
  <2> DEFINE x == IF power[d].auto THEN 0 ELSE 1
             y == IF power[d].autosuspend = "never" THEN 1 ELSE 0
  <2>7. x \in Nat /\ y \in Nat /\ Fixed(power[d]) = x + y  BY DEF Fixed
  <2> HIDE DEF x, y
  <2>8. power[d].usage = Cardinality(Users(d)) + Count(OnParent(d)) + Count(InBarrier(d))
                           + x + y
    BY <2>3, <2>4, <2>7
  <2> QED  BY <2>1, <2>2, <2>5, <2>6, <2>8, Zenon DEF x, y
<1> QED  BY <1>1, Invariance, PTL

(* pm_runtime_get_sync: a device that a task was told is active stays so   *)
(* until the task puts it.                                                 *)
THEOREM HeldCorrect == Spec => []HeldIsActive
<1>1. IInv => HeldIsActive  BY DEF IInv
<1> QED  BY <1>1, Invariance, PTL

(***************************************************************************)
(* Without pm_runtime_set_active and pm_runtime_set_suspended, a device is *)
(* powered only below an active parent.                                    *)
(***************************************************************************)

LEMMA FrameGood ==
  ASSUME IInv, NEW x \in FramesOf(stack)
  PROVE  FrameOf(stack, x) \in GoodFrame
<1>1. PICK a \in Actors : x \in {a} \X (1 .. Len(stack[a]))  BY DEF FramesOf
<1>2. x[1] = a /\ x[2] \in 1 .. Len(stack[a])  BY <1>1
<1>3. stack[a] \in Seq(OwnFrame(a)) /\ Len(stack[a]) \in Nat
  BY LenProperties DEF IInv, StackInv
<1>4. Len(stack[a]) + 1 - x[2] \in 1 .. Len(stack[a])  BY <1>2, <1>3
<1>5. FrameOf(stack, x) \in OwnFrame(a)
  <2> HIDE DEF OwnFrame
  <2> QED  BY <1>2, <1>3, <1>4, ElementOfSeq DEF FrameOf
<1> QED  BY <1>5 DEF OwnFrame

(* A device that nobody uses has no child at it, nor one that is being     *)
(* resumed; one that counts no children has no active child.               *)
Unused == \A u \in Devices :
  /\ power[u].usage = 0 =>
       /\ \A a \in Actors : \A i \in 1 .. Len(stack[a]) : stack[a][i] \notin OnParent(u)
       /\ \A d \in Devices : Parent[d] = u => power[d].status # "RESUMING"
  /\ power[u].children = 0 => \A d \in Devices : Parent[d] = u => ~Counts(power[d])

LEMMA UnusedParent == IInv => Unused
<1> SUFFICES ASSUME IInv, NEW u \in Devices
             PROVE  /\ power[u].usage = 0 =>
                         /\ \A a \in Actors : \A i \in 1 .. Len(stack[a]) :
                              stack[a][i] \notin OnParent(u)
                         /\ \A d \in Devices : Parent[d] = u => power[d].status # "RESUMING"
                    /\ power[u].children = 0 =>
                         \A d \in Devices : Parent[d] = u => ~Counts(power[d])
  BY DEF Unused
<1>1. ASSUME power[u].usage = 0 PROVE CountedIn(stack, OnParent(u)) = {}
  <2>1. power[u].usage = Cardinality(Users(u)) + Count(OnParent(u)) + Count(InBarrier(u))
                           + Fixed(power[u])
    BY DEF IInv, UsageInv
  <2>2. /\ Cardinality(Users(u)) \in Nat /\ Count(OnParent(u)) \in Nat
        /\ Count(InBarrier(u)) \in Nat /\ Fixed(power[u]) \in Nat
    BY InUse DEF Fixed
  <2>3. \A c, m, n, k \in Nat : c + m + n + k = 0 => m = 0  OBVIOUS
  <2>4. Count(OnParent(u)) = 0  BY <1>1, <2>1, <2>2, <2>3, Zenon
  <2>5. IsFiniteSet(CountedIn(stack, OnParent(u)))  BY CountType DEF IInv, TypeOK, Stacks
  <2> QED  BY <2>4, <2>5, FS_EmptySet DEF Count, CountIn
<1>2. ASSUME power[u].usage = 0, NEW a \in Actors, NEW i \in 1 .. Len(stack[a])
      PROVE  stack[a][i] \notin OnParent(u)
  <2>1. Len(stack[a]) \in Nat  BY LenProperties DEF IInv, TypeOK
  <2> DEFINE j == Len(stack[a]) + 1 - i
             x == <<a, j>>
  <2>2. j \in 1 .. Len(stack[a]) /\ Len(stack[a]) + 1 - j = i  BY <2>1
  <2>3. x \in FramesOf(stack)
    <3> HIDE DEF j
    <3> QED  BY <2>2 DEF FramesOf
  <2>4. FrameOf(stack, x) = stack[a][i]
    <3> HIDE DEF j
    <3> QED  BY <2>2 DEF FrameOf
  <2> QED  BY <1>1, <1>2, <2>3, <2>4 DEF CountedIn
<1>3. ASSUME power[u].usage = 0, NEW d \in Devices, Parent[d] = u, power[d].status = "RESUMING"
      PROVE  FALSE
  <2>1. Count(InResume(d)) = 1  BY <1>3 DEF IInv, CallbackInv, One
  <2>2. CountedIn(stack, InResume(d)) # {}  BY <2>1, FS_EmptySet DEF Count, CountIn
  <2>3. PICK x \in FramesOf(stack) : FrameOf(stack, x) \in InResume(d)
    BY <2>2 DEF CountedIn
  <2>4. FrameOf(stack, x) \in GoodFrame  BY FrameGood
  <2>5. Parent[d] # NULL  BY <1>3, PMAssumption
  <2>6. FrameOf(stack, x) \in OnParent(u)
    BY <1>3, <2>3, <2>4, <2>5 DEF GoodFrame, InResume, OnParent
  <2> QED  BY <1>1, <1>3, <2>3, <2>6 DEF CountedIn
<1>4. ASSUME power[u].children = 0, NEW d \in Devices, Parent[d] = u PROVE ~Counts(power[d])
  <2>1. Cardinality(Up(u)) = 0  BY <1>4 DEF IInv, ChildInv
  <2>2. Up(u) = {}  BY <2>1, UpFinite, FS_EmptySet
  <2> QED  BY <1>4, <2>2 DEF Up, Counts
<1> QED  BY <1>2, <1>3, <1>4

(* How a step may change the statuses and the depths.                      *)
PowerMoves ==
  /\ \A u \in Devices : (\E c \in Devices : Parent[c] = u) /\ power[u].depth = 0
       => power'[u].depth = 0
  /\ \A d \in Devices : Parent[d] # NULL /\ power[d].depth # 0 /\ power'[d].depth = 0
       => power[Parent[d]].depth = 0
  /\ \A u \in Devices : power[u].status = "ACTIVE" /\ power'[u].status # "ACTIVE"
       => /\ power'[u].usage = 0
          /\ u \in IgnoreChildren \/ power'[u].children = 0
  /\ \A d \in Devices : /\ power[d].status = "SUSPENDED" /\ power'[d].status # "SUSPENDED"
                        /\ Parent[d] # NULL /\ Parent[d] \notin IgnoreChildren
       => /\ power[Parent[d]].status = "ACTIVE"
          /\ power'[Parent[d]].status = "ACTIVE"

LEMMA ParentStep ==
  ASSUME IInv, IInv', ParentInv, PowerMoves,
         \A a \in Actors : stack'[a] \in Seq(SafeFrame)
  PROVE  ParentInv'
<1>1. Unused'  BY UnusedParent, PTL
<1>2. \A d \in Devices : Parent[d] \in Devices \cup {NULL} /\ NULL \notin Devices
  BY PMAssumption
<1>3. ParentActive'
  <2> SUFFICES ASSUME NEW d \in Devices, Parent[d] # NULL, Parent[d] \notin IgnoreChildren,
                      power'[d].status # "SUSPENDED"
               PROVE  power'[Parent[d]].status = "ACTIVE"
    BY DEF ParentActive
  <2>1. CASE power[d].status = "SUSPENDED"  BY <2>1 DEF PowerMoves
  <2>2. CASE power[d].status # "SUSPENDED"
    <3>1. PICK u \in Devices : u = Parent[d]  BY <1>2
    <3>2. power[u].status = "ACTIVE"  BY <2>2, <3>1 DEF ParentInv, ParentActive
    <3>3. SUFFICES ASSUME power'[u].status # "ACTIVE" PROVE FALSE  BY <3>1
    <3>4. power'[u].usage = 0 /\ power'[u].children = 0  BY <3>1, <3>2, <3>3 DEF PowerMoves
    <3>5. power'[d].status # "RESUMING" /\ ~Counts(power'[d])
      BY <1>1, <3>1, <3>4 DEF Unused
    <3>6. power'[d].status \in Statuses  BY DEF IInv, TypeOK, PowerType
    <3> QED  BY <3>5, <3>6 DEF Counts, Statuses
  <2> QED  BY <2>1, <2>2
<1>4. ASSUME NEW d \in Devices, Parent[d] # NULL, power'[d].depth = 0
      PROVE  power'[Parent[d]].depth = 0
  <2>1. PICK u \in Devices : u = Parent[d]  BY <1>2, <1>4
  <2>2. power[u].depth = 0  BY <1>4, <2>1 DEF ParentInv, PowerMoves
  <2> QED  BY <2>1, <2>2 DEF PowerMoves
<1>5. ASSUME NEW a \in Actors PROVE stack'[a] \in Seq(SafeFrame')
  <2>1. stack'[a] \in Seq(OwnFrame(a)') /\ Len(stack'[a]) \in Nat
    BY LenProperties DEF IInv, StackInv
  <2>2. ASSUME NEW i \in 1 .. Len(stack'[a]) PROVE stack'[a][i] \in SafeFrame'
    <3> DEFINE f == stack'[a][i]
    <3>1. f \in SafeFrame
      <4> HIDE DEF SafeFrame
      <4> QED  BY <2>2, ElementOfSeq
    <3>2. f \in FrameType  BY <3>1 DEF SafeFrame
    <3>3. f \in GoodFrame
      <4> DEFINE O == OwnFrame(a)'
      <4>1. stack'[a] \in Seq(O)  BY <2>1
      <4> HIDE DEF O
      <4>2. f \in O  BY <2>2, <4>1, ElementOfSeq
      <4> QED  BY <4>2 DEF O, OwnFrame
    <3>4. f \notin OnParent(Parent[f.dev]) \/ Parent[f.dev] \notin Devices
            \/ power'[Parent[f.dev]].usage # 0
      BY <1>1, <2>2 DEF Unused
    <3> HIDE DEF f
    <3> SUFFICES ASSUME f.par
                 PROVE  /\ power'[Parent[f.dev]].depth = 0
                        /\ (f.at \in {"resume", "resume_wait"} /\ Parent[f.dev] \notin IgnoreChildren)
                             => power'[Parent[f.dev]].status = "ACTIVE"
      BY <3>2 DEF SafeFrame, f
    <3>5. f.dev \in Devices /\ Parent[f.dev] \in Devices
      BY <1>2, <3>2, <3>3 DEF GoodFrame, FrameType
    <3>6. power'[Parent[f.dev]].usage # 0  BY <3>2, <3>4, <3>5 DEF OnParent
    <3> QED  BY <3>1, <3>5, <3>6 DEF SafeFrame, PowerMoves
  <2>3. stack'[a] \in Seq(FrameType)  BY DEF IInv, TypeOK
  <2> DEFINE s == stack'[a]
             O == SafeFrame'
  <2>4. s \in Seq(FrameType) /\ \A i \in 1 .. Len(s) : s[i] \in O  BY <2>2, <2>3
  <2> HIDE DEF s, O
  <2>5. s \in Seq(O)  BY <2>4, SeqDef
  <2> QED  BY <2>5 DEF s, O
<1> QED  BY <1>3, <1>4, <1>5 DEF ParentInv

(* The frames after a step, under the statuses before it.                  *)
StacksSafe == \A b \in Actors : stack'[b] \in Seq(SafeFrame)

StatusKept == \A e \in Devices : /\ power'[e].status = power[e].status
                                 /\ power'[e].depth = power[e].depth

LEMMA KeptMoves == ASSUME StatusKept PROVE PowerMoves
<1>1. \A d \in Devices : Parent[d] # NULL => Parent[d] \in Devices  BY PMAssumption
<1>2. \A d \in Devices : ~(power[d].status = "SUSPENDED" /\ power'[d].status # "SUSPENDED")
  BY DEF StatusKept
<1> QED  BY <1>1, <1>2 DEF StatusKept, PowerMoves

LEMMA SameKept == ASSUME AllPowerSame PROVE PowerMoves
<1>1. StatusKept  BY DEF AllPowerSame, SamePower, StatusKept
<1> QED  BY <1>1, KeptMoves

LEMMA SetKept ==
  ASSUME TypeOK, NEW d \in Devices, NEW q, SetPower(d, q), q.status = power[d].status,
         q.depth = power[d].depth
  PROVE  PowerMoves
<1>1. /\ power'[d] = q /\ \A e \in Devices \ {d} : power'[e] = power[e]
  BY DEF TypeOK, SetPower
<1>2. StatusKept  BY <1>1 DEF StatusKept
<1> QED  BY <1>2, KeptMoves

LEMMA StillKept == ASSUME UNCHANGED power PROVE PowerMoves
<1>1. StatusKept  BY DEF StatusKept
<1> QED  BY <1>1, KeptMoves

(* The stacks.                                                             *)
LEMMA SafePut ==
  ASSUME IInv, ParentInv, NEW a \in Actors, NEW s \in Seq(SafeFrame),
         stack' = [stack EXCEPT ![a] = s]
  PROVE  StacksSafe
<1>1. stack \in [Actors -> Seq(FrameType)]  BY DEF IInv, TypeOK
<1>2. \A b \in Actors : stack[b] \in Seq(SafeFrame)  BY DEF ParentInv
<1> HIDE DEF SafeFrame
<1> QED  BY <1>1, <1>2 DEF StacksSafe

LEMMA SafeTop ==
  ASSUME ParentInv, NEW a \in Actors, stack[a] # <<>>
  PROVE  Top(a) \in SafeFrame /\ Tail(stack[a]) \in Seq(SafeFrame)
<1>1. stack[a] \in Seq(SafeFrame)  BY DEF ParentInv
<1> HIDE DEF SafeFrame
<1> QED  BY <1>1, HeadTailProperties DEF Top

LEMMA SafeStill == ASSUME ParentInv, UNCHANGED stack PROVE StacksSafe
BY DEF ParentInv, StacksSafe

LEMMA SafeReturn ==
  ASSUME IInv, ParentInv, NEW a \in Actors, stack[a] # <<>>, Return(a)
  PROVE  StacksSafe
<1>1. stack' = [stack EXCEPT ![a] = Tail(stack[a])]  BY DEF Return
<1> QED  BY <1>1, SafeTop, SafePut

LEMMA SafeBecome ==
  ASSUME IInv, ParentInv, NEW a \in Actors, stack[a] # <<>>, NEW f \in SafeFrame, Become(a, f)
  PROVE  StacksSafe
<1>1. Tail(stack[a]) \in Seq(SafeFrame)  BY SafeTop
<1>2. <<f>> \o Tail(stack[a]) \in Seq(SafeFrame)
  <2> HIDE DEF SafeFrame
  <2> QED  BY <1>1
<1>3. stack' = [stack EXCEPT ![a] = <<f>> \o Tail(stack[a])]  BY DEF Become
<1> QED  BY <1>2, <1>3, SafePut

LEMMA SafeCall ==
  ASSUME IInv, ParentInv, NEW a \in Actors, stack[a] # <<>>, NEW f \in SafeFrame, NEW at,
         [Top(a) EXCEPT !.at = at] \in SafeFrame, Call(a, at, f)
  PROVE  StacksSafe
<1> DEFINE g == [Top(a) EXCEPT !.at = at]
<1>1. Tail(stack[a]) \in Seq(SafeFrame)  BY SafeTop
<1>2. g \in SafeFrame  OBVIOUS
<1>3. stack' = [stack EXCEPT ![a] = <<f, g>> \o Tail(stack[a])]  BY DEF Call
<1> HIDE DEF g
<1>4. <<f, g>> \o Tail(stack[a]) \in Seq(SafeFrame)
  <2> HIDE DEF SafeFrame
  <2> QED  BY <1>1, <1>2
<1> QED  BY <1>3, <1>4, SafePut

LEMMA SafeEnter ==
  ASSUME IInv, ParentInv, NEW a \in Actors, NEW f \in SafeFrame, stack' = [stack EXCEPT ![a] = <<f>>]
  PROVE  StacksSafe
<1>1. <<f>> \in Seq(SafeFrame)
  <2> HIDE DEF SafeFrame
  <2> QED  OBVIOUS
<1> QED  BY <1>1, SafePut

LEMMA SafeNew ==
  ASSUME NEW at \in NewAts \cup DriverAts, NEW d \in Devices,
         NEW flags \in SUBSET (CallFlags \cup {"DISABLE", "CHECK_RESUME"})
  PROVE  Frame(at, d, flags) \in SafeFrame
BY DEF NewAts, DriverAts, BarrierAts, CallFlags, Frame, FrameType, SafeFrame

AllAts == PlainAts \cup DriverAts \cup {"suspend_cb", "resume_cb"}

(* A call that goes on: where it matters, it has found the parent active.  *)
LEMMA SafeFrameGoto ==
  ASSUME IInv, ParentInv, NEW a \in Actors, NEW at, Running(a, at), NEW to \in AllAts,
         \/ at \notin ResumeAts
         \/ at \in {"resume", "resume_wait"}
         \/ to \notin {"resume", "resume_wait"}
         \/ Parent[Top(a).dev] \in IgnoreChildren
         \/ power[Parent[Top(a).dev]].status = "ACTIVE"
  PROVE  [Top(a) EXCEPT !.at = to] \in SafeFrame
<1> DEFINE f == Top(a)
           g == [f EXCEPT !.at = to]
<1>1. f \in SafeFrame /\ f \in GoodFrame /\ f \in FrameType /\ f.at = at
  BY AtTop, SafeTop
<1>2. g \in FrameType /\ g.at = to /\ g.dev = f.dev /\ g.par = f.par
  BY <1>1 DEF FrameType, AllAts, PlainAts, DriverAts, BarrierAts
<1> HIDE DEF f, g
<1>3. f.par => at \in ResumeAts  BY <1>1 DEF GoodFrame
<1>4. g \in SafeFrame  BY <1>1, <1>2, <1>3 DEF SafeFrame, f
<1> QED  BY <1>4 DEF f, g

LEMMA SafeGoto ==
  ASSUME IInv, ParentInv, NEW a \in Actors, NEW at, Running(a, at), NEW to \in AllAts,
         \/ at \notin ResumeAts
         \/ at \in {"resume", "resume_wait"}
         \/ to \notin {"resume", "resume_wait"}
         \/ Parent[Top(a).dev] \in IgnoreChildren
         \/ power[Parent[Top(a).dev]].status = "ACTIVE",
         Goto(a, to)
  PROVE  StacksSafe
<1>1. [Top(a) EXCEPT !.at = to] \in SafeFrame  BY SafeFrameGoto
<1>2. Become(a, [Top(a) EXCEPT !.at = to])  BY DEF Goto
<1>3. stack[a] # <<>>  BY DEF Running
<1> QED  BY <1>1, <1>2, <1>3, SafeBecome

(* The actions.                                                            *)
LEMMA IdleParent ==
  ASSUME IInv, ParentInv, NEW a \in Actors, rpm_idle(a) \/ runtime_idle(a) \/ rpm_idle_end(a)
  PROVE  PowerMoves /\ StacksSafe
<1>1. CASE rpm_idle(a)
  <2>1. Running(a, "idle")  BY <1>1 DEF rpm_idle, Section
  <2>2. PICK d \in Devices : d = Top(a).dev /\ power[d] \in PowerType  BY <2>1, AtTop
  <2>3. TypeOK /\ stack[a] # <<>>  BY <2>1, AtTop
  <2>4. CASE SetPower(d, rpm_idle_async(power[d], d)) /\ Return(a)
    <3>1. PowerMoves  BY <2>2, <2>3, <2>4, IdleAsyncType, SetPowerSame, SameKept
    <3> QED  BY <2>3, <2>4, <3>1, SafeReturn
  <2>5. CASE UNCHANGED power /\ Return(a)  BY <2>3, <2>5, StillKept, SafeReturn
  <2>6. CASE /\ SetPower(d, [power[d] EXCEPT !.request = "NONE", !.idle = TRUE])
             /\ Goto(a, "idle_cb")
    <3> DEFINE q == [power[d] EXCEPT !.request = "NONE", !.idle = TRUE]
    <3>1. q.status = power[d].status /\ q.depth = power[d].depth  BY <2>2 DEF PowerType
    <3>2. PowerMoves  BY <2>3, <2>6, <3>1, SetKept
    <3>3. "idle" \notin ResumeAts /\ "idle_cb" \in AllAts  BY DEF ResumeAts, AllAts, PlainAts
    <3> QED  BY <2>1, <2>6, <3>2, <3>3, SafeGoto
  <2> QED  BY <1>1, <2>2, <2>4, <2>5, <2>6 DEF rpm_idle
<1>2. CASE runtime_idle(a)
  <2>1. Running(a, "idle_cb") /\ UNCHANGED power  BY <1>2 DEF runtime_idle
  <2>2. PICK d \in Devices : d = Top(a).dev  BY <2>1, AtTop
  <2>3. PowerMoves  BY <2>1, StillKept
  <2>4. "idle_cb" \notin ResumeAts /\ "idle_end" \in AllAts  BY DEF ResumeAts, AllAts, PlainAts
  <2>5. CASE Goto(a, "idle_end")  BY <2>1, <2>3, <2>4, <2>5, SafeGoto
  <2>6. ASSUME NEW flags \in CallbackFlags, Call(a, "idle_end", Frame("suspend", d, flags))
        PROVE  StacksSafe
    <3>1. flags \in SUBSET (CallFlags \cup {"DISABLE", "CHECK_RESUME"}) /\ "suspend" \in NewAts
      BY PMAssumption DEF CallFlags, NewAts
    <3>2. Frame("suspend", d, flags) \in SafeFrame  BY <3>1, SafeNew
    <3>3. [Top(a) EXCEPT !.at = "idle_end"] \in SafeFrame  BY <2>1, <2>4, SafeFrameGoto
    <3>4. stack[a] # <<>>  BY <2>1 DEF Running
    <3> QED  BY <2>6, <3>2, <3>3, <3>4, SafeCall
  <2> QED  BY <1>2, <2>2, <2>3, <2>5, <2>6 DEF runtime_idle
<1>3. CASE rpm_idle_end(a)
  <2>1. Running(a, "idle_end")  BY <1>3 DEF rpm_idle_end, Section
  <2>2. PICK d \in Devices : d = Top(a).dev /\ power[d] \in PowerType  BY <2>1, AtTop
  <2>3. TypeOK /\ stack[a] # <<>>  BY <2>1, AtTop
  <2> DEFINE q == [power[d] EXCEPT !.idle = FALSE, !.unwoken = FALSE]
  <2>4. q.status = power[d].status /\ q.depth = power[d].depth  BY <2>2 DEF PowerType
  <2>5. SetPower(d, q) /\ Return(a)  BY <1>3, <2>2 DEF rpm_idle_end
  <2>6. PowerMoves  BY <2>3, <2>4, <2>5, SetKept
  <2> QED  BY <2>3, <2>5, <2>6, SafeReturn
<1> QED  BY <1>1, <1>2, <1>3

LEMMA NotifyParent ==
  ASSUME IInv, ParentInv, NEW a \in Actors, suspend_notify(a) \/ resume_put_idle(a)
  PROVE  PowerMoves /\ StacksSafe
<1>1. PICK at \in {"suspend_notify", "resume_put_idle"} : Running(a, at)
  BY DEF suspend_notify, resume_put_idle, Section
<1>2. TypeOK /\ stack[a] # <<>> /\ Top(a) \in GoodFrame /\ Top(a).at = at  BY <1>1, AtTop
<1>3. PICK u \in Devices : u = Parent[Top(a).dev] /\ power[u] \in PowerType
  BY <1>1, <1>2, PMAssumption DEF GoodFrame, FrameType, TypeOK
<1>4. SetPower(u, rpm_idle_async(power[u], u)) /\ Return(a)
  BY <1>3 DEF suspend_notify, resume_put_idle
<1>5. PowerMoves  BY <1>2, <1>3, <1>4, IdleAsyncType, SetPowerSame, SameKept
<1> QED  BY <1>2, <1>4, <1>5, SafeReturn

LEMMA WokenParent ==
  ASSUME IInv, ParentInv, NEW a \in Actors, suspend_woken(a) \/ resume_woken(a)
  PROVE  PowerMoves /\ StacksSafe
<1>1. PowerMoves  BY StillKept DEF suspend_woken, resume_woken
<1>2. CASE UNCHANGED stack  BY <1>1, <1>2, SafeStill
<1>3. CASE Running(a, "suspend_wait") /\ Goto(a, "suspend")
  <2>1. "suspend_wait" \notin ResumeAts /\ "suspend" \in AllAts  BY DEF ResumeAts, AllAts, PlainAts
  <2> QED  BY <1>1, <1>3, <2>1, SafeGoto
<1>4. CASE Running(a, "resume_wait") /\ Goto(a, "resume")
  <2>1. "resume" \in AllAts  BY DEF AllAts, PlainAts
  <2> QED  BY <1>1, <1>4, <2>1, SafeGoto
<1> QED  BY <1>2, <1>3, <1>4 DEF suspend_woken, resume_woken, Section

(* A parent is suspended only when nobody uses it, and it has no active    *)
(* children or ignores them.                                               *)
LEMMA SuspendParent ==
  ASSUME IInv, ParentInv, NEW a \in Actors, rpm_suspend(a)
  PROVE  PowerMoves /\ StacksSafe
<1>1. Running(a, "suspend")  BY DEF rpm_suspend, Section
<1>2. PICK d \in Devices : d = Top(a).dev /\ power[d] \in PowerType  BY <1>1, AtTop
<1>3. TypeOK /\ stack[a] # <<>>  BY <1>1, AtTop
<1> DEFINE p == power[d]
           q == pm_runtime_cancel_pending(p)
           req == IF "AUTO" \in Top(a).flags THEN "AUTOSUSPEND" ELSE "SUSPEND"
<1>4. q \in PowerType /\ SamePower(p, q)  BY <1>2, CancelType
<1>5. SetPower(d, q) => PowerMoves  BY <1>3, <1>4, SetPowerSame, SameKept
<1>6. Return(a) => StacksSafe  BY <1>3, SafeReturn
<1>7. /\ "suspend" \notin ResumeAts /\ "suspend_wait" \in AllAts /\ "suspend_cb" \in AllAts
  BY DEF ResumeAts, AllAts, PlainAts
<1>8. CASE Return(a) /\ UNCHANGED power  BY <1>6, <1>8, StillKept
<1>9. CASE SetPower(d, [p EXCEPT !.request = "NONE", !.timer = "auto"]) /\ Return(a)
  <2> DEFINE r == [p EXCEPT !.request = "NONE", !.timer = "auto"]
  <2>1. r.status = p.status /\ r.depth = p.depth  BY <1>2 DEF PowerType
  <2> QED  BY <1>3, <1>6, <1>9, <2>1, SetKept
<1>10. CASE SetPower(d, q) /\ Return(a)  BY <1>5, <1>6, <1>10
<1>11. CASE SetPower(d, q) /\ Goto(a, "suspend_wait")
  BY <1>1, <1>5, <1>7, <1>11, SafeGoto
<1>12. CASE SetPower(d, QueueRequest([q EXCEPT !.deferred = FALSE], req)) /\ Return(a)
  <2> DEFINE r == [q EXCEPT !.deferred = FALSE]
  <2>1. r \in PowerType /\ r.status = q.status /\ r.depth = q.depth
    <3> HIDE DEF q
    <3> QED  BY <1>4 DEF PowerType
  <2>2. req \in Requests  BY DEF Requests
  <2> HIDE DEF r, req
  <2>3. QueueRequest(r, req) \in PowerType /\ SamePower(r, QueueRequest(r, req))
    BY <2>1, <2>2, QueueType
  <2>4. QueueRequest(r, req).status = p.status /\ QueueRequest(r, req).depth = p.depth
    BY <1>4, <2>1, <2>3 DEF SamePower
  <2>5. PowerMoves  BY <1>3, <1>12, <2>4, SetKept DEF r, req
  <2> QED  BY <1>6, <1>12, <2>5
<1>13. CASE /\ SuspendGoes(a) /\ p.status # "SUSPENDING" /\ ~Async(a)
            /\ SetPower(d, [q EXCEPT !.deferred = FALSE, !.status = "SUSPENDING"])
            /\ Goto(a, "suspend_cb")
  <2> DEFINE r == [q EXCEPT !.deferred = FALSE, !.status = "SUSPENDING"]
  <2>1. /\ r.status = "SUSPENDING" /\ r.depth = p.depth /\ r.usage = p.usage
        /\ r.children = p.children
    <3> HIDE DEF q
    <3> QED  BY <1>4 DEF PowerType, SamePower
  <2>2. /\ p.status = "ACTIVE" /\ p.usage = 0
        /\ p.children = 0 \/ d \in IgnoreChildren
    BY <1>2, <1>13 DEF SuspendGoes, rpm_check_suspend_allowed, SuspendDenied, PowerType,
                       Statuses
  <2>3. power'[d] = r /\ \A e \in Devices \ {d} : power'[e] = power[e]
    BY <1>3, <1>13 DEF TypeOK, SetPower
  <2> HIDE DEF r
  <2>4. \A e \in Devices : power'[e].depth = power[e].depth  BY <2>1, <2>3
  <2>5. \A e \in Devices : power[e].status = "SUSPENDED" => power'[e].status = "SUSPENDED"
    BY <2>2, <2>3
  <2>6. \A e \in Devices : power[e].status = "ACTIVE" /\ power'[e].status # "ACTIVE"
          => power'[e].usage = 0 /\ (e \in IgnoreChildren \/ power'[e].children = 0)
    BY <2>1, <2>2, <2>3
  <2>7. PowerMoves  BY <2>4, <2>5, <2>6 DEF PowerMoves
  <2> QED  BY <1>1, <1>7, <1>13, <2>7, SafeGoto
<1> QED  BY <1>2, <1>8, <1>9, <1>10, <1>11, <1>12, <1>13 DEF rpm_suspend

(* A device whose status is changing comes to rest.                        *)
LEMMA RestMoves ==
  ASSUME NEW d \in Devices, power[d].status \in {"SUSPENDING", "RESUMING"},
         \A e \in Devices : power'[e].depth = power[e].depth,
         \A e \in Devices \ {d} : power'[e].status = power[e].status
  PROVE  PowerMoves
<1>1. \A e \in Devices : power[e].status = "SUSPENDED" => power'[e].status = "SUSPENDED"
  OBVIOUS
<1>2. \A e \in Devices : power[e].status = "ACTIVE" => power'[e].status = "ACTIVE"
  OBVIOUS
<1> QED  BY <1>1, <1>2 DEF PowerMoves

LEMMA SuspendDoneParent ==
  ASSUME IInv, ParentInv, NEW a \in Actors, suspend_done(a)
  PROVE  PowerMoves /\ StacksSafe
<1>1. Running(a, "suspend_cb")  BY DEF suspend_done, Section
<1>2. PICK d \in Devices : d = Top(a).dev /\ power[d] \in PowerType  BY <1>1, AtTop
<1>3. TypeOK /\ stack[a] # <<>> /\ power[d].status = "SUSPENDING"
  BY <1>1, <1>2, AtTop, InCallback
<1> DEFINE p == [power[d] EXCEPT !.error = FALSE, !.status = "SUSPENDED", !.timer = "off",
                            !.unwoken = FALSE]
           u == Parent[d]
<1>4. power' = [e \in Devices |-> IF e = d THEN p
                    ELSE IF e = u /\ power[e].children > 0
                    THEN [power[e] EXCEPT !.children = @ - 1]
                    ELSE power[e]]
  BY <1>2 DEF suspend_done
<1>5. p.depth = power[d].depth  BY <1>2 DEF PowerType
<1> HIDE DEF p
<1>6. \A e \in Devices : power[e] \in PowerType  BY <1>3 DEF TypeOK
<1>7. ASSUME NEW e \in Devices \ {d}
      PROVE  power'[e].status = power[e].status /\ power'[e].depth = power[e].depth
  <2>1. power'[e] = power[e] \/ power'[e] = [power[e] EXCEPT !.children = power[e].children - 1]
    BY <1>4
  <2> QED  BY <1>6, <2>1 DEF PowerType
<1>8. \A e \in Devices : power'[e].depth = power[e].depth  BY <1>4, <1>5, <1>7
<1>9. PowerMoves  BY <1>3, <1>7, <1>8, RestMoves
<1>10. CASE Become(a, Frame("resume", d, {}))
  <2>1. {} \in SUBSET (CallFlags \cup {"DISABLE", "CHECK_RESUME"}) /\ "resume" \in NewAts
    BY DEF NewAts
  <2>2. Frame("resume", d, {}) \in SafeFrame  BY <2>1, SafeNew
  <2> QED  BY <1>3, <1>9, <1>10, <2>2, SafeBecome
<1>11. CASE Goto(a, "suspend_notify")
  <2>1. "suspend_cb" \notin ResumeAts /\ "suspend_notify" \in AllAts
    BY DEF ResumeAts, AllAts, PlainAts
  <2> QED  BY <1>1, <1>9, <1>11, <2>1, SafeGoto
<1>12. CASE Return(a)  BY <1>3, <1>9, <1>12, SafeReturn
<1> QED  BY <1>2, <1>10, <1>11, <1>12 DEF suspend_done

LEMMA SetRest ==
  ASSUME IInv, NEW d \in Devices, power[d].status \in {"SUSPENDING", "RESUMING"},
         NEW q, SetPower(d, q), q.depth = power[d].depth
  PROVE  PowerMoves
<1>1. power'[d] = q /\ \A e \in Devices \ {d} : power'[e] = power[e]
  BY DEF IInv, TypeOK, SetPower
<1> QED  BY <1>1, RestMoves

LEMMA SuspendFailedParent ==
  ASSUME IInv, ParentInv, NEW a \in Actors, suspend_failed(a)
  PROVE  PowerMoves /\ StacksSafe
<1>1. Running(a, "suspend_cb")  BY DEF suspend_failed, Section
<1>2. PICK d \in Devices : d = Top(a).dev /\ power[d] \in PowerType  BY <1>1, AtTop
<1>3. stack[a] # <<>> /\ power[d].status = "SUSPENDING"
  BY <1>1, <1>2, AtTop, InCallback
<1> DEFINE p == [power[d] EXCEPT !.status = "ACTIVE", !.deferred = FALSE, !.unwoken = FALSE]
           q0 == [p EXCEPT !.error = FALSE, !.unwoken = TRUE]
           q1 == [p EXCEPT !.error = FALSE]
           q2 == pm_runtime_cancel_pending([p EXCEPT !.error = TRUE])
           q3 == pm_runtime_cancel_pending(p)
<1>4. p \in PowerType /\ p.depth = power[d].depth  BY <1>2, ZenonT(30) DEF PowerType, Statuses
<1> HIDE DEF p
<1>5. q0.depth = p.depth /\ q1.depth = p.depth /\ q2.depth = p.depth /\ q3.depth = p.depth
  BY <1>4 DEF PowerType, pm_runtime_cancel_pending
<1>6. SetPower(d, q0) \/ SetPower(d, q1) \/ SetPower(d, q2) \/ SetPower(d, q3)
  BY <1>2 DEF suspend_failed, p
<1> HIDE DEF q0, q1, q2, q3
<1>7. PowerMoves  BY <1>2, <1>3, <1>4, <1>5, <1>6, SetRest
<1>8. "suspend_cb" \notin ResumeAts /\ "suspend" \in AllAts  BY DEF ResumeAts, AllAts, PlainAts
<1>9. Goto(a, "suspend") \/ Return(a)  BY DEF suspend_failed
<1> QED  BY <1>1, <1>3, <1>7, <1>8, <1>9, SafeGoto, SafeReturn

LEMMA SafeOut ==
  ASSUME IInv, ParentInv, NEW a \in Actors, NEW at, Running(a, at), NEW active,
         ResumeOut(a, active)
  PROVE  StacksSafe
<1>1. Goto(a, "resume_put") \/ Return(a)  BY DEF ResumeOut
<1>2. "resume_put" \in AllAts /\ "resume_put" \notin {"resume", "resume_wait"}
  BY DEF AllAts, PlainAts
<1>3. stack[a] # <<>>  BY DEF Running
<1> QED  BY <1>1, <1>2, <1>3, SafeGoto, SafeReturn

LEMMA ResumeFailedParent ==
  ASSUME IInv, ParentInv, NEW a \in Actors, resume_failed(a)
  PROVE  PowerMoves /\ StacksSafe
<1>1. Running(a, "resume_cb") /\ ResumeOut(a, FALSE)  BY DEF resume_failed, Section
<1>2. PICK d \in Devices : d = Top(a).dev /\ power[d] \in PowerType  BY <1>1, AtTop
<1>3. power[d].status = "RESUMING"  BY <1>1, <1>2, InCallback
<1> DEFINE o == [power[d] EXCEPT !.status = "SUSPENDED", !.unwoken = FALSE]
           p == pm_runtime_cancel_pending(o)
<1>4. o \in PowerType /\ o.depth = power[d].depth  BY <1>2, ZenonT(60) DEF PowerType, Statuses
<1>5. p \in PowerType /\ p.depth = power[d].depth
  <2> HIDE DEF o
  <2> QED  BY <1>4, CancelType DEF SamePower
<1>6. PICK r \in ResumeResults \ {"ok"} : SetPower(d, [p EXCEPT !.error = (r = "fail")])
  BY <1>2 DEF resume_failed
<1> HIDE DEF p
<1>7. [p EXCEPT !.error = (r = "fail")].depth = p.depth  BY <1>5 DEF PowerType
<1>8. PowerMoves  BY <1>3, <1>5, <1>6, <1>7, SetRest
<1> QED  BY <1>1, <1>8, SafeOut

LEMMA ResumeDoneParent ==
  ASSUME IInv, ParentInv, NEW a \in Actors, resume_done(a)
  PROVE  PowerMoves /\ StacksSafe
<1>1. Running(a, "resume_cb") /\ ResumeOut(a, TRUE)  BY DEF resume_done, Section
<1>2. PICK d \in Devices : d = Top(a).dev /\ power[d] \in PowerType  BY <1>1, AtTop
<1>3. TypeOK /\ power[d].status = "RESUMING"  BY <1>1, <1>2, AtTop, InCallback
<1> DEFINE p == [power[d] EXCEPT !.error = FALSE, !.status = "ACTIVE", !.unwoken = FALSE]
           u == Parent[d]
<1>4. power' = [e \in Devices |-> IF e = d THEN rpm_idle_async(p, d)
                    ELSE IF e = u THEN [power[e] EXCEPT !.children = @ + 1]
                    ELSE power[e]]
  BY <1>2 DEF resume_done
<1>5. p \in PowerType /\ p.depth = power[d].depth  BY <1>2, ZenonT(30) DEF PowerType, Statuses
<1> HIDE DEF p
<1>6. rpm_idle_async(p, d).depth = power[d].depth  BY <1>5, IdleAsyncType DEF SamePower
<1>7. \A e \in Devices : power[e] \in PowerType  BY <1>3 DEF TypeOK
<1>8. ASSUME NEW e \in Devices \ {d}
      PROVE  power'[e].status = power[e].status /\ power'[e].depth = power[e].depth
  <2>1. power'[e] = power[e] \/ power'[e] = [power[e] EXCEPT !.children = power[e].children + 1]
    BY <1>4
  <2> QED  BY <1>7, <2>1 DEF PowerType
<1>9. \A e \in Devices : power'[e].depth = power[e].depth
  <2>1. power'[d] = rpm_idle_async(p, d)  BY <1>4
  <2> QED  BY <1>6, <1>8, <2>1
<1>10. PowerMoves  BY <1>3, <1>8, <1>9, RestMoves
<1> QED  BY <1>1, <1>10, SafeOut

LEMMA ResumeParentSafe ==
  ASSUME IInv, ParentInv, NEW a \in Actors, resume_parent(a)
  PROVE  PowerMoves /\ StacksSafe
<1>1. Running(a, "resume_parent") /\ UNCHANGED power  BY DEF resume_parent
<1>2. /\ stack[a] # <<>> /\ Top(a) \in GoodFrame /\ Top(a) \in FrameType /\ TypeOK
      /\ Top(a).at = "resume_parent"
  BY <1>1, AtTop
<1>3. PICK u \in Devices : u = Parent[Top(a).dev]
  BY <1>2, PMAssumption DEF GoodFrame, FrameType
<1>4. PowerMoves  BY <1>1, StillKept
<1>5. Top(a).par /\ power[u].depth = 0
  BY <1>2, <1>3, SafeTop DEF GoodFrame, SafeFrame
<1>6. CASE Call(a, "resume_parent_ret", Frame("resume", u, {}))
  <2>1. {} \in SUBSET (CallFlags \cup {"DISABLE", "CHECK_RESUME"}) /\ "resume" \in NewAts
    BY DEF NewAts
  <2>2. Frame("resume", u, {}) \in SafeFrame  BY <2>1, SafeNew
  <2>3. "resume_parent_ret" \in AllAts  BY DEF AllAts, PlainAts
  <2>4. [Top(a) EXCEPT !.at = "resume_parent_ret"] \in SafeFrame
    BY <1>1, <2>3, SafeFrameGoto
  <2> QED  BY <1>2, <1>4, <1>6, <2>2, <2>4, SafeCall
<1>7. CASE u \in IgnoreChildren /\ Goto(a, "resume")
  <2>1. "resume" \in AllAts  BY DEF AllAts, PlainAts
  <2> QED  BY <1>1, <1>3, <1>4, <1>7, <2>1, SafeGoto
<1> QED  BY <1>3, <1>5, <1>6, <1>7 DEF resume_parent

LEMMA ResumeParentRetSafe ==
  ASSUME IInv, ParentInv, NEW a \in Actors, resume_parent_ret(a)
  PROVE  PowerMoves /\ StacksSafe
<1>1. Running(a, "resume_parent_ret") /\ UNCHANGED power  BY DEF resume_parent_ret
<1>2. PowerMoves  BY <1>1, StillKept
<1>3. "resume" \in AllAts /\ "resume_put" \in AllAts  BY DEF AllAts, PlainAts
<1>4. CASE power[Parent[Top(a).dev]].status = "ACTIVE" /\ Goto(a, "resume")
  BY <1>1, <1>2, <1>3, <1>4, SafeGoto
<1>5. CASE Goto(a, "resume_put")  BY <1>1, <1>2, <1>3, <1>5, SafeGoto
<1> QED  BY <1>4, <1>5 DEF resume_parent_ret

LEMMA ResumePutParent ==
  ASSUME IInv, ParentInv, NEW a \in Actors, resume_put(a)
  PROVE  PowerMoves /\ StacksSafe
<1>1. Running(a, "resume_put")  BY DEF resume_put, Section
<1>2. /\ stack[a] # <<>> /\ Top(a) \in GoodFrame /\ Top(a) \in FrameType /\ TypeOK
      /\ Top(a).at = "resume_put"
  BY <1>1, AtTop
<1>3. PICK u \in Devices : u = Parent[Top(a).dev] /\ power[u] \in PowerType
  BY <1>2, PMAssumption DEF GoodFrame, FrameType, TypeOK
<1> DEFINE n == power[u].usage - 1
           q == [power[u] EXCEPT !.usage = n]
           g == [Top(a) EXCEPT !.at = "resume_put_idle", !.par = FALSE]
<1>4. SetPower(u, q)  BY <1>2, <1>3 DEF resume_put, TypeOK, SetPower
<1> HIDE DEF n
<1>5. q.status = power[u].status /\ q.depth = power[u].depth  BY <1>3 DEF PowerType
<1>6. PowerMoves  BY <1>2, <1>4, <1>5, SetKept
<1>7. g \in SafeFrame
  <2>1. g \in FrameType /\ ~g.par  BY <1>2 DEF FrameType
  <2> HIDE DEF g
  <2> QED  BY <2>1 DEF SafeFrame
<1>8. Become(a, g) \/ Return(a)  BY DEF resume_put
<1> HIDE DEF g
<1> QED  BY <1>2, <1>6, <1>7, <1>8, SafeBecome, SafeReturn

(* ->runtime_resume() is called only when the parent was found active and  *)
(* could not be suspended since, because of the reference on it.           *)
LEMMA ResumeSafe ==
  ASSUME IInv, ParentInv, NEW a \in Actors, rpm_resume(a)
  PROVE  PowerMoves /\ StacksSafe
<1>1. Running(a, "resume")  BY DEF rpm_resume, Section
<1>2. PICK d \in Devices : d = Top(a).dev /\ power[d] \in PowerType  BY <1>1, AtTop
<1>3. /\ TypeOK /\ stack[a] # <<>> /\ Top(a) \in FrameType /\ Top(a).at = "resume"
      /\ Top(a) \in GoodFrame
  BY <1>1, AtTop
<1> DEFINE p == power[d]
           q == [p EXCEPT !.request = "NONE", !.timer = IF @ = "suspend" THEN "off" ELSE @]
           u == Parent[d]
<1>4. q \in PowerType /\ SamePower(p, q)
  <2>1. p \in PowerType  BY <1>2
  <2> QED  BY <2>1, ZenonT(30) DEF PowerType, Requests, SamePower
<1>5. \A active : ResumeOut(a, active) => StacksSafe  BY <1>1, SafeOut
<1>6. "resume_wait" \in AllAts /\ "resume_cb" \in AllAts  BY DEF AllAts, PlainAts
<1>7. CASE UNCHANGED power /\ ResumeOut(a, FALSE)  BY <1>5, <1>7, StillKept
<1>8. SetPower(d, q) => PowerMoves  BY <1>3, <1>4, SetPowerSame, SameKept
<1>9. CASE SetPower(d, q) /\ ResumeOut(a, TRUE)  BY <1>5, <1>8, <1>9
<1>10. CASE /\ SetPower(d, [q EXCEPT !.deferred = @ \/ p.status = "SUSPENDING"])
            /\ ResumeOut(a, FALSE)
  <2> DEFINE r == [q EXCEPT !.deferred = @ \/ p.status = "SUSPENDING"]
  <2>1. r.status = p.status /\ r.depth = p.depth
    <3> HIDE DEF q
    <3> QED  BY <1>4 DEF PowerType, SamePower
  <2>2. SetPower(d, r)  BY <1>10
  <2> HIDE DEF r
  <2> QED  BY <1>3, <1>5, <1>10, <2>1, <2>2, SetKept
<1>11. CASE SetPower(d, q) /\ Goto(a, "resume_wait")
  BY <1>1, <1>6, <1>8, <1>11, SafeGoto
<1>12. CASE SetPower(d, QueueRequest(q, "RESUME")) /\ ResumeOut(a, FALSE)
  <2>1. "RESUME" \in Requests  BY DEF Requests
  <2> HIDE DEF q
  <2>2. QueueRequest(q, "RESUME").status = p.status /\ QueueRequest(q, "RESUME").depth = p.depth
    BY <1>4, <2>1, QueueType DEF SamePower
  <2> QED  BY <1>3, <1>5, <1>12, <2>2, SetKept DEF q
<1>13. CASE /\ ~(p.depth > 0) /\ u # NULL
            /\ power' = [power EXCEPT ![d] = q, ![u].usage = @ + 1]
            /\ Become(a, [Top(a) EXCEPT !.at = "resume_parent", !.par = TRUE])
  <2>1. u \in Devices /\ u # d  BY <1>13, PMAssumption
  <2>2. power[u] \in PowerType  BY <1>3, <2>1 DEF TypeOK
  <2> DEFINE n == power[u].usage + 1
             v == [power[u] EXCEPT !.usage = n]
             g == [Top(a) EXCEPT !.at = "resume_parent", !.par = TRUE]
  <2>3. power'[d] = q /\ power'[u] = v /\ \A e \in Devices \ {d, u} : power'[e] = power[e]
    BY <1>3, <1>13, <2>1 DEF TypeOK
  <2> HIDE DEF n
  <2>4. v.status = power[u].status /\ v.depth = power[u].depth  BY <2>2 DEF PowerType
  <2> HIDE DEF v, q
  <2>5. StatusKept  BY <1>4, <2>1, <2>3, <2>4 DEF StatusKept, SamePower
  <2>6. power[u].depth = 0
    <3>1. p.depth = 0  BY <1>2, <1>13 DEF PowerType
    <3> QED  BY <1>13, <3>1 DEF ParentInv
  <2>7. /\ g \in FrameType /\ g.at = "resume_parent" /\ g.dev = d
    BY <1>2, <1>3 DEF FrameType
  <2>8. Become(a, g)  BY <1>13
  <2> HIDE DEF g
  <2>9. g \in SafeFrame  BY <2>6, <2>7 DEF SafeFrame
  <2> QED  BY <1>3, <2>5, <2>8, <2>9, KeptMoves, SafeBecome
<1>14. CASE /\ Quiet(p) /\ (u = NULL \/ Top(a).par)
            /\ SetPower(d, [q EXCEPT !.status = "RESUMING"]) /\ Goto(a, "resume_cb")
  <2> DEFINE r == [q EXCEPT !.status = "RESUMING"]
  <2>1. r.depth = p.depth /\ r.status = "RESUMING"
    <3> HIDE DEF q
    <3> QED  BY <1>4 DEF PowerType, SamePower
  <2>2. power'[d] = r /\ \A e \in Devices \ {d} : power'[e] = power[e]
    BY <1>3, <1>14 DEF TypeOK, SetPower
  <2> HIDE DEF r
  <2>3. \A e \in Devices : power'[e].depth = power[e].depth  BY <2>1, <2>2
  <2>4. p.status = "SUSPENDED"
    BY <1>2, <1>14 DEF Quiet, Changing, PowerType, Statuses
  <2>5. \A e \in Devices : power[e].status = "ACTIVE" => power'[e].status = "ACTIVE"
    BY <2>2, <2>4
  <2>6. \A e \in Devices \ {d} : power'[e].status = power[e].status  BY <2>2
  <2>7. ASSUME u # NULL, u \notin IgnoreChildren
        PROVE  power[u].status = "ACTIVE" /\ power'[u].status = "ACTIVE"
    <3>1. u \in Devices /\ u # d  BY <2>7, PMAssumption
    <3>2. power[u].status = "ACTIVE"
      BY <1>2, <1>3, <1>14, <2>7, SafeTop DEF SafeFrame
    <3> QED  BY <2>6, <3>1, <3>2
  <2>8. PowerMoves
    BY <2>3, <2>5, <2>6, <2>7 DEF PowerMoves
  <2> QED  BY <1>1, <1>6, <1>14, <2>8, SafeGoto
<1> QED
  BY <1>2, <1>7, <1>9, <1>10, <1>11, <1>12, <1>13, <1>14 DEF rpm_resume

LEMMA WorkParent ==
  ASSUME IInv, ParentInv, NEW d \in Devices, Worker(d) \/ pm_suspend_timer_fn(d)
  PROVE  PowerMoves /\ StacksSafe
<1>0. d \in Actors /\ SOFTIRQ \in Actors  BY DeviceActor
<1> DEFINE p == power[d]
<1>1. TypeOK /\ p \in PowerType  BY DEF IInv, TypeOK
<1>2. CASE work_start(d)
  <2> DEFINE q == [p EXCEPT !.work = "off"]
  <2>1. q.status = p.status /\ q.depth = p.depth  BY <1>1 DEF PowerType
  <2>2. PowerMoves  BY <1>1, <1>2, <2>1, SetKept DEF work_start
  <2>3. {"NOWAIT"} \in SUBSET (CallFlags \cup {"DISABLE", "CHECK_RESUME"}) /\ "work" \in NewAts
    BY DEF NewAts, CallFlags
  <2>4. Frame("work", d, {"NOWAIT"}) \in SafeFrame  BY <2>3, SafeNew
  <2>5. stack' = [stack EXCEPT ![d] = <<Frame("work", d, {"NOWAIT"})>>]  BY <1>2 DEF work_start
  <2> QED  BY <1>0, <2>2, <2>4, <2>5, SafeEnter
<1>3. CASE pm_runtime_work(d)
  <2>1. Running(d, "work")  BY <1>3 DEF pm_runtime_work, Section
  <2>2. stack[d] # <<>>  BY <2>1 DEF Running
  <2> DEFINE q == IF p.pending THEN [p EXCEPT !.request = "NONE", !.pending = FALSE] ELSE p
             f == Requested(d, p.request)
  <2>3. q.status = p.status /\ q.depth = p.depth  BY <1>1 DEF PowerType
  <2>4. SetPower(d, q) /\ (Return(d) \/ Become(d, f))  BY <1>3 DEF pm_runtime_work
  <2> HIDE DEF q
  <2>5. PowerMoves  BY <1>1, <2>3, <2>4, SetKept
  <2>6. f \in SafeFrame
    <3>1. /\ {"NOWAIT"} \in SUBSET (CallFlags \cup {"DISABLE", "CHECK_RESUME"})
          /\ {"NOWAIT", "AUTO"} \in SUBSET (CallFlags \cup {"DISABLE", "CHECK_RESUME"})
          /\ "idle" \in NewAts /\ "resume" \in NewAts /\ "suspend" \in NewAts
      BY DEF NewAts, CallFlags
    <3>2. PICK at \in NewAts, flags \in SUBSET (CallFlags \cup {"DISABLE", "CHECK_RESUME"}) :
            f = Frame(at, d, flags)
      BY <3>1 DEF Requested
    <3> QED  BY <3>2, SafeNew
  <2> HIDE DEF f
  <2> QED  BY <1>0, <2>2, <2>4, <2>5, <2>6, SafeReturn, SafeBecome
<1>4. CASE pm_suspend_timer_fn(d)
  <2> DEFINE q == [p EXCEPT !.timer = "off"]
             flags == IF p.timer = "auto" THEN {"ASYNC", "AUTO"} ELSE {"ASYNC"}
             f == Frame("suspend", d, flags)
  <2>1. q.status = p.status /\ q.depth = p.depth  BY <1>1 DEF PowerType
  <2>2. PowerMoves  BY <1>1, <1>4, <2>1, SetKept DEF pm_suspend_timer_fn
  <2>3. flags \in SUBSET (CallFlags \cup {"DISABLE", "CHECK_RESUME"}) /\ "suspend" \in NewAts
    BY DEF NewAts, CallFlags
  <2>4. stack' = [stack EXCEPT ![SOFTIRQ] = <<f>>]  BY <1>4 DEF pm_suspend_timer_fn
  <2> HIDE DEF flags
  <2>5. f \in SafeFrame  BY <2>3, SafeNew
  <2> HIDE DEF f
  <2> QED  BY <1>0, <2>2, <2>4, <2>5, SafeEnter
<1> QED  BY <1>2, <1>3, <1>4 DEF Worker

(* The calls a task makes.                                                 *)
LEMMA PutSafe ==
  ASSUME IInv, ParentInv, NEW t \in Tasks, NEW d \in Devices, NEW f \in SafeFrame,
         PutAndCall(t, d, f)
  PROVE  PowerMoves /\ StacksSafe
<1> DEFINE n == power[d].usage - 1
           q == [power[d] EXCEPT !.usage = n]
<1>0. t \in Actors /\ TypeOK /\ power[d] \in PowerType  BY DEF Actors, IInv, TypeOK
<1>1. SetPower(d, q)  BY <1>0 DEF PutAndCall, TypeOK, SetPower
<1> HIDE DEF n
<1>2. q.status = power[d].status /\ q.depth = power[d].depth  BY <1>0 DEF PowerType
<1>3. PowerMoves  BY <1>0, <1>1, <1>2, SetKept
<1>4. stack' = [stack EXCEPT ![t] = <<f>>] \/ UNCHANGED stack  BY DEF PutAndCall, Enter
<1> QED  BY <1>0, <1>3, <1>4, SafeEnter, SafeStill

LEMMA StartParent ==
  ASSUME IInv, ParentInv, "set_status" \notin Settings, NEW t \in Tasks, NEW d \in Devices,
         Start(t, d)
  PROVE  PowerMoves /\ StacksSafe
<1> DEFINE p == power[d]
           All == SUBSET (CallFlags \cup {"DISABLE", "CHECK_RESUME"})
<1>0. t \in Actors /\ TypeOK /\ p \in PowerType  BY DEF Actors, IInv, TypeOK
<1>1. /\ \A flags \in IdleFlags \cup SuspendFlags \cup ResumeFlags : flags \in All
      /\ {} \in All /\ {"AUTO"} \in All
      /\ "idle" \in NewAts /\ "suspend" \in NewAts /\ "resume" \in NewAts
  BY PMAssumption DEF CallFlags, NewAts
<1>2. \A at \in NewAts \cup DriverAts : \A flags \in All : Frame(at, d, flags) \in SafeFrame
  BY SafeNew
<1> HIDE DEF All
<1>3. CASE __pm_runtime_idle(t, d)
  <2>1. PICK flags \in IdleFlags :
          \/ PutAndCall(t, d, Frame("idle", d, flags))
          \/ Enter(t, Frame("idle", d, flags)) /\ UNCHANGED power
    BY <1>3 DEF __pm_runtime_idle
  <2>2. Frame("idle", d, flags) \in SafeFrame  BY <1>1, <1>2
  <2> QED  BY <1>0, <2>1, <2>2, PutSafe, SafeEnter, StillKept DEF Enter
<1>4. CASE __pm_runtime_suspend(t, d)
  <2>1. PICK flags \in SuspendFlags :
          \/ PutAndCall(t, d, Frame("suspend", d, flags))
          \/ Enter(t, Frame("suspend", d, flags)) /\ UNCHANGED power
    BY <1>4 DEF __pm_runtime_suspend
  <2>2. Frame("suspend", d, flags) \in SafeFrame  BY <1>1, <1>2
  <2> QED  BY <1>0, <2>1, <2>2, PutSafe, SafeEnter, StillKept DEF Enter
<1>5. CASE __pm_runtime_resume(t, d)
  <2>1. PICK flags \in ResumeFlags :
          /\ Enter(t, Frame("resume", d, flags))
          /\ power' = [power EXCEPT ![d].usage = @ + 1] \/ UNCHANGED power
    BY <1>5 DEF __pm_runtime_resume
  <2>2. Frame("resume", d, flags) \in SafeFrame  BY <1>1, <1>2
  <2> DEFINE n == p.usage + 1
             q == [p EXCEPT !.usage = n]
  <2>3. SetPower(d, q) \/ UNCHANGED power  BY <1>0, <2>1 DEF TypeOK, SetPower
  <2> HIDE DEF n
  <2>4. q.status = p.status /\ q.depth = p.depth  BY <1>0 DEF PowerType
  <2>5. PowerMoves  BY <1>0, <2>3, <2>4, SetKept, StillKept
  <2> QED  BY <1>0, <2>1, <2>2, <2>5, SafeEnter DEF Enter
<1>6. CASE pm_schedule_suspend(t, d)
  <2> DEFINE q == [pm_runtime_cancel_pending(p) EXCEPT !.timer = "suspend"]
  <2>1. q.status = p.status /\ q.depth = p.depth
    BY <1>0 DEF PowerType, pm_runtime_cancel_pending
  <2>2. SetPower(d, q) /\ UNCHANGED stack  BY <1>6 DEF pm_schedule_suspend
  <2> HIDE DEF q
  <2> QED  BY <1>0, <2>1, <2>2, SetKept, SafeStill
<1>7. CASE pm_runtime_forbid(t, d)
  <2> DEFINE n == p.usage + 1
             q == [p EXCEPT !.auto = FALSE, !.usage = n]
  <2>1. SetPower(d, q) /\ Enter(t, Frame("resume", d, {}))  BY <1>7 DEF pm_runtime_forbid
  <2> HIDE DEF n
  <2>2. q.status = p.status /\ q.depth = p.depth  BY <1>0 DEF PowerType
  <2> HIDE DEF q
  <2>3. Frame("resume", d, {}) \in SafeFrame  BY <1>1, <1>2
  <2> QED  BY <1>0, <2>1, <2>2, <2>3, SetKept, SafeEnter DEF Enter
<1>8. CASE pm_runtime_allow(t, d)
  <2> DEFINE n == p.usage - 1
             q == [p EXCEPT !.auto = TRUE, !.usage = n]
  <2>1. SetPower(d, q) /\ (Enter(t, Frame("idle", d, {"AUTO"})) \/ UNCHANGED stack)
    BY <1>8 DEF pm_runtime_allow
  <2> HIDE DEF n
  <2>2. q.status = p.status /\ q.depth = p.depth  BY <1>0 DEF PowerType
  <2> HIDE DEF q
  <2>3. Frame("idle", d, {"AUTO"}) \in SafeFrame  BY <1>1, <1>2
  <2> QED  BY <1>0, <2>1, <2>2, <2>3, SetKept, SafeEnter, SafeStill DEF Enter
<1>9. CASE update_autosuspend(t, d)
  <2>1. PICK new \in {"off", "on", "never"} \ {p.autosuspend} :
        \/ /\ SetPower(d, [p EXCEPT !.autosuspend = new, !.usage = @ + 1])
           /\ Enter(t, Frame("resume", d, {}))
        \/ /\ SetPower(d, [p EXCEPT !.autosuspend = new,
                             !.usage = IF p.autosuspend = "never" THEN @ - 1 ELSE @])
           /\ Enter(t, Frame("idle", d, {"AUTO"}))
    BY <1>9 DEF update_autosuspend
  <2>2. PICK n : SetPower(d, [p EXCEPT !.autosuspend = new, !.usage = n])
    BY <2>1
  <2> DEFINE q == [p EXCEPT !.autosuspend = new, !.usage = n]
  <2>3. q.status = p.status /\ q.depth = p.depth /\ SetPower(d, q)  BY <1>0, <2>2 DEF PowerType
  <2> HIDE DEF q
  <2>4. PowerMoves  BY <1>0, <2>3, SetKept
  <2>5. /\ Frame("resume", d, {}) \in SafeFrame /\ Frame("idle", d, {"AUTO"}) \in SafeFrame
    BY <1>1, <1>2
  <2> QED  BY <1>0, <2>1, <2>4, <2>5, SafeEnter DEF Enter
<1>10. CASE pm_runtime_disable(t, d)
  <2>1. PICK check \in {{}, {"CHECK_RESUME"}} :
          Enter(t, Frame("disable", d, {"DISABLE"} \cup check)) /\ UNCHANGED power
    BY <1>10 DEF pm_runtime_disable
  <2>2. {"DISABLE"} \cup check \in All /\ "disable" \in DriverAts  BY DEF All, DriverAts
  <2>3. Frame("disable", d, {"DISABLE"} \cup check) \in SafeFrame  BY <1>2, <2>2
  <2> QED  BY <1>0, <2>1, <2>3, StillKept, SafeEnter DEF Enter
<1>11. CASE pm_runtime_barrier(t, d)
  <2> DEFINE n == p.usage + 1
             q == [p EXCEPT !.usage = n]
  <2>1. SetPower(d, q)  BY <1>0, <1>11 DEF pm_runtime_barrier, TypeOK, SetPower
  <2> HIDE DEF n
  <2>2. q.status = p.status /\ q.depth = p.depth  BY <1>0 DEF PowerType
  <2> HIDE DEF q
  <2>3. "barrier_enter" \in DriverAts  BY DEF DriverAts, BarrierAts
  <2>4. Frame("barrier_enter", d, {}) \in SafeFrame  BY <1>1, <1>2, <2>3
  <2>5. Enter(t, Frame("barrier_enter", d, {}))  BY <1>11 DEF pm_runtime_barrier
  <2> QED  BY <1>0, <2>1, <2>2, <2>4, <2>5, SetKept, SafeEnter DEF Enter
<1> QED  BY <1>3, <1>4, <1>5, <1>6, <1>7, <1>8, <1>9, <1>10, <1>11
            DEF Start, __pm_runtime_set_status

(* A device is enabled below an enabled parent ...                         *)
LEMMA EnableParent ==
  ASSUME IInv, ParentInv, NEW t \in Tasks, NEW d \in Devices, MayEnable(t, d),
         pm_runtime_enable(t, d)
  PROVE  PowerMoves /\ StacksSafe
<1> DEFINE p == power[d]
           n == IF p.depth > 0 THEN p.depth - 1 ELSE p.depth
           q == [p EXCEPT !.depth = n]
<1>1. TypeOK /\ p \in PowerType  BY DEF IInv, TypeOK
<1>2. /\ Parent[d] # NULL => power[Parent[d]].depth = 0
      /\ SetPower(d, q) /\ UNCHANGED stack
  BY DEF pm_runtime_enable, MayEnable
<1>3. p.depth = 0 => n = 0  BY <1>1 DEF PowerType
<1> HIDE DEF n
<1>4. q.status = p.status /\ q.depth = n  BY <1>1 DEF PowerType
<1>5. power'[d] = q /\ \A e \in Devices \ {d} : power'[e] = power[e]
  BY <1>1, <1>2 DEF SetPower, TypeOK
<1> HIDE DEF q
<1>6. \A e \in Devices : power'[e].status = power[e].status  BY <1>4, <1>5
<1>7. \A e \in Devices : power[e].depth = 0 => power'[e].depth = 0  BY <1>3, <1>4, <1>5
<1>8. \A e \in Devices : Parent[e] # NULL /\ power[e].depth # 0 /\ power'[e].depth = 0
        => power[Parent[e]].depth = 0
  BY <1>2, <1>5
<1>9. \A e \in Devices : ~(power[e].status = "SUSPENDED" /\ power'[e].status # "SUSPENDED")
  BY <1>6
<1>10. PowerMoves  BY <1>6, <1>7, <1>8, <1>9 DEF PowerMoves
<1> QED  BY <1>2, <1>10, SafeStill

LEMMA ChildlessMoves ==
  ASSUME Childless, IInv, NEW t \in Tasks, stack[t] # <<>>, "DISABLE" \in Top(t).flags,
         NEW d \in Devices, d = Top(t).dev, NEW q, SetPower(d, q), q.status = power[d].status,
         q.depth # 0 \/ q.depth = power[d].depth
  PROVE  PowerMoves
<1>0. t \in Actors /\ TypeOK /\ StackInv  BY DEF Actors, IInv
<1>1. Top(t) \in GoodFrame  BY <1>0, TopType
<1>2. \A c \in Devices : Parent[c] # d  BY <1>1 DEF GoodFrame, Childless
<1>3. power'[d] = q /\ \A e \in Devices \ {d} : power'[e] = power[e]
  BY <1>0 DEF SetPower, TypeOK
<1>4. \A e \in Devices : power'[e].status = power[e].status  BY <1>3
<1>5. \A e \in Devices : ~(power[e].depth # 0 /\ power'[e].depth = 0)  BY <1>3
<1>6. \A u \in Devices : (\E c \in Devices : Parent[c] = u) => power'[u] = power[u]
  BY <1>2, <1>3
<1>7. \A e \in Devices : ~(power[e].status = "SUSPENDED" /\ power'[e].status # "SUSPENDED")
  BY <1>4
<1> QED  BY <1>4, <1>5, <1>6, <1>7 DEF PowerMoves

LEMMA DisableParent ==
  ASSUME Childless, IInv, ParentInv, NEW t \in Tasks,
         __pm_runtime_disable(t) \/ disable_resumed(t)
  PROVE  PowerMoves /\ StacksSafe
<1>0. t \in Actors  BY DEF Actors
<1>1. PICK at \in {"disable", "disable_resumed"} : Running(t, at)
  BY DEF __pm_runtime_disable, disable_resumed, Section
<1>2. PICK d \in Devices : d = Top(t).dev /\ power[d] \in PowerType  BY <1>0, <1>1, AtTop
<1> DEFINE p == power[d]
<1>3. TypeOK /\ StackInv /\ stack[t] # <<>> /\ Top(t).at = at  BY <1>0, <1>1, AtTop
<1>4. "DISABLE" \in Top(t).flags  BY <1>2, <1>3, DisableGoto
<1>5. p.depth \in Nat /\ p.depth + 1 # 0  BY <1>2 DEF PowerType
<1>6. /\ at \notin ResumeAts /\ "barrier" \in AllAts /\ "disable_resumed" \in AllAts
  BY DEF ResumeAts, AllAts, DriverAts, BarrierAts
<1>7. Goto(t, "barrier") \/ Return(t) => StacksSafe
  BY <1>0, <1>1, <1>3, <1>6, SafeGoto, SafeReturn
<1>8. CASE __pm_runtime_disable(t)
  <2>1. CASE /\ SetPower(d, [p EXCEPT !.usage = @ + 1])
             /\ Call(t, "disable_resumed", Frame("resume", d, {}))
    <3> DEFINE n == p.usage + 1
               q == [p EXCEPT !.usage = n]
    <3>1. SetPower(d, q)  BY <2>1
    <3> HIDE DEF n
    <3>2. q.status = p.status /\ q.depth = p.depth  BY <1>2 DEF PowerType
    <3> HIDE DEF q
    <3>3. PowerMoves  BY <1>2, <1>3, <1>4, <3>1, <3>2, ChildlessMoves
    <3>4. {} \in SUBSET (CallFlags \cup {"DISABLE", "CHECK_RESUME"}) /\ "resume" \in NewAts
      BY DEF NewAts
    <3>5. Frame("resume", d, {}) \in SafeFrame  BY <3>4, SafeNew
    <3>6. [Top(t) EXCEPT !.at = "disable_resumed"] \in SafeFrame
      BY <1>0, <1>1, <1>6, SafeFrameGoto
    <3> QED  BY <1>0, <1>3, <2>1, <3>3, <3>5, <3>6, SafeCall
  <2>2. CASE SetPower(d, [p EXCEPT !.depth = 1]) /\ Goto(t, "barrier")
    <3> DEFINE q == [p EXCEPT !.depth = 1]
    <3>1. q.status = p.status /\ q.depth # 0 /\ SetPower(d, q)  BY <1>2, <2>2 DEF PowerType
    <3> HIDE DEF q
    <3> QED  BY <1>2, <1>3, <1>4, <1>7, <2>2, <3>1, ChildlessMoves
  <2>3. CASE SetPower(d, [p EXCEPT !.depth = @ + 1]) /\ Return(t)
    <3> DEFINE n == p.depth + 1
               q == [p EXCEPT !.depth = n]
    <3>1. SetPower(d, q)  BY <2>3
    <3>2. n # 0  BY <1>5
    <3> HIDE DEF n
    <3>3. q.status = p.status /\ q.depth # 0  BY <1>2, <3>2 DEF PowerType
    <3> HIDE DEF q
    <3> QED  BY <1>2, <1>3, <1>4, <1>7, <2>3, <3>1, <3>3, ChildlessMoves
  <2> QED  BY <1>2, <1>8, <2>1, <2>2, <2>3 DEF __pm_runtime_disable
<1>9. CASE disable_resumed(t)
  <2> DEFINE n == p.usage - 1
             m == p.depth + 1
             q == [p EXCEPT !.usage = n, !.depth = m]
  <2>1. SetPower(d, q) /\ (Goto(t, "barrier") \/ Return(t))
    BY <1>2, <1>9 DEF disable_resumed
  <2>2. m # 0  BY <1>5
  <2> HIDE DEF n, m
  <2>3. q.status = p.status /\ q.depth # 0  BY <1>2, <2>2 DEF PowerType
  <2> HIDE DEF q
  <2> QED  BY <1>2, <1>3, <1>4, <1>7, <2>1, <2>3, ChildlessMoves
<1> QED  BY <1>8, <1>9

LEMMA BarrierParent ==
  ASSUME IInv, ParentInv, NEW t \in Tasks,
         \/ barrier_enter(t) \/ __pm_runtime_barrier(t) \/ cancel_work_sync(t)
         \/ barrier_cancelled(t) \/ barrier_wait(t)
  PROVE  PowerMoves /\ StacksSafe
<1>0. t \in Actors  BY DEF Actors
<1>1. PICK at \in BarrierAts : Running(t, at)
  BY DEF barrier_enter, __pm_runtime_barrier, cancel_work_sync, barrier_cancelled, barrier_wait,
         Section, BarrierAts
<1>2. PICK d \in Devices : d = Top(t).dev /\ power[d] \in PowerType  BY <1>0, <1>1, AtTop
<1> DEFINE p == power[d]
<1>3. TypeOK /\ stack[t] # <<>>  BY <1>0, <1>1, AtTop
<1>4. at \notin ResumeAts /\ \A to \in BarrierAts : to \in AllAts
  BY DEF ResumeAts, BarrierAts, AllAts, DriverAts
<1>5. \A to \in BarrierAts : Goto(t, to) => StacksSafe  BY <1>0, <1>1, <1>4, SafeGoto
<1>6. Return(t) => StacksSafe  BY <1>0, <1>3, SafeReturn
<1>7. {"barrier", "cancel", "cancelled", "barrier_wait"} \subseteq BarrierAts
  BY DEF BarrierAts
<1>8. CASE barrier_enter(t)
  <2>1. UNCHANGED power  BY <1>8 DEF barrier_enter
  <2>2. CASE Call(t, "barrier", Frame("resume", d, {}))
    <3>1. {} \in SUBSET (CallFlags \cup {"DISABLE", "CHECK_RESUME"}) /\ "resume" \in NewAts
      BY DEF NewAts
    <3>2. Frame("resume", d, {}) \in SafeFrame  BY <3>1, SafeNew
    <3>3. [Top(t) EXCEPT !.at = "barrier"] \in SafeFrame
      BY <1>0, <1>1, <1>4, <1>7, SafeFrameGoto
    <3> QED  BY <1>0, <1>3, <2>1, <2>2, <3>2, <3>3, SafeCall, StillKept
  <2>3. CASE Goto(t, "barrier")  BY <1>5, <1>7, <2>1, <2>3, StillKept
  <2> QED  BY <1>2, <1>8, <2>2, <2>3 DEF barrier_enter
<1>9. CASE __pm_runtime_barrier(t)
  <2> DEFINE q1 == [p EXCEPT !.timer = "off", !.request = "NONE"]
             q2 == [p EXCEPT !.timer = "off"]
  <2>1. /\ q1.status = p.status /\ q1.depth = p.depth
        /\ q2.status = p.status /\ q2.depth = p.depth
    BY <1>2 DEF PowerType
  <2>2. SetPower(d, q1) \/ SetPower(d, q2)  BY <1>2, <1>9 DEF __pm_runtime_barrier
  <2> HIDE DEF q1, q2
  <2>3. PowerMoves  BY <1>3, <2>1, <2>2, SetKept
  <2>4. Goto(t, "cancel") \/ Goto(t, "barrier_wait")  BY <1>9 DEF __pm_runtime_barrier
  <2> QED  BY <1>5, <1>7, <2>3, <2>4
<1>10. CASE cancel_work_sync(t)
  <2> DEFINE q == [p EXCEPT !.work = "grabbed"]
  <2>1. q.status = p.status /\ q.depth = p.depth  BY <1>2 DEF PowerType
  <2>2. SetPower(d, q) /\ Goto(t, "cancelled")  BY <1>2, <1>10 DEF cancel_work_sync
  <2> HIDE DEF q
  <2> QED  BY <1>3, <1>5, <1>7, <2>1, <2>2, SetKept
<1>11. CASE barrier_cancelled(t)
  <2> DEFINE q == [p EXCEPT !.work = "off", !.pending = FALSE,
                         !.swallowed = @ \/ p.request # "NONE"]
  <2>1. q.status = p.status /\ q.depth = p.depth  BY <1>2 DEF PowerType
  <2>2. SetPower(d, q) /\ Goto(t, "barrier_wait")  BY <1>2, <1>11 DEF barrier_cancelled
  <2> HIDE DEF q
  <2> QED  BY <1>3, <1>5, <1>7, <2>1, <2>2, SetKept
<1>12. CASE barrier_wait(t)
  <2>1. CASE UNCHANGED <<power, stack, disabled>>  BY <2>1, StillKept, SafeStill
  <2>2. CASE Return(t) /\ UNCHANGED <<power, asleep>>  BY <1>6, <2>2, StillKept
  <2>3. CASE SetPower(d, [p EXCEPT !.usage = @ - 1]) /\ Return(t)
    <3> DEFINE n == p.usage - 1
               q == [p EXCEPT !.usage = n]
    <3>1. SetPower(d, q)  BY <2>3
    <3> HIDE DEF n
    <3>2. q.status = p.status /\ q.depth = p.depth  BY <1>2 DEF PowerType
    <3> HIDE DEF q
    <3> QED  BY <1>3, <1>6, <2>3, <3>1, <3>2, SetKept
  <2> QED  BY <1>2, <1>12, <2>1, <2>2, <2>3 DEF barrier_wait
<1> QED  BY <1>8, <1>9, <1>10, <1>11, <1>12

LEMMA ParentInit == ASSUME Init PROVE ParentInv
<1>1. \A d \in Devices : power[d].status = "SUSPENDED" /\ power[d].depth = 1  BY DEF Init
<1>2. \A a \in Actors : stack[a] = <<>>  BY DEF Init
<1>3. \A S : <<>> \in Seq(S)  OBVIOUS
<1>4. \A a \in Actors : stack[a] \in Seq(SafeFrame)  BY <1>2, <1>3
<1>5. ParentActive  BY <1>1 DEF ParentActive
<1>6. \A d \in Devices : power[d].depth # 0  BY <1>1
<1> QED  BY <1>4, <1>5, <1>6 DEF ParentInv

LEMMA ParentNext ==
  ASSUME "set_status" \notin Settings, Childless, IInv, ParentInv, [Next]_vars
  PROVE  ParentInv'
<1>1. IInv'  BY INext
<1>2. PowerMoves /\ StacksSafe
  <2>1. ASSUME NEW a \in Actors, Run(a) PROVE PowerMoves /\ StacksSafe
    BY <2>1, IdleParent, NotifyParent, WokenParent, SuspendParent, SuspendDoneParent,
       SuspendFailedParent, ResumeSafe, ResumeParentSafe, ResumeParentRetSafe,
       ResumeDoneParent, ResumeFailedParent, ResumePutParent DEF Run
  <2>2. ASSUME NEW t \in Tasks, RunTask(t) PROVE PowerMoves /\ StacksSafe
    BY <2>2, DisableParent, BarrierParent DEF RunTask
  <2>3. ASSUME NEW d \in Devices, Worker(d) \/ pm_suspend_timer_fn(d)
        PROVE  PowerMoves /\ StacksSafe
    BY <2>3, WorkParent
  <2>4. ASSUME NEW t \in Tasks, NEW d \in Devices, MayEnable(t, d), pm_runtime_enable(t, d)
        PROVE  PowerMoves /\ StacksSafe
    BY <2>4, EnableParent
  <2>5. ASSUME NEW t \in Tasks, NEW d \in Targets, Start(t, d) PROVE PowerMoves /\ StacksSafe
    <3>1. d \in Devices  BY PMAssumption
    <3> QED  BY <2>5, <3>1, StartParent
  <2>6. CASE UNCHANGED vars
    <3>1. UNCHANGED power /\ UNCHANGED stack  BY <2>6 DEF vars
    <3> QED  BY <3>1, StillKept, SafeStill
  <2> QED  BY <2>1, <2>2, <2>3, <2>4, <2>5, <2>6 DEF Next
<1>3. \A a \in Actors : stack'[a] \in Seq(SafeFrame)  BY <1>2 DEF StacksSafe
<1> QED  BY <1>1, <1>2, <1>3, ParentStep

(* Unless drivers state a status by __pm_runtime_set_status (which lets a  *)
(* device be set active below a disabled parent) or disable a device that  *)
(* has children (whose resume then passes it by), no device is powered, or *)
(* being switched, below a parent that is not active: rpm_suspend's test   *)
(* of child_count and the reference rpm_resume takes on the parent, with   *)
(* the lock of neither held across both, are enough.                       *)
THEOREM ParentCorrect ==
  ASSUME "set_status" \notin Settings, Childless
  PROVE  Spec => []ParentActive
<1>1. Init => ParentInv  BY ParentInit
<1>2. IInv /\ ParentInv /\ [Next]_vars => ParentInv'  BY ParentNext
<1>3. ParentInv => ParentActive  BY DEF ParentInv
<1> QED  BY <1>1, <1>2, <1>3, Invariance, PTL DEF Spec

(***************************************************************************)
(* A disabled device.                                                      *)
(***************************************************************************)

(* Nothing new is begun, and disable_depth not raised from zero.           *)
Begun(p, q) == /\ q.pending => p.pending
               /\ q.timer # "off" => p.timer # "off"
               /\ q.idle => p.idle
Still(p, q) == Begun(p, q) /\ (q.depth # 0 => p.depth # 0)

(* What a step has to do.                                                  *)
QuietMoves == \A e \in Devices : power'[e].depth # 0 => Still(power[e], power'[e])
QuietSteps == \A e \in Devices : power'[e].depth # 0 => Begun(power[e], power'[e])
EitherQuiet == QuietFrame \cup QuietFrame'
StacksQuiet == \A b \in Actors : stack'[b] \in Seq(EitherQuiet)
Settled(e) == power'[e].depth # 0 => \/ Raising(e)'
                                     \/ power[e].depth # 0 /\ ~Raising(e)
                                     \/ AtRest(power'[e])
DisabledQuiet == \A e \in Devices : Settled(e)

(* A disable that has come to its barrier has raised disable_depth.        *)
Raised == \A a \in Actors : \A i \in 1 .. Len(stack[a]) :
            "DISABLE" \in stack[a][i].flags /\ stack[a][i].at \in BarrierAts
              => power[stack[a][i].dev].depth # 0

LEMMA DepthIsRaised == IInv => Raised
<1> SUFFICES ASSUME IInv, NEW a \in Actors, NEW i \in 1 .. Len(stack[a]),
                    "DISABLE" \in stack[a][i].flags, stack[a][i].at \in BarrierAts
             PROVE  power[stack[a][i].dev].depth # 0
  BY DEF Raised
<1>0. TypeOK /\ StackInv /\ stack \in Stacks  BY DEF IInv, TypeOK, Stacks
<1>1. \A d \in Devices : Count(DepthRaised(d)) \in Nat  BY <1>0, CountType DEF Count
<1>2. stack[a] \in Seq(FrameType) /\ Len(stack[a]) \in Nat
  BY <1>0, LenProperties DEF TypeOK
<1> DEFINE f == stack[a][i]
           j == Len(stack[a]) + 1 - i
           x == <<a, j>>
<1>3. f \in FrameType
  <2> HIDE DEF FrameType
  <2> QED  BY <1>2, ElementOfSeq
<1>4. j \in 1 .. Len(stack[a]) /\ Len(stack[a]) + 1 - j = i  BY <1>2
<1> HIDE DEF j
<1>5. x \in FramesOf(stack)  BY <1>4 DEF FramesOf
<1>6. FrameOf(stack, x) = f  BY <1>4 DEF FrameOf
<1>7. PICK d \in Devices : d = f.dev  BY <1>3 DEF FrameType
<1>8. f \in DepthRaised(d)  BY <1>3, <1>7 DEF DepthRaised
<1> HIDE DEF f, x
<1>9. CountedIn(stack, DepthRaised(d)) # {}  BY <1>5, <1>6, <1>8 DEF CountedIn
<1>10. Count(DepthRaised(d)) # 0
  <2>1. IsFiniteSet(CountedIn(stack, DepthRaised(d)))  BY <1>0, CountType
  <2> QED  BY <1>9, <2>1, FS_EmptySet DEF Count, CountIn
<1>11. power[d].depth >= Cardinality(Disablers(d)) + Count(DepthRaised(d))
  BY DEF IInv, DepthInv
<1>12. Cardinality(Disablers(d)) \in Nat  BY DisablersFinite, FS_CardinalityType
<1>13. power[d].depth \in Nat  BY <1>0 DEF TypeOK, PowerType
<1>14. power[d].depth # 0  BY <1>1, <1>10, <1>11, <1>12, <1>13
<1> QED  BY <1>7, <1>14 DEF f

LEMMA DisabledStep ==
  ASSUME IInv, IInv', QuietInv, QuietSteps, StacksQuiet, DisabledQuiet
  PROVE  QuietInv'
<1>1. Raised'  BY DepthIsRaised, PTL
<1>2. ASSUME NEW d \in Devices, power'[d].depth # 0 PROVE AtRest(power'[d]) \/ Raising(d)'
  <2>1. Begun(power[d], power'[d])  BY <1>2 DEF QuietSteps
  <2>2. AtRest(power[d]) \/ AtRest(power'[d]) \/ Raising(d)'
    BY <1>2 DEF DisabledQuiet, Settled, QuietInv
  <2> QED  BY <2>1, <2>2 DEF Begun, AtRest
<1>3. ASSUME NEW a \in Actors PROVE stack'[a] \in Seq(QuietFrame')
  <2>1. stack'[a] \in Seq(FrameType) /\ Len(stack'[a]) \in Nat
    BY LenProperties DEF IInv, TypeOK
  <2>2. stack'[a] \in Seq(EitherQuiet)  BY DEF StacksQuiet
  <2>3. ASSUME NEW i \in 1 .. Len(stack'[a]) PROVE stack'[a][i] \in QuietFrame'
    <3> DEFINE f == stack'[a][i]
    <3>1. f \in EitherQuiet
      <4> HIDE DEF EitherQuiet
      <4> QED  BY <2>2, <2>3, ElementOfSeq
    <3>2. "DISABLE" \in f.flags /\ f.at \in BarrierAts => power'[f.dev].depth # 0
      BY <1>1, <2>3 DEF Raised
    <3> HIDE DEF f
    <3>3. CASE f \in QuietFrame'  BY <3>3 DEF f
    <3>4. CASE f \in QuietFrame
      <4>1. f \in FrameType /\ f.dev \in Devices  BY <3>4 DEF QuietFrame, FrameType
      <4>2. SUFFICES ASSUME "DISABLE" \in f.flags
                     PROVE  /\ f.at \in QuietAts => power'[f.dev].timer = "off"
                            /\ f.at = "barrier_wait" => ~power'[f.dev].pending
        BY <4>1 DEF QuietFrame, f
      <4>3. f.at \in QuietAts => Begun(power[f.dev], power'[f.dev])
        BY <3>2, <4>1, <4>2 DEF QuietSteps, QuietAts, BarrierAts
      <4>4. "barrier_wait" \in QuietAts  BY DEF QuietAts
      <4> QED  BY <3>4, <4>2, <4>3, <4>4 DEF QuietFrame, Begun
    <3> QED  BY <3>1, <3>3, <3>4 DEF EitherQuiet
  <2> DEFINE s == stack'[a]
             O == QuietFrame'
  <2>4. s \in Seq(FrameType) /\ \A i \in 1 .. Len(s) : s[i] \in O  BY <2>1, <2>3
  <2> HIDE DEF s, O
  <2>5. s \in Seq(O)  BY <2>4, SeqDef
  <2> QED  BY <2>5 DEF s, O
<1> QED  BY <1>2, <1>3 DEF QuietInv, AtRest

LEMMA MovesAreSteps == QuietMoves => QuietSteps
BY DEF QuietMoves, QuietSteps, Still

(* Only the stack of a changes; if it was not in the barrier of a disable, *)
(* whoever was there still is.                                             *)
Alone(a) == \A b \in Actors \ {a} : stack'[b] = stack[b]

LEMMA AloneStack ==
  ASSUME IInv, NEW a \in Actors,
         \/ UNCHANGED stack \/ Return(a)
         \/ \E s : stack' = [stack EXCEPT ![a] = s]
         \/ \E f : Become(a, f)
         \/ \E at : Goto(a, at)
         \/ \E at, f : Call(a, at, f)
         \/ \E active : ResumeOut(a, active)
  PROVE  Alone(a)
<1>1. stack \in [Actors -> Seq(FrameType)]  BY DEF IInv, TypeOK
<1>2. CASE UNCHANGED stack  BY <1>2 DEF Alone
<1>3. CASE \E s : stack' = [stack EXCEPT ![a] = s]  BY <1>1, <1>3 DEF Alone
<1>4. CASE Return(a) \/ (\E f : Become(a, f)) \/ (\E at, f : Call(a, at, f))
  BY <1>3, <1>4 DEF Return, Become, Call
<1>5. CASE \E at : Goto(a, at)  BY <1>4, <1>5 DEF Goto
<1>6. CASE \E active : ResumeOut(a, active)  BY <1>4, <1>5, <1>6 DEF ResumeOut
<1> QED  BY <1>2, <1>3, <1>4, <1>5, <1>6

LEMMA SettledOne ==
  ASSUME NEW a \in Actors, NEW e \in Devices, Alone(a),
         power'[e].depth # 0 => power[e].depth # 0,
         stack[a] # <<>> /\ Top(a) \in DepthRaised(e) => Raising(e)' \/ AtRest(power'[e])
  PROVE  Settled(e)
<1> SUFFICES ASSUME power'[e].depth # 0, Raising(e) PROVE Raising(e)' \/ AtRest(power'[e])
  BY DEF Settled
<1>1. PICK t \in Tasks : stack[t] # <<>> /\ Top(t) \in DepthRaised(e)  BY DEF Raising
<1>2. CASE t = a  BY <1>1, <1>2
<1>3. CASE t # a
  <2>1. stack'[t] = stack[t]  BY <1>3 DEF Alone, Actors
  <2>2. stack'[t] # <<>> /\ Head(stack'[t]) \in DepthRaised(e)  BY <1>1, <2>1 DEF Top
  <2>3. Raising(e)'  BY <2>2 DEF Raising, Top, DepthRaised
  <2> QED  BY <2>3
<1> QED  BY <1>2, <1>3

LEMMA SettledMoves ==
  ASSUME QuietMoves, NEW a \in Actors, Alone(a),
         stack[a] = <<>> \/ Top(a).at \notin BarrierAts
  PROVE  DisabledQuiet
<1> SUFFICES ASSUME NEW e \in Devices PROVE Settled(e)  BY DEF DisabledQuiet
<1>1. power'[e].depth # 0 => power[e].depth # 0  BY DEF QuietMoves, Still
<1>2. ~(stack[a] # <<>> /\ Top(a) \in DepthRaised(e))  BY DEF DepthRaised
<1> QED  BY <1>1, <1>2, SettledOne

LEMMA RunAlone ==
  ASSUME IInv, NEW a \in Actors, Run(a)
  PROVE  Alone(a) /\ Top(a).at \notin BarrierAts
<1>1. CASE \/ rpm_idle(a) \/ runtime_idle(a) \/ rpm_idle_end(a) \/ rpm_suspend(a)
           \/ suspend_woken(a) \/ suspend_done(a) \/ suspend_failed(a) \/ suspend_notify(a)
  <2>1. Top(a).at \in {"idle", "idle_cb", "idle_end", "suspend", "suspend_wait", "suspend_cb",
                       "suspend_notify"}
    BY <1>1 DEF rpm_idle, runtime_idle, rpm_idle_end, rpm_suspend, suspend_woken, suspend_done,
         suspend_failed, suspend_notify, Section, Running
  <2>2. \/ UNCHANGED stack \/ Return(a) \/ \E f : Become(a, f)
        \/ \E at : Goto(a, at) \/ \E to, f : Call(a, to, f)
    BY <1>1 DEF rpm_idle, runtime_idle, rpm_idle_end, rpm_suspend, suspend_woken, suspend_done,
         suspend_failed, suspend_notify
  <2>3. Alone(a)  BY <2>2, AloneStack
  <2> QED  BY <2>1, <2>3 DEF BarrierAts
<1>2. CASE \/ rpm_resume(a) \/ resume_woken(a) \/ resume_parent(a) \/ resume_parent_ret(a)
           \/ resume_done(a) \/ resume_failed(a) \/ resume_put(a) \/ resume_put_idle(a)
  <2>1. Top(a).at \in {"resume", "resume_wait", "resume_parent", "resume_parent_ret",
                       "resume_cb", "resume_put", "resume_put_idle"}
    BY <1>2 DEF rpm_resume, resume_woken, resume_parent, resume_parent_ret, resume_done,
         resume_failed, resume_put, resume_put_idle, Section, Running
  <2>2. \/ UNCHANGED stack \/ Return(a) \/ \E f : Become(a, f)
        \/ \E at : Goto(a, at) \/ \E to, f : Call(a, to, f) \/ \E active : ResumeOut(a, active)
    <3>1. CASE rpm_resume(a)
      <4>1. \/ ResumeOut(a, TRUE) \/ ResumeOut(a, FALSE) \/ Goto(a, "resume_wait")
            \/ Goto(a, "resume_cb")
            \/ Become(a, [Top(a) EXCEPT !.at = "resume_parent", !.par = TRUE])
        BY <3>1 DEF rpm_resume
      <4> QED  BY <4>1
    <3>2. CASE resume_woken(a) \/ resume_parent(a) \/ resume_parent_ret(a)
      BY <3>2 DEF resume_woken, resume_parent, resume_parent_ret
    <3>3. CASE resume_done(a) \/ resume_failed(a)
      <4>1. ResumeOut(a, TRUE) \/ ResumeOut(a, FALSE)  BY <3>3 DEF resume_done, resume_failed
      <4> QED  BY <4>1
    <3>4. CASE resume_put(a) \/ resume_put_idle(a)
      BY <3>4 DEF resume_put, resume_put_idle
    <3> QED  BY <1>2, <3>1, <3>2, <3>3, <3>4
  <2>3. Alone(a)  BY <2>2, AloneStack
  <2> QED  BY <2>1, <2>3 DEF BarrierAts
<1> QED  BY <1>1, <1>2 DEF Run

(* The stacks.                                                             *)
LEMMA QuietPut ==
  ASSUME IInv, QuietInv, NEW a \in Actors, NEW s \in Seq(EitherQuiet),
         stack' = [stack EXCEPT ![a] = s]
  PROVE  StacksQuiet
<1>1. stack \in [Actors -> Seq(FrameType)]  BY DEF IInv, TypeOK
<1>2. \A b \in Actors : stack[b] \in Seq(EitherQuiet)
  <2> DEFINE O == QuietFrame
             E == EitherQuiet
  <2>1. O \subseteq E /\ \A b \in Actors : stack[b] \in Seq(O)  BY DEF EitherQuiet, QuietInv
  <2> HIDE DEF O, E
  <2>2. \A b \in Actors : stack[b] \in Seq(E)  BY <2>1, SeqDef
  <2> QED  BY <2>2 DEF E
<1> HIDE DEF EitherQuiet
<1> QED  BY <1>1, <1>2 DEF StacksQuiet

LEMMA QuietTop ==
  ASSUME QuietInv, NEW a \in Actors, stack[a] # <<>>
  PROVE  Top(a) \in QuietFrame /\ Tail(stack[a]) \in Seq(EitherQuiet)
<1> DEFINE O == QuietFrame
           E == EitherQuiet
<1>1. O \subseteq E /\ stack[a] \in Seq(O)  BY DEF EitherQuiet, QuietInv
<1> HIDE DEF O, E
<1>2. Top(a) \in O /\ Tail(stack[a]) \in Seq(O)  BY <1>1, HeadTailProperties DEF Top
<1>3. Tail(stack[a]) \in Seq(E)  BY <1>1, <1>2, SeqDef
<1> QED  BY <1>2, <1>3 DEF O, E

LEMMA QuietStill == ASSUME IInv, QuietInv, UNCHANGED stack PROVE StacksQuiet
<1> DEFINE O == QuietFrame
           E == EitherQuiet
<1>1. O \subseteq E /\ \A b \in Actors : stack[b] \in Seq(O)  BY DEF EitherQuiet, QuietInv
<1> HIDE DEF O, E
<1>2. \A b \in Actors : stack'[b] \in Seq(E)  BY <1>1, SeqDef
<1> QED  BY <1>2 DEF E, StacksQuiet

LEMMA QuietReturn ==
  ASSUME IInv, QuietInv, NEW a \in Actors, stack[a] # <<>>, Return(a)
  PROVE  StacksQuiet
<1>1. stack' = [stack EXCEPT ![a] = Tail(stack[a])]  BY DEF Return
<1> QED  BY <1>1, QuietTop, QuietPut

LEMMA QuietBecome ==
  ASSUME IInv, QuietInv, NEW a \in Actors, stack[a] # <<>>, NEW f \in EitherQuiet, Become(a, f)
  PROVE  StacksQuiet
<1>1. Tail(stack[a]) \in Seq(EitherQuiet)  BY QuietTop
<1>2. <<f>> \o Tail(stack[a]) \in Seq(EitherQuiet)
  <2> HIDE DEF EitherQuiet
  <2> QED  BY <1>1
<1>3. stack' = [stack EXCEPT ![a] = <<f>> \o Tail(stack[a])]  BY DEF Become
<1> QED  BY <1>2, <1>3, QuietPut

LEMMA QuietCall ==
  ASSUME IInv, QuietInv, NEW a \in Actors, stack[a] # <<>>, NEW f \in EitherQuiet, NEW at,
         [Top(a) EXCEPT !.at = at] \in EitherQuiet, Call(a, at, f)
  PROVE  StacksQuiet
<1> DEFINE g == [Top(a) EXCEPT !.at = at]
<1>1. Tail(stack[a]) \in Seq(EitherQuiet)  BY QuietTop
<1>2. g \in EitherQuiet  OBVIOUS
<1>3. stack' = [stack EXCEPT ![a] = <<f, g>> \o Tail(stack[a])]  BY DEF Call
<1> HIDE DEF g
<1>4. <<f, g>> \o Tail(stack[a]) \in Seq(EitherQuiet)
  <2> HIDE DEF EitherQuiet
  <2> QED  BY <1>1, <1>2
<1> QED  BY <1>3, <1>4, QuietPut

LEMMA QuietEnter ==
  ASSUME IInv, QuietInv, NEW a \in Actors, NEW f \in EitherQuiet,
         stack' = [stack EXCEPT ![a] = <<f>>]
  PROVE  StacksQuiet
<1>1. <<f>> \in Seq(EitherQuiet)
  <2> HIDE DEF EitherQuiet
  <2> QED  OBVIOUS
<1> QED  BY <1>1, QuietPut

(* Frames of other functions.                                              *)
LEMMA OutsideQuiet ==
  ASSUME NEW f \in FrameType, f.at \notin QuietAts
  PROVE  f \in EitherQuiet
BY DEF QuietFrame, EitherQuiet, QuietAts

LEMMA QuietNew ==
  ASSUME NEW at \in NewAts \cup {"disable", "barrier_enter"}, NEW d \in Devices,
         NEW flags \in SUBSET (CallFlags \cup {"DISABLE", "CHECK_RESUME"})
  PROVE  Frame(at, d, flags) \in EitherQuiet
<1>1. Frame(at, d, flags) \in FrameType /\ Frame(at, d, flags).at \notin QuietAts
  BY DEF NewAts, CallFlags, Frame, FrameType, QuietAts
<1> QED  BY <1>1, OutsideQuiet

(* Any function may call rpm_resume() without flags.                       *)
LEMMA QuietResume ==
  ASSUME NEW d \in Devices
  PROVE  Frame("resume", d, {}) \in EitherQuiet
<1>1. {} \in SUBSET (CallFlags \cup {"DISABLE", "CHECK_RESUME"}) /\ "resume" \in NewAts
  BY DEF NewAts
<1> QED  BY <1>1, QuietNew

LEMMA QuietFrameGoto ==
  ASSUME IInv, NEW a \in Actors, NEW at, Running(a, at), NEW to \in AllAts \ QuietAts
  PROVE  [Top(a) EXCEPT !.at = to] \in EitherQuiet
<1> DEFINE f == Top(a)
           g == [f EXCEPT !.at = to]
<1>1. f \in FrameType  BY AtTop
<1>2. g \in FrameType /\ g.at = to
  BY <1>1 DEF FrameType, AllAts, PlainAts, DriverAts, BarrierAts
<1> HIDE DEF f, g
<1>3. g \in EitherQuiet  BY <1>2, OutsideQuiet
<1> QED  BY <1>3 DEF f, g

LEMMA QuietGoto ==
  ASSUME IInv, QuietInv, NEW a \in Actors, NEW at, Running(a, at), NEW to \in AllAts \ QuietAts,
         Goto(a, to)
  PROVE  StacksQuiet
<1>1. [Top(a) EXCEPT !.at = to] \in EitherQuiet  BY QuietFrameGoto
<1>2. Become(a, [Top(a) EXCEPT !.at = to])  BY DEF Goto
<1>3. stack[a] # <<>>  BY DEF Running
<1> QED  BY <1>1, <1>2, <1>3, QuietBecome

LEMMA QuietOut ==
  ASSUME IInv, QuietInv, NEW a \in Actors, NEW at, Running(a, at), NEW active,
         ResumeOut(a, active)
  PROVE  StacksQuiet
<1>1. Goto(a, "resume_put") \/ Return(a)  BY DEF ResumeOut
<1>2. "resume_put" \in AllAts \ QuietAts  BY DEF AllAts, PlainAts, QuietAts
<1>3. stack[a] # <<>>  BY DEF Running
<1> QED  BY <1>1, <1>2, <1>3, QuietGoto, QuietReturn

(* The powers.                                                             *)
LEMMA QuietSet ==
  ASSUME IInv, NEW d \in Devices, NEW q, SetPower(d, q), q.depth # 0 => Still(power[d], q)
  PROVE  QuietMoves
<1>1. power'[d] = q /\ \A e \in Devices \ {d} : power'[e] = power[e]
  BY DEF IInv, TypeOK, SetPower
<1>2. \A e \in Devices : Still(power[e], power[e])  BY DEF Still, Begun
<1> QED  BY <1>1, <1>2 DEF QuietMoves

LEMMA QuietSame == ASSUME UNCHANGED power PROVE QuietMoves
BY DEF QuietMoves, Still, Begun

(* A device whose runtime PM is disabled gets no idle request.             *)
LEMMA IdleAsyncQuiet ==
  ASSUME NEW p \in PowerType, NEW d \in Devices
  PROVE  rpm_idle_async(p, d).depth # 0 => Still(p, rpm_idle_async(p, d))
<1>1. CASE MayNotify(p, d)
  <2>1. p.depth = 0  BY <1>1 DEF MayNotify, SuspendDenied, PowerType
  <2>2. rpm_idle_async(p, d).depth = p.depth  BY IdleAsyncType DEF SamePower
  <2> QED  BY <2>1, <2>2
<1>2. CASE ~MayNotify(p, d)
  <2>1. rpm_idle_async(p, d) = p  BY <1>2 DEF rpm_idle_async
  <2> QED  BY <2>1 DEF Still, Begun
<1> QED  BY <1>1, <1>2

LEMMA CancelQuiet ==
  ASSUME NEW p \in PowerType
  PROVE  Still(p, pm_runtime_cancel_pending(p))
BY DEF PowerType, pm_runtime_cancel_pending, Still, Begun

(* The actions of the rpm_ functions.                                      *)
LEMMA IdleQuiet ==
  ASSUME IInv, QuietInv, NEW a \in Actors, rpm_idle(a) \/ runtime_idle(a) \/ rpm_idle_end(a)
  PROVE  QuietMoves /\ StacksQuiet
<1>0. {"idle_cb", "idle_end"} \subseteq AllAts \ QuietAts  BY DEF AllAts, PlainAts, QuietAts
<1>1. CASE rpm_idle(a)
  <2>1. Running(a, "idle")  BY <1>1 DEF rpm_idle, Section
  <2>2. PICK d \in Devices : d = Top(a).dev /\ power[d] \in PowerType  BY <2>1, AtTop
  <2>3. stack[a] # <<>>  BY <2>1, AtTop
  <2>4. CASE SetPower(d, rpm_idle_async(power[d], d)) /\ Return(a)
    <3>1. QuietMoves  BY <2>2, <2>4, IdleAsyncQuiet, QuietSet
    <3> QED  BY <2>3, <2>4, <3>1, QuietReturn
  <2>5. CASE UNCHANGED power /\ Return(a)  BY <2>3, <2>5, QuietSame, QuietReturn
  <2>6. CASE /\ MayNotify(power[d], d)
             /\ SetPower(d, [power[d] EXCEPT !.request = "NONE", !.idle = TRUE])
             /\ Goto(a, "idle_cb")
    <3> DEFINE q == [power[d] EXCEPT !.request = "NONE", !.idle = TRUE]
    <3>1. q.depth = 0  BY <2>2, <2>6 DEF PowerType, MayNotify, SuspendDenied
    <3>2. SetPower(d, q)  BY <2>6
    <3> HIDE DEF q
    <3>3. QuietMoves  BY <3>1, <3>2, QuietSet
    <3> QED  BY <1>0, <2>1, <2>6, <3>3, QuietGoto
  <2> QED  BY <1>1, <2>2, <2>4, <2>5, <2>6 DEF rpm_idle
<1>2. CASE runtime_idle(a)
  <2>1. Running(a, "idle_cb") /\ UNCHANGED power  BY <1>2 DEF runtime_idle
  <2>2. PICK d \in Devices : d = Top(a).dev  BY <2>1, AtTop
  <2>3. QuietMoves  BY <2>1, QuietSame
  <2>4. CASE Goto(a, "idle_end")  BY <1>0, <2>1, <2>3, <2>4, QuietGoto
  <2>5. ASSUME NEW flags \in CallbackFlags, Call(a, "idle_end", Frame("suspend", d, flags))
        PROVE  StacksQuiet
    <3>1. flags \in SUBSET (CallFlags \cup {"DISABLE", "CHECK_RESUME"}) /\ "suspend" \in NewAts
      BY PMAssumption DEF CallFlags, NewAts
    <3>2. Frame("suspend", d, flags) \in EitherQuiet  BY <3>1, QuietNew
    <3>3. [Top(a) EXCEPT !.at = "idle_end"] \in EitherQuiet  BY <1>0, <2>1, QuietFrameGoto
    <3>4. stack[a] # <<>>  BY <2>1 DEF Running
    <3> QED  BY <2>5, <3>2, <3>3, <3>4, QuietCall
  <2> QED  BY <1>2, <2>2, <2>3, <2>4, <2>5 DEF runtime_idle
<1>3. CASE rpm_idle_end(a)
  <2>1. Running(a, "idle_end")  BY <1>3 DEF rpm_idle_end, Section
  <2>2. PICK d \in Devices : d = Top(a).dev /\ power[d] \in PowerType  BY <2>1, AtTop
  <2>3. stack[a] # <<>>  BY <2>1, AtTop
  <2> DEFINE q == [power[d] EXCEPT !.idle = FALSE, !.unwoken = FALSE]
  <2>4. Still(power[d], q)  BY <2>2 DEF PowerType, Still, Begun
  <2>5. SetPower(d, q) /\ Return(a)  BY <1>3, <2>2 DEF rpm_idle_end
  <2> HIDE DEF q
  <2>6. QuietMoves  BY <2>4, <2>5, QuietSet
  <2> QED  BY <2>3, <2>5, <2>6, QuietReturn
<1> QED  BY <1>1, <1>2, <1>3

LEMMA NotifyQuiet ==
  ASSUME IInv, QuietInv, NEW a \in Actors, suspend_notify(a) \/ resume_put_idle(a)
  PROVE  QuietMoves /\ StacksQuiet
<1>1. PICK at \in {"suspend_notify", "resume_put_idle"} : Running(a, at)
  BY DEF suspend_notify, resume_put_idle, Section
<1>2. TypeOK /\ stack[a] # <<>> /\ Top(a) \in GoodFrame /\ Top(a).at = at  BY <1>1, AtTop
<1>3. PICK u \in Devices : u = Parent[Top(a).dev] /\ power[u] \in PowerType
  BY <1>1, <1>2, PMAssumption DEF GoodFrame, FrameType, TypeOK
<1>4. SetPower(u, rpm_idle_async(power[u], u)) /\ Return(a)
  BY <1>3 DEF suspend_notify, resume_put_idle
<1>5. QuietMoves  BY <1>3, <1>4, IdleAsyncQuiet, QuietSet
<1> QED  BY <1>2, <1>4, <1>5, QuietReturn

LEMMA WokenQuiet ==
  ASSUME IInv, QuietInv, NEW a \in Actors, suspend_woken(a) \/ resume_woken(a)
  PROVE  QuietMoves /\ StacksQuiet
<1>0. {"suspend", "resume"} \subseteq AllAts \ QuietAts  BY DEF AllAts, PlainAts, QuietAts
<1>1. QuietMoves  BY QuietSame DEF suspend_woken, resume_woken
<1>2. CASE UNCHANGED stack  BY <1>1, <1>2, QuietStill
<1>3. CASE Running(a, "suspend_wait") /\ Goto(a, "suspend")  BY <1>0, <1>1, <1>3, QuietGoto
<1>4. CASE Running(a, "resume_wait") /\ Goto(a, "resume")  BY <1>0, <1>1, <1>4, QuietGoto
<1> QED  BY <1>2, <1>3, <1>4 DEF suspend_woken, resume_woken, Section

(* rpm_suspend() does nothing for a disabled device.                       *)
LEMMA SuspendQuiet ==
  ASSUME IInv, QuietInv, NEW a \in Actors, rpm_suspend(a)
  PROVE  QuietMoves /\ StacksQuiet
<1>0. {"suspend_wait", "suspend_cb"} \subseteq AllAts \ QuietAts
  BY DEF AllAts, PlainAts, QuietAts
<1>1. Running(a, "suspend")  BY DEF rpm_suspend, Section
<1>2. PICK d \in Devices : d = Top(a).dev /\ power[d] \in PowerType  BY <1>1, AtTop
<1>3. TypeOK /\ stack[a] # <<>>  BY <1>1, AtTop
<1>4. \/ Return(a) \/ Goto(a, "suspend_wait") \/ Goto(a, "suspend_cb")  BY DEF rpm_suspend
<1>5. StacksQuiet  BY <1>0, <1>1, <1>3, <1>4, QuietReturn, QuietGoto
<1>6. CASE UNCHANGED power  BY <1>5, <1>6, QuietSame
<1> DEFINE p == power[d]
           q == pm_runtime_cancel_pending(p)
           req == IF "AUTO" \in Top(a).flags THEN "AUTOSUSPEND" ELSE "SUSPEND"
           q1 == [p EXCEPT !.request = "NONE", !.timer = "auto"]
           q2 == [q EXCEPT !.deferred = FALSE]
           q3 == QueueRequest(q2, req)
           q4 == [q EXCEPT !.deferred = FALSE, !.status = "SUSPENDING"]
<1>7. CASE SuspendGoes(a)
  <2>1. p.depth = 0
    BY <1>2, <1>7 DEF SuspendGoes, rpm_check_suspend_allowed, SuspendDenied, PowerType
  <2>2. q1.depth = p.depth  BY <1>2 DEF PowerType
  <2>3. q \in PowerType /\ q.depth = p.depth  BY <1>2, CancelType DEF SamePower
  <2>4. \/ SetPower(d, q) \/ SetPower(d, q1) \/ SetPower(d, q3) \/ SetPower(d, q4)
    BY <1>2, <1>7 DEF rpm_suspend
  <2> HIDE DEF q, q1
  <2>5. q2.depth = q.depth /\ q4.depth = q.depth /\ q2 \in PowerType
    BY <2>3 DEF PowerType
  <2>6. req \in Requests  BY DEF Requests
  <2> HIDE DEF q2, req
  <2>7. q3.depth = q2.depth  BY <2>5, <2>6, QueueType DEF SamePower
  <2> HIDE DEF q3, q4
  <2>8. q.depth = 0 /\ q1.depth = 0 /\ q3.depth = 0 /\ q4.depth = 0
    BY <2>1, <2>2, <2>3, <2>5, <2>7
  <2>9. QuietMoves  BY <2>4, <2>8, QuietSet
  <2> QED  BY <1>5, <2>9
<1> QED  BY <1>6, <1>7 DEF rpm_suspend

LEMMA SuspendEndQuiet ==
  ASSUME IInv, QuietInv, NEW a \in Actors, suspend_done(a) \/ suspend_failed(a)
  PROVE  QuietMoves /\ StacksQuiet
<1>0. {"suspend_notify", "suspend"} \subseteq AllAts \ QuietAts
  BY DEF AllAts, PlainAts, QuietAts
<1>1. Running(a, "suspend_cb")  BY DEF suspend_done, suspend_failed, Section
<1>2. PICK d \in Devices : d = Top(a).dev /\ power[d] \in PowerType  BY <1>1, AtTop
<1>3. TypeOK /\ stack[a] # <<>>  BY <1>1, AtTop
<1>4. /\ \/ Return(a) \/ Goto(a, "suspend_notify") \/ Goto(a, "suspend")
         \/ Become(a, Frame("resume", d, {}))
  BY <1>2 DEF suspend_done, suspend_failed
<1>5. StacksQuiet
  BY <1>0, <1>1, <1>3, <1>4, QuietReturn, QuietGoto, QuietBecome, QuietResume
<1>6. CASE suspend_done(a)
  <2> DEFINE p == [power[d] EXCEPT !.error = FALSE, !.status = "SUSPENDED", !.timer = "off",
                            !.unwoken = FALSE]
             u == Parent[d]
  <2>1. power' = [e \in Devices |-> IF e = d THEN p
                      ELSE IF e = u /\ power[e].children > 0
                      THEN [power[e] EXCEPT !.children = @ - 1]
                      ELSE power[e]]
    BY <1>2, <1>6 DEF suspend_done
  <2>2. Still(power[d], p)  BY <1>2 DEF PowerType, Still, Begun
  <2> HIDE DEF p
  <2>3. ASSUME NEW e \in Devices \ {d} PROVE Still(power[e], power'[e])
    <3>1. power[e] \in PowerType  BY <1>3 DEF TypeOK
    <3>2. PICK n : power'[e] = power[e] \/ power'[e] = [power[e] EXCEPT !.children = n]
      BY <2>1
    <3> QED  BY <3>1, <3>2 DEF PowerType, Still, Begun
  <2>4. power'[d] = p  BY <2>1
  <2>5. QuietMoves  BY <2>2, <2>3, <2>4 DEF QuietMoves
  <2> QED  BY <1>5, <2>5
<1>7. CASE suspend_failed(a)
  <2> DEFINE p == [power[d] EXCEPT !.status = "ACTIVE", !.deferred = FALSE, !.unwoken = FALSE]
             o == [p EXCEPT !.error = TRUE]
             q0 == [p EXCEPT !.error = FALSE, !.unwoken = TRUE]
             q1 == [p EXCEPT !.error = FALSE]
             q2 == pm_runtime_cancel_pending(o)
             q3 == pm_runtime_cancel_pending(p)
  <2>1. p \in PowerType /\ Still(power[d], p)  BY <1>2, ZenonT(60) DEF PowerType, Statuses, Still, Begun
  <2>2. SetPower(d, q0) \/ SetPower(d, q1) \/ SetPower(d, q2) \/ SetPower(d, q3)
    BY <1>2, <1>7 DEF suspend_failed
  <2> HIDE DEF p
  <2>3. o \in PowerType /\ Still(p, o) /\ Still(p, q0) /\ Still(p, q1)
    BY <2>1 DEF PowerType, Still, Begun
  <2> HIDE DEF o, q0, q1
  <2>4. Still(o, q2) /\ Still(p, q3)  BY <2>1, <2>3, CancelQuiet
  <2> HIDE DEF q2, q3
  <2>5. Still(power[d], q0) /\ Still(power[d], q1) /\ Still(power[d], q2) /\ Still(power[d], q3)
    BY <2>1, <2>3, <2>4 DEF Still, Begun
  <2>6. QuietMoves  BY <2>2, <2>5, QuietSet
  <2> QED  BY <1>5, <2>6
<1> QED  BY <1>6, <1>7

LEMMA ResumeQuiet ==
  ASSUME IInv, QuietInv, NEW a \in Actors, rpm_resume(a)
  PROVE  QuietMoves /\ StacksQuiet
<1>0. {"resume_wait", "resume_cb"} \subseteq AllAts \ QuietAts  BY DEF AllAts, PlainAts, QuietAts
<1>1. Running(a, "resume")  BY DEF rpm_resume, Section
<1>2. PICK d \in Devices : d = Top(a).dev /\ power[d] \in PowerType  BY <1>1, AtTop
<1>3. TypeOK /\ stack[a] # <<>> /\ Top(a) \in FrameType  BY <1>1, AtTop
<1> DEFINE p == power[d]
           q == [p EXCEPT !.request = "NONE", !.timer = IF @ = "suspend" THEN "off" ELSE @]
           q1 == [q EXCEPT !.deferred = @ \/ p.status = "SUSPENDING"]
           q2 == QueueRequest(q, "RESUME")
           q3 == [q EXCEPT !.status = "RESUMING"]
           u == Parent[d]
           g == [Top(a) EXCEPT !.at = "resume_parent", !.par = TRUE]
<1>4. \/ ResumeOut(a, TRUE) \/ ResumeOut(a, FALSE) \/ Goto(a, "resume_wait")
      \/ Goto(a, "resume_cb") \/ Become(a, g)
  BY DEF rpm_resume
<1>5. g \in FrameType /\ g.at \notin QuietAts  BY <1>3 DEF FrameType, QuietAts
<1> HIDE DEF g
<1>6. StacksQuiet
  BY <1>0, <1>1, <1>3, <1>4, <1>5, QuietOut, QuietGoto, QuietBecome, OutsideQuiet
<1>7. CASE UNCHANGED power  BY <1>6, <1>7, QuietSame
<1>8. CASE /\ p.depth = 0
           /\ \/ SetPower(d, q) \/ SetPower(d, q1) \/ SetPower(d, q2) \/ SetPower(d, q3)
  <2>1. q \in PowerType /\ q.depth = p.depth
    <3>1. p \in PowerType  BY <1>2
    <3> QED  BY <3>1 DEF PowerType, Requests
  <2> HIDE DEF q
  <2>2. q1.depth = q.depth /\ q3.depth = q.depth  BY <2>1 DEF PowerType
  <2>3. "RESUME" \in Requests  BY DEF Requests
  <2>4. q2.depth = q.depth  BY <2>1, <2>3, QueueType DEF SamePower
  <2> HIDE DEF q1, q2, q3
  <2>5. q.depth = 0 /\ q1.depth = 0 /\ q2.depth = 0 /\ q3.depth = 0
    BY <1>8, <2>1, <2>2, <2>4
  <2>6. QuietMoves  BY <1>8, <2>5, QuietSet
  <2> QED  BY <1>6, <2>6
<1>9. CASE p.depth = 0 /\ u # NULL /\ power' = [power EXCEPT ![d] = q, ![u].usage = @ + 1]
  <2>1. u \in Devices /\ u # d  BY <1>9, PMAssumption
  <2>2. power[u] \in PowerType  BY <1>3, <2>1 DEF TypeOK
  <2> DEFINE n == power[u].usage + 1
             v == [power[u] EXCEPT !.usage = n]
  <2>3. power'[d] = q /\ power'[u] = v /\ \A e \in Devices \ {d, u} : power'[e] = power[e]
    BY <1>3, <1>9, <2>1 DEF TypeOK
  <2> HIDE DEF n
  <2>4. Still(power[u], v)  BY <2>2 DEF PowerType, Still, Begun
  <2>5. q.depth = 0  BY <1>2, <1>9 DEF PowerType
  <2> HIDE DEF v, q
  <2>6. \A e \in Devices : Still(power[e], power[e])  BY DEF Still, Begun
  <2>7. QuietMoves  BY <2>3, <2>4, <2>5, <2>6 DEF QuietMoves
  <2> QED  BY <1>6, <2>7
<1>10. p.depth = 0 \/ p.depth > 0  BY <1>2 DEF PowerType
<1> QED  BY <1>2, <1>7, <1>8, <1>9, <1>10 DEF rpm_resume

LEMMA ResumeParentQuiet ==
  ASSUME IInv, QuietInv, NEW a \in Actors, resume_parent(a) \/ resume_parent_ret(a)
  PROVE  QuietMoves /\ StacksQuiet
<1>0. {"resume", "resume_put", "resume_parent_ret"} \subseteq AllAts \ QuietAts
  BY DEF AllAts, PlainAts, QuietAts
<1>1. QuietMoves  BY QuietSame DEF resume_parent, resume_parent_ret
<1>2. CASE resume_parent(a)
  <2>1. Running(a, "resume_parent")  BY <1>2 DEF resume_parent
  <2>2. /\ stack[a] # <<>> /\ Top(a) \in GoodFrame /\ Top(a).at = "resume_parent"
        /\ Top(a) \in FrameType
    BY <2>1, AtTop
  <2>3. PICK u \in Devices : u = Parent[Top(a).dev]
    BY <2>2, PMAssumption DEF GoodFrame, FrameType
  <2>4. CASE Call(a, "resume_parent_ret", Frame("resume", u, {}))
    <3>1. [Top(a) EXCEPT !.at = "resume_parent_ret"] \in EitherQuiet
      BY <1>0, <2>1, QuietFrameGoto
    <3> QED  BY <1>1, <2>2, <2>4, <3>1, QuietResume, QuietCall
  <2>5. CASE Goto(a, "resume")  BY <1>0, <1>1, <2>1, <2>5, QuietGoto
  <2> QED  BY <1>2, <2>3, <2>4, <2>5 DEF resume_parent
<1>3. CASE resume_parent_ret(a)
  <2>1. Running(a, "resume_parent_ret") /\ (Goto(a, "resume") \/ Goto(a, "resume_put"))
    BY <1>3 DEF resume_parent_ret
  <2> QED  BY <1>0, <1>1, <2>1, QuietGoto
<1> QED  BY <1>2, <1>3

LEMMA ResumeEndQuiet ==
  ASSUME IInv, QuietInv, NEW a \in Actors, resume_done(a) \/ resume_failed(a)
  PROVE  QuietMoves /\ StacksQuiet
<1>1. Running(a, "resume_cb") /\ (ResumeOut(a, TRUE) \/ ResumeOut(a, FALSE))
  BY DEF resume_done, resume_failed, Section
<1>2. PICK d \in Devices : d = Top(a).dev /\ power[d] \in PowerType  BY <1>1, AtTop
<1>3. TypeOK  BY <1>1, AtTop
<1>4. StacksQuiet  BY <1>1, QuietOut
<1>5. CASE resume_done(a)
  <2> DEFINE p == [power[d] EXCEPT !.error = FALSE, !.status = "ACTIVE", !.unwoken = FALSE]
             u == Parent[d]
  <2>1. power' = [e \in Devices |-> IF e = d THEN rpm_idle_async(p, d)
                      ELSE IF e = u THEN [power[e] EXCEPT !.children = @ + 1]
                      ELSE power[e]]
    BY <1>2, <1>5 DEF resume_done
  <2>2. p \in PowerType /\ Still(power[d], p)  BY <1>2, ZenonT(60) DEF PowerType, Statuses, Still, Begun
  <2> HIDE DEF p
  <2>3. power'[d] = rpm_idle_async(p, d)  BY <2>1
  <2>4. power'[d].depth # 0 => Still(p, power'[d])  BY <2>2, <2>3, IdleAsyncQuiet
  <2>5. ASSUME NEW e \in Devices \ {d} PROVE Still(power[e], power'[e])
    <3>1. power[e] \in PowerType  BY <1>3 DEF TypeOK
    <3>2. PICK n : power'[e] = power[e] \/ power'[e] = [power[e] EXCEPT !.children = n]
      BY <2>1
    <3> QED  BY <3>1, <3>2 DEF PowerType, Still, Begun
  <2>6. power'[d].depth # 0 => Still(power[d], power'[d])  BY <2>2, <2>4 DEF Still, Begun
  <2>7. QuietMoves  BY <2>5, <2>6 DEF QuietMoves
  <2> QED  BY <1>4, <2>7
<1>6. CASE resume_failed(a)
  <2> DEFINE o == [power[d] EXCEPT !.status = "SUSPENDED", !.unwoken = FALSE]
             p == pm_runtime_cancel_pending(o)
  <2>1. o \in PowerType /\ Still(power[d], o)  BY <1>2, ZenonT(60) DEF PowerType, Statuses, Still, Begun
  <2>2. PICK r \in ResumeResults \ {"ok"} : SetPower(d, [p EXCEPT !.error = (r = "fail")])
    BY <1>2, <1>6 DEF resume_failed
  <2> HIDE DEF o
  <2>3. p \in PowerType /\ Still(o, p)  BY <2>1, CancelType, CancelQuiet
  <2> DEFINE q == [p EXCEPT !.error = (r = "fail")]
  <2> HIDE DEF p
  <2>4. Still(p, q)  BY <2>3 DEF PowerType, Still, Begun
  <2>5. SetPower(d, q)  BY <2>2
  <2> HIDE DEF q
  <2>6. Still(power[d], q)  BY <2>1, <2>3, <2>4 DEF Still, Begun
  <2>7. QuietMoves  BY <2>5, <2>6, QuietSet
  <2> QED  BY <1>4, <2>7
<1> QED  BY <1>5, <1>6

LEMMA ResumePutQuiet ==
  ASSUME IInv, QuietInv, NEW a \in Actors, resume_put(a)
  PROVE  QuietMoves /\ StacksQuiet
<1>1. Running(a, "resume_put")  BY DEF resume_put, Section
<1>2. /\ stack[a] # <<>> /\ Top(a) \in GoodFrame /\ Top(a) \in FrameType /\ TypeOK
      /\ Top(a).at = "resume_put"
  BY <1>1, AtTop
<1>3. PICK u \in Devices : u = Parent[Top(a).dev] /\ power[u] \in PowerType
  BY <1>2, PMAssumption DEF GoodFrame, FrameType, TypeOK
<1> DEFINE n == power[u].usage - 1
           q == [power[u] EXCEPT !.usage = n]
           g == [Top(a) EXCEPT !.at = "resume_put_idle", !.par = FALSE]
<1>4. SetPower(u, q)  BY <1>2, <1>3 DEF resume_put, TypeOK, SetPower
<1> HIDE DEF n
<1>5. Still(power[u], q)  BY <1>3 DEF PowerType, Still, Begun
<1> HIDE DEF q
<1>6. QuietMoves  BY <1>4, <1>5, QuietSet
<1>7. g \in FrameType /\ g.at \notin QuietAts  BY <1>2 DEF FrameType, QuietAts
<1>8. Become(a, g) \/ Return(a)  BY DEF resume_put
<1> HIDE DEF g
<1> QED  BY <1>2, <1>6, <1>7, <1>8, OutsideQuiet, QuietBecome, QuietReturn

LEMMA WorkQuiet ==
  ASSUME IInv, QuietInv, NEW d \in Devices, Worker(d) \/ pm_suspend_timer_fn(d)
  PROVE  QuietMoves /\ StacksQuiet
<1>0. d \in Actors /\ SOFTIRQ \in Actors  BY DeviceActor
<1> DEFINE p == power[d]
           All == SUBSET (CallFlags \cup {"DISABLE", "CHECK_RESUME"})
<1>1. TypeOK /\ p \in PowerType  BY DEF IInv, TypeOK
<1>2. /\ {{"NOWAIT"}, {"NOWAIT", "AUTO"}, {"ASYNC", "AUTO"}, {"ASYNC"}} \subseteq All
      /\ {"idle", "resume", "suspend", "work"} \subseteq NewAts
  BY DEF NewAts, CallFlags
<1>3. \A at \in NewAts, flags \in All : Frame(at, d, flags) \in EitherQuiet  BY QuietNew
<1> HIDE DEF All
<1>4. CASE work_start(d)
  <2> DEFINE q == [p EXCEPT !.work = "off"]
  <2>1. Still(p, q)  BY <1>1 DEF PowerType, Still, Begun
  <2>2. SetPower(d, q)  BY <1>4 DEF work_start
  <2> HIDE DEF q
  <2>3. stack' = [stack EXCEPT ![d] = <<Frame("work", d, {"NOWAIT"})>>]  BY <1>4 DEF work_start
  <2>4. Frame("work", d, {"NOWAIT"}) \in EitherQuiet  BY <1>2, <1>3
  <2> QED  BY <1>0, <2>1, <2>2, <2>3, <2>4, QuietSet, QuietEnter
<1>5. CASE pm_runtime_work(d)
  <2>1. Running(d, "work")  BY <1>5 DEF pm_runtime_work, Section
  <2>2. stack[d] # <<>>  BY <2>1 DEF Running
  <2> DEFINE q == IF p.pending THEN [p EXCEPT !.request = "NONE", !.pending = FALSE] ELSE p
             f == Requested(d, p.request)
  <2>3. Still(p, q)  BY <1>1 DEF PowerType, Still, Begun
  <2>4. SetPower(d, q) /\ (Return(d) \/ Become(d, f))  BY <1>5 DEF pm_runtime_work
  <2> HIDE DEF q
  <2>5. QuietMoves  BY <2>3, <2>4, QuietSet
  <2>6. f \in EitherQuiet
    <3>1. PICK at \in NewAts, flags \in All : f = Frame(at, d, flags)  BY <1>2 DEF Requested
    <3> QED  BY <1>3, <3>1
  <2> HIDE DEF f
  <2> QED  BY <1>0, <2>2, <2>4, <2>5, <2>6, QuietReturn, QuietBecome
<1>6. CASE pm_suspend_timer_fn(d)
  <2> DEFINE q == [p EXCEPT !.timer = "off"]
             flags == IF p.timer = "auto" THEN {"ASYNC", "AUTO"} ELSE {"ASYNC"}
             f == Frame("suspend", d, flags)
  <2>1. Still(p, q)  BY <1>1 DEF PowerType, Still, Begun
  <2>2. SetPower(d, q)  BY <1>6 DEF pm_suspend_timer_fn
  <2> HIDE DEF q
  <2>3. stack' = [stack EXCEPT ![SOFTIRQ] = <<f>>]  BY <1>6 DEF pm_suspend_timer_fn
  <2>4. flags \in All  BY <1>2
  <2> HIDE DEF flags
  <2>5. f \in EitherQuiet  BY <1>2, <1>3, <2>4
  <2> HIDE DEF f
  <2> QED  BY <1>0, <2>1, <2>2, <2>3, <2>5, QuietSet, QuietEnter
<1> QED  BY <1>4, <1>5, <1>6 DEF Worker

(* The calls a task makes.                                                 *)
LEMMA CountersQuiet ==
  ASSUME NEW p \in PowerType, NEW n
  PROVE  /\ Still(p, [p EXCEPT !.usage = n])
         /\ Still(p, [p EXCEPT !.children = n])
         /\ \A auto : Still(p, [p EXCEPT !.auto = auto, !.usage = n])
         /\ \A new : Still(p, [p EXCEPT !.autosuspend = new, !.usage = n])
         /\ Still(p, [p EXCEPT !.error = FALSE])
         /\ \A status : Still(p, [p EXCEPT !.status = status, !.error = FALSE])
BY DEF PowerType, Still, Begun

LEMMA PutQuiet ==
  ASSUME IInv, QuietInv, NEW t \in Tasks, NEW d \in Devices, NEW f \in EitherQuiet,
         PutAndCall(t, d, f)
  PROVE  QuietMoves /\ StacksQuiet
<1> DEFINE n == power[d].usage - 1
           q == [power[d] EXCEPT !.usage = n]
<1>0. t \in Actors /\ TypeOK /\ power[d] \in PowerType  BY DEF Actors, IInv, TypeOK
<1>1. SetPower(d, q)  BY <1>0 DEF PutAndCall, TypeOK, SetPower
<1> HIDE DEF n
<1>2. Still(power[d], q)  BY <1>0, CountersQuiet
<1> HIDE DEF q
<1>3. QuietMoves  BY <1>1, <1>2, QuietSet
<1>4. stack' = [stack EXCEPT ![t] = <<f>>] \/ UNCHANGED stack  BY DEF PutAndCall, Enter
<1> QED  BY <1>0, <1>3, <1>4, QuietEnter, QuietStill

LEMMA SetStatusQuiet ==
  ASSUME IInv, QuietInv, NEW t \in Tasks, NEW d \in Devices, __pm_runtime_set_status(t, d)
  PROVE  QuietMoves /\ StacksQuiet
<1> DEFINE p == power[d]
           u == Parent[d]
<1>0. t \in Actors /\ TypeOK /\ p \in PowerType  BY DEF Actors, IInv, TypeOK
<1>1. StacksQuiet
  <2>1. CASE UNCHANGED stack  BY <2>1, QuietStill
  <2>2. CASE u # NULL /\ Enter(t, Frame("idle", u, {"ASYNC"}))
    <3>1. /\ u \in Devices /\ {"ASYNC"} \in SUBSET (CallFlags \cup {"DISABLE", "CHECK_RESUME"})
          /\ "idle" \in NewAts
      BY <2>2, PMAssumption DEF NewAts, CallFlags
    <3>2. Frame("idle", u, {"ASYNC"}) \in EitherQuiet  BY <3>1, QuietNew
    <3> QED  BY <1>0, <2>2, <3>2, QuietEnter DEF Enter
  <2> QED  BY <2>1, <2>2 DEF __pm_runtime_set_status
<1>2. CASE SetPower(d, [p EXCEPT !.error = FALSE])
  <2>1. Still(p, [p EXCEPT !.error = FALSE])  BY <1>0, CountersQuiet
  <2> QED  BY <1>1, <1>2, <2>1, QuietSet
<1>3. CASE \E status, n : /\ power'[d] = [p EXCEPT !.status = status, !.error = FALSE]
                          /\ \A e \in Devices \ {d} :
                               \/ power'[e] = power[e]
                               \/ power'[e] = [power[e] EXCEPT !.children = n]
  <2>1. PICK status, n : /\ power'[d] = [p EXCEPT !.status = status, !.error = FALSE]
                         /\ \A e \in Devices \ {d} :
                              \/ power'[e] = power[e]
                              \/ power'[e] = [power[e] EXCEPT !.children = n]
    BY <1>3
  <2> DEFINE q == [p EXCEPT !.status = status, !.error = FALSE]
  <2>2. Still(power[d], power'[d])
    <3>1. Still(p, q)  BY <1>0, CountersQuiet
    <3>2. power'[d] = q  BY <2>1
    <3> HIDE DEF q
    <3> QED  BY <3>1, <3>2
  <2>3. ASSUME NEW e \in Devices \ {d} PROVE Still(power[e], power'[e])
    <3>1. power[e] \in PowerType  BY <1>0 DEF TypeOK
    <3> DEFINE c == [power[e] EXCEPT !.children = n]
    <3>2. Still(power[e], power[e]) /\ Still(power[e], c)  BY <3>1, CountersQuiet DEF Still, Begun
    <3>3. power'[e] = power[e] \/ power'[e] = c  BY <2>1
    <3> HIDE DEF c
    <3> QED  BY <3>2, <3>3
  <2>4. QuietMoves  BY <2>2, <2>3 DEF QuietMoves
  <2> QED  BY <1>1, <2>4
<1>4. CASE power' = [e \in Devices |->
                 IF e = d THEN [p EXCEPT !.status = "SUSPENDED", !.error = FALSE]
                 ELSE IF e = u /\ power[e].children > 0
                 THEN [power[e] EXCEPT !.children = @ - 1]
                 ELSE power[e]]
  <2> DEFINE n == power[u].children - 1
  <2>1. \A e \in Devices \ {d} : \/ power'[e] = power[e]
                                 \/ power'[e] = [power[e] EXCEPT !.children = n]
    BY <1>4
  <2>2. power'[d] = [p EXCEPT !.status = "SUSPENDED", !.error = FALSE]  BY <1>4
  <2> HIDE DEF n
  <2> QED  BY <1>3, <2>1, <2>2
<1>5. CASE power' = [e \in Devices |->
                 IF e = d THEN [p EXCEPT !.status = "ACTIVE", !.error = FALSE]
                 ELSE IF e = u /\ p.status = "SUSPENDED"
                 THEN [power[e] EXCEPT !.children = @ + 1]
                 ELSE power[e]]
  <2> DEFINE n == power[u].children + 1
  <2>1. \A e \in Devices \ {d} : \/ power'[e] = power[e]
                                 \/ power'[e] = [power[e] EXCEPT !.children = n]
    BY <1>5
  <2>2. power'[d] = [p EXCEPT !.status = "ACTIVE", !.error = FALSE]  BY <1>5
  <2> HIDE DEF n
  <2> QED  BY <1>3, <2>1, <2>2
<1> QED  BY <1>2, <1>4, <1>5 DEF __pm_runtime_set_status

LEMMA StartQuiet ==
  ASSUME IInv, QuietInv, NEW t \in Tasks, NEW d \in Devices, Start(t, d)
  PROVE  QuietMoves /\ StacksQuiet
<1> DEFINE p == power[d]
           All == SUBSET (CallFlags \cup {"DISABLE", "CHECK_RESUME"})
<1>0. t \in Actors /\ TypeOK /\ p \in PowerType  BY DEF Actors, IInv, TypeOK
<1>1. /\ \A flags \in IdleFlags \cup SuspendFlags \cup ResumeFlags : flags \in All
      /\ {} \in All /\ {"AUTO"} \in All /\ {"DISABLE"} \in All
      /\ {"DISABLE"} \cup {"CHECK_RESUME"} \in All
      /\ "idle" \in NewAts /\ "suspend" \in NewAts /\ "resume" \in NewAts
  BY PMAssumption DEF CallFlags, NewAts
<1>2. \A at \in NewAts \cup {"disable", "barrier_enter"} : \A flags \in All :
        Frame(at, d, flags) \in EitherQuiet
  BY QuietNew
<1> HIDE DEF All
<1>3. CASE __pm_runtime_idle(t, d)
  <2>1. PICK flags \in IdleFlags :
          \/ PutAndCall(t, d, Frame("idle", d, flags))
          \/ Enter(t, Frame("idle", d, flags)) /\ UNCHANGED power
    BY <1>3 DEF __pm_runtime_idle
  <2>2. Frame("idle", d, flags) \in EitherQuiet  BY <1>1, <1>2
  <2> QED  BY <1>0, <2>1, <2>2, PutQuiet, QuietEnter, QuietSame DEF Enter
<1>4. CASE __pm_runtime_suspend(t, d)
  <2>1. PICK flags \in SuspendFlags :
          \/ PutAndCall(t, d, Frame("suspend", d, flags))
          \/ Enter(t, Frame("suspend", d, flags)) /\ UNCHANGED power
    BY <1>4 DEF __pm_runtime_suspend
  <2>2. Frame("suspend", d, flags) \in EitherQuiet  BY <1>1, <1>2
  <2> QED  BY <1>0, <2>1, <2>2, PutQuiet, QuietEnter, QuietSame DEF Enter
<1>5. CASE __pm_runtime_resume(t, d)
  <2>1. PICK flags \in ResumeFlags :
          /\ Enter(t, Frame("resume", d, flags))
          /\ power' = [power EXCEPT ![d].usage = @ + 1] \/ UNCHANGED power
    BY <1>5 DEF __pm_runtime_resume
  <2>2. Frame("resume", d, flags) \in EitherQuiet  BY <1>1, <1>2
  <2> DEFINE n == p.usage + 1
  <2>3. SetPower(d, [p EXCEPT !.usage = n]) \/ UNCHANGED power
    BY <1>0, <2>1 DEF TypeOK, SetPower
  <2> HIDE DEF n
  <2>4. QuietMoves  BY <1>0, <2>3, CountersQuiet, QuietSet, QuietSame
  <2> QED  BY <1>0, <2>1, <2>2, <2>4, QuietEnter DEF Enter
<1>6. CASE pm_schedule_suspend(t, d)
  <2> DEFINE q == [pm_runtime_cancel_pending(p) EXCEPT !.timer = "suspend"]
  <2>1. q.depth = 0
    BY <1>0, <1>6 DEF PowerType, pm_runtime_cancel_pending, pm_schedule_suspend,
                      rpm_check_suspend_allowed, SuspendDenied
  <2>2. SetPower(d, q) /\ UNCHANGED stack  BY <1>6 DEF pm_schedule_suspend
  <2> HIDE DEF q
  <2> QED  BY <2>1, <2>2, QuietSet, QuietStill
<1>7. CASE pm_runtime_forbid(t, d)
  <2> DEFINE n == p.usage + 1
  <2>1. SetPower(d, [p EXCEPT !.auto = FALSE, !.usage = n]) /\ Enter(t, Frame("resume", d, {}))
    BY <1>7 DEF pm_runtime_forbid
  <2> HIDE DEF n
  <2>2. QuietMoves  BY <1>0, <2>1, CountersQuiet, QuietSet
  <2> QED  BY <1>0, <2>1, <2>2, QuietResume, QuietEnter DEF Enter
<1>8. CASE pm_runtime_allow(t, d)
  <2> DEFINE n == p.usage - 1
  <2>1. /\ SetPower(d, [p EXCEPT !.auto = TRUE, !.usage = n])
        /\ Enter(t, Frame("idle", d, {"AUTO"})) \/ UNCHANGED stack
    BY <1>8 DEF pm_runtime_allow
  <2> HIDE DEF n
  <2>2. QuietMoves  BY <1>0, <2>1, CountersQuiet, QuietSet
  <2>3. Frame("idle", d, {"AUTO"}) \in EitherQuiet  BY <1>1, <1>2
  <2> QED  BY <1>0, <2>1, <2>2, <2>3, QuietEnter, QuietStill DEF Enter
<1>9. CASE update_autosuspend(t, d)
  <2>1. PICK new \in {"off", "on", "never"} \ {p.autosuspend} :
        \/ /\ SetPower(d, [p EXCEPT !.autosuspend = new, !.usage = @ + 1])
           /\ Enter(t, Frame("resume", d, {}))
        \/ /\ SetPower(d, [p EXCEPT !.autosuspend = new,
                             !.usage = IF p.autosuspend = "never" THEN @ - 1 ELSE @])
           /\ Enter(t, Frame("idle", d, {"AUTO"}))
    BY <1>9 DEF update_autosuspend
  <2>2. PICK n : SetPower(d, [p EXCEPT !.autosuspend = new, !.usage = n])  BY <2>1
  <2>3. QuietMoves  BY <1>0, <2>2, CountersQuiet, QuietSet
  <2>4. Frame("resume", d, {}) \in EitherQuiet /\ Frame("idle", d, {"AUTO"}) \in EitherQuiet
    BY <1>1, <1>2
  <2> QED  BY <1>0, <2>1, <2>3, <2>4, QuietEnter DEF Enter
<1>10. CASE __pm_runtime_set_status(t, d)  BY <1>10, SetStatusQuiet
<1>11. CASE pm_runtime_disable(t, d)
  <2>1. PICK check \in {{}, {"CHECK_RESUME"}} :
          Enter(t, Frame("disable", d, {"DISABLE"} \cup check)) /\ UNCHANGED power
    BY <1>11 DEF pm_runtime_disable
  <2>2. {"DISABLE"} \cup check \in All  BY DEF All
  <2>3. Frame("disable", d, {"DISABLE"} \cup check) \in EitherQuiet  BY <1>2, <2>2
  <2> QED  BY <1>0, <2>1, <2>3, QuietSame, QuietEnter DEF Enter
<1>12. CASE pm_runtime_barrier(t, d)
  <2> DEFINE n == p.usage + 1
  <2>1. SetPower(d, [p EXCEPT !.usage = n])
    BY <1>0, <1>12 DEF pm_runtime_barrier, TypeOK, SetPower
  <2> HIDE DEF n
  <2>2. QuietMoves  BY <1>0, <2>1, CountersQuiet, QuietSet
  <2>3. Frame("barrier_enter", d, {}) \in EitherQuiet  BY <1>1, <1>2
  <2>4. Enter(t, Frame("barrier_enter", d, {}))  BY <1>12 DEF pm_runtime_barrier
  <2> QED  BY <1>0, <2>2, <2>3, <2>4, QuietEnter DEF Enter
<1> QED  BY <1>3, <1>4, <1>5, <1>6, <1>7, <1>8, <1>9, <1>10, <1>11, <1>12 DEF Start

LEMMA EnableQuiet ==
  ASSUME IInv, QuietInv, NEW t \in Tasks, NEW d \in Devices, pm_runtime_enable(t, d)
  PROVE  QuietMoves /\ StacksQuiet /\ DisabledQuiet
<1> DEFINE p == power[d]
           n == IF p.depth > 0 THEN p.depth - 1 ELSE p.depth
           q == [p EXCEPT !.depth = n]
<1>0. t \in Actors /\ stack[t] = <<>>  BY DEF Actors, pm_runtime_enable
<1>1. p \in PowerType  BY DEF IInv, TypeOK
<1>2. SetPower(d, q) /\ UNCHANGED stack  BY DEF pm_runtime_enable
<1>3. n # 0 => p.depth # 0  BY <1>1 DEF PowerType
<1> HIDE DEF n
<1>4. Still(p, q)  BY <1>1, <1>3 DEF PowerType, Still, Begun
<1> HIDE DEF q
<1>5. QuietMoves /\ StacksQuiet  BY <1>2, <1>4, QuietSet, QuietStill
<1>6. Alone(t)  BY <1>0, <1>2, AloneStack
<1> QED  BY <1>0, <1>5, <1>6, SettledMoves

LEMMA DisableQuiet ==
  ASSUME IInv, QuietInv, NEW t \in Tasks, __pm_runtime_disable(t) \/ disable_resumed(t)
  PROVE  QuietSteps /\ StacksQuiet /\ DisabledQuiet
<1>0. t \in Actors /\ {"barrier", "disable_resumed"} \subseteq AllAts \ QuietAts
  BY DEF Actors, AllAts, DriverAts, BarrierAts, QuietAts
<1>1. PICK at \in {"disable", "disable_resumed"} : Running(t, at)
  BY DEF __pm_runtime_disable, disable_resumed, Section
<1>2. PICK d \in Devices : d = Top(t).dev /\ power[d] \in PowerType  BY <1>0, <1>1, AtTop
<1> DEFINE p == power[d]
<1>3. TypeOK /\ StackInv /\ stack[t] # <<>> /\ Top(t).at = at  BY <1>0, <1>1, AtTop
<1>4. at \notin BarrierAts  BY DEF BarrierAts
<1>5. p.depth \in Nat  BY <1>2 DEF PowerType
<1>6. \/ /\ SetPower(d, [p EXCEPT !.usage = @ + 1])
         /\ Call(t, "disable_resumed", Frame("resume", d, {}))
      \/ /\ \/ SetPower(d, [p EXCEPT !.depth = 1])
            \/ SetPower(d, [p EXCEPT !.usage = @ - 1, !.depth = @ + 1])
         /\ Goto(t, "barrier")
      \/ /\ p.depth # 0
         /\ \/ SetPower(d, [p EXCEPT !.depth = @ + 1])
            \/ SetPower(d, [p EXCEPT !.usage = @ - 1, !.depth = @ + 1])
         /\ Return(t)
  BY <1>2, <1>5 DEF __pm_runtime_disable, disable_resumed
<1>7. StacksQuiet
  <2>1. CASE Call(t, "disable_resumed", Frame("resume", d, {}))
    <3>1. [Top(t) EXCEPT !.at = "disable_resumed"] \in EitherQuiet
      BY <1>0, <1>1, QuietFrameGoto
    <3> QED  BY <1>0, <1>3, <2>1, <3>1, QuietResume, QuietCall
  <2>2. CASE Goto(t, "barrier")  BY <1>0, <1>1, <2>2, QuietGoto
  <2>3. CASE Return(t)  BY <1>0, <1>3, <2>3, QuietReturn
  <2> QED  BY <1>6, <2>1, <2>2, <2>3
<1>8. Alone(t)  BY <1>0, <1>6, AloneStack
<1>9. PICK n, m : /\ \/ SetPower(d, [p EXCEPT !.usage = n])
                     \/ SetPower(d, [p EXCEPT !.depth = m])
                     \/ SetPower(d, [p EXCEPT !.usage = n, !.depth = m])
                  /\ SetPower(d, [p EXCEPT !.usage = n]) \/ p.depth # 0 \/ Goto(t, "barrier")
  BY <1>6
<1> DEFINE q1 == [p EXCEPT !.usage = n]
           q2 == [p EXCEPT !.depth = m]
           q3 == [p EXCEPT !.usage = n, !.depth = m]
<1>10. /\ Begun(p, q1) /\ Begun(p, q2) /\ Begun(p, q3) /\ q1.depth = p.depth
  BY <1>2 DEF PowerType, Begun
<1>11. PICK q : SetPower(d, q) /\ Begun(p, q) /\ (q.depth # 0 => p.depth # 0 \/ Goto(t, "barrier"))
  <2> HIDE DEF q1, q2, q3
  <2>1. SetPower(d, q1) \/ SetPower(d, q2) \/ SetPower(d, q3)  BY <1>9 DEF q1, q2, q3
  <2>2. SetPower(d, q1) \/ p.depth # 0 \/ Goto(t, "barrier")  BY <1>9 DEF q1
  <2> QED  BY <1>10, <2>1, <2>2
<1>12. power'[d] = q /\ \A e \in Devices \ {d} : power'[e] = power[e]
  BY <1>3, <1>11 DEF TypeOK, SetPower
<1>13. QuietSteps  BY <1>11, <1>12 DEF QuietSteps, Begun
<1>14. ASSUME NEW e \in Devices PROVE Settled(e)
  <2>1. ~(stack[t] # <<>> /\ Top(t) \in DepthRaised(e))  BY <1>3, <1>4 DEF DepthRaised
  <2>2. CASE power'[e].depth # 0 => power[e].depth # 0  BY <1>0, <1>8, <2>1, <2>2, SettledOne
  <2>3. CASE e = d /\ Goto(t, "barrier")
    <3> DEFINE g == [Top(t) EXCEPT !.at = "barrier"]
    <3>1. g \in DepthRaised(d)  BY <1>2, <1>3, DisableGoto
    <3>2. stack' = [stack EXCEPT ![t] = <<g>> \o Tail(stack[t])]  BY <2>3 DEF Goto, Become
    <3> HIDE DEF g
    <3>3. stack'[t] = <<g>> \o Tail(stack[t])  BY <1>0, <1>3, <3>2 DEF TypeOK
    <3>4. Tail(stack[t]) \in Seq(FrameType)
      <4>1. stack[t] \in Seq(FrameType)  BY <1>0, <1>3 DEF TypeOK
      <4> HIDE DEF FrameType
      <4> QED  BY <1>3, <4>1
    <3>5. g \in FrameType  BY <3>1 DEF DepthRaised
    <3>6. stack'[t] # <<>> /\ Head(stack'[t]) = g
      <4> HIDE DEF FrameType
      <4> QED  BY <3>3, <3>4, <3>5
    <3>7. Raising(d)'  BY <3>1, <3>6 DEF Raising, Top, DepthRaised
    <3> QED  BY <2>3, <3>7 DEF Settled
  <2> QED  BY <1>11, <1>12, <2>2, <2>3
<1> QED  BY <1>7, <1>13, <1>14 DEF DisabledQuiet

(* The barrier of a disable.                                               *)
LEMMA BarrierQuiet ==
  ASSUME IInv, QuietInv, NEW t \in Tasks,
         \/ barrier_enter(t) \/ __pm_runtime_barrier(t) \/ cancel_work_sync(t)
         \/ barrier_cancelled(t) \/ barrier_wait(t)
  PROVE  QuietMoves /\ StacksQuiet /\ DisabledQuiet
<1>0. t \in Actors /\ "barrier" \in AllAts \ QuietAts
  BY DEF Actors, AllAts, DriverAts, BarrierAts, QuietAts
<1>1. PICK at \in BarrierAts : Running(t, at)
  BY DEF barrier_enter, __pm_runtime_barrier, cancel_work_sync, barrier_cancelled, barrier_wait,
         Section, BarrierAts
<1>2. PICK d \in Devices : d = Top(t).dev /\ power[d] \in PowerType  BY <1>0, <1>1, AtTop
<1> DEFINE p == power[d]
<1>3. /\ TypeOK /\ StackInv /\ stack[t] # <<>> /\ Top(t).at = at /\ Top(t) \in FrameType
      /\ Top(t) \in QuietFrame
  BY <1>0, <1>1, AtTop, QuietTop
<1>4. ASSUME QuietMoves, \/ Top(t) \notin DepthRaised(d)
                         \/ UNCHANGED stack
                         \/ (\E to \in BarrierAts : Goto(t, to))
                         \/ Return(t) /\ AtRest(power'[d])
      PROVE  DisabledQuiet
  <2> SUFFICES ASSUME NEW e \in Devices PROVE Settled(e)  BY DEF DisabledQuiet
  <2>1. power'[e].depth # 0 => power[e].depth # 0  BY <1>4 DEF QuietMoves, Still
  <2>2. CASE Top(t) \notin DepthRaised(e) /\ Alone(t)  BY <1>0, <2>1, <2>2, SettledOne
  <2>3. CASE UNCHANGED stack
    <3>1. Raising(e)' <=> Raising(e)  BY <2>3 DEF Raising, Top, DepthRaised
    <3> QED  BY <2>1, <3>1 DEF Settled
  <2>4. CASE \E to \in BarrierAts : Goto(t, to)
    <3>1. PICK to \in BarrierAts : Goto(t, to)  BY <2>4
    <3>2. Alone(t)  BY <1>0, <3>1, AloneStack
    <3>3. ASSUME Top(t) \in DepthRaised(e) PROVE Raising(e)'
      <4> DEFINE g == [Top(t) EXCEPT !.at = to]
      <4>1. g \in DepthRaised(e)  BY <3>3 DEF DepthRaised, FrameType, BarrierAts
      <4>2. stack' = [stack EXCEPT ![t] = <<g>> \o Tail(stack[t])]  BY <3>1 DEF Goto, Become
      <4> HIDE DEF g
      <4>3. stack'[t] = <<g>> \o Tail(stack[t])  BY <1>0, <1>3, <4>2 DEF TypeOK
      <4>4. Tail(stack[t]) \in Seq(FrameType)
        <5>1. stack[t] \in Seq(FrameType)  BY <1>0, <1>3 DEF TypeOK
        <5> HIDE DEF FrameType
        <5> QED  BY <1>3, <5>1
      <4>5. g \in FrameType  BY <4>1 DEF DepthRaised
      <4>6. stack'[t] # <<>> /\ Head(stack'[t]) = g
        <5> HIDE DEF FrameType
        <5> QED  BY <4>3, <4>4, <4>5
      <4> QED  BY <4>1, <4>6 DEF Raising, Top, DepthRaised
    <3> QED  BY <1>0, <2>1, <3>2, <3>3, SettledOne
  <2>5. CASE Return(t) /\ AtRest(power'[d])
    <3>1. Alone(t)  BY <1>0, <2>5, AloneStack
    <3>2. Top(t) \in DepthRaised(e) => e = d  BY <1>2 DEF DepthRaised
    <3> QED  BY <1>0, <2>1, <2>5, <3>1, <3>2, SettledOne
  <2>6. CASE Top(t) \notin DepthRaised(d)
    <3>1. Top(t) \notin DepthRaised(e)  BY <1>2, <2>6 DEF DepthRaised
    <3>2. \/ UNCHANGED stack \/ Return(t) \/ (\E to : Goto(t, to)) \/ \E to, f : Call(t, to, f)
      BY DEF barrier_enter, __pm_runtime_barrier, cancel_work_sync, barrier_cancelled,
             barrier_wait
    <3>3. Alone(t)  BY <1>0, <3>2, AloneStack
    <3> QED  BY <2>2, <3>1, <3>3
  <2> QED  BY <1>4, <2>3, <2>4, <2>5, <2>6
<1>5. ASSUME NEW to \in QuietAts
      PROVE  /\ [Top(t) EXCEPT !.at = to] \in FrameType
             /\ [Top(t) EXCEPT !.at = to].at = to /\ [Top(t) EXCEPT !.at = to].dev = d
             /\ [Top(t) EXCEPT !.at = to].flags = Top(t).flags
  BY <1>2, <1>3 DEF FrameType, QuietAts
(* Where the goal's conditions hold after the step.                        *)
<1>6. ASSUME NEW to \in QuietAts, Goto(t, to), NEW q, SetPower(d, q), q.timer = "off",
             to = "barrier_wait" => ~q.pending
      PROVE  StacksQuiet
  <2> DEFINE g == [Top(t) EXCEPT !.at = to]
  <2>1. power'[d] = q  BY <1>3, <1>6 DEF SetPower, TypeOK
  <2>2. g \in FrameType /\ g.at = to /\ g.dev = d  BY <1>5
  <2>3. Become(t, g)  BY <1>6 DEF Goto
  <2> HIDE DEF g
  <2>4. g \in QuietFrame'  BY <1>6, <2>1, <2>2 DEF QuietFrame
  <2>5. g \in EitherQuiet  BY <2>4 DEF EitherQuiet
  <2> QED  BY <1>0, <1>3, <2>3, <2>5, QuietBecome
<1>7. CASE barrier_enter(t)
  <2>0. Top(t) \in GoodFrame /\ Top(t).at = "barrier_enter"
    BY <1>0, <1>3, <1>7, TopType DEF barrier_enter, Section, Running
  <2>1. UNCHANGED power /\ Top(t) \notin DepthRaised(d)
    BY <1>7, <2>0 DEF barrier_enter, DepthRaised, GoodFrame, BarrierAts
  <2>2. CASE Call(t, "barrier", Frame("resume", d, {}))
    <3>1. [Top(t) EXCEPT !.at = "barrier"] \in EitherQuiet  BY <1>0, <1>1, QuietFrameGoto
    <3> QED  BY <1>0, <1>3, <1>4, <2>1, <2>2, <3>1, QuietResume, QuietCall, QuietSame
  <2>3. CASE Goto(t, "barrier")  BY <1>0, <1>1, <1>4, <2>1, <2>3, QuietGoto, QuietSame
  <2> QED  BY <1>2, <1>7, <2>2, <2>3 DEF barrier_enter
<1>8. CASE __pm_runtime_barrier(t)
  <2> DEFINE q1 == [p EXCEPT !.timer = "off", !.request = "NONE"]
             q2 == [p EXCEPT !.timer = "off"]
  <2>1. /\ Still(p, q1) /\ q1.timer = "off"
        /\ Still(p, q2) /\ q2.timer = "off" /\ (~p.pending => ~q2.pending)
    BY <1>2 DEF PowerType, Still, Begun
  <2>2. /\ \/ p.pending /\ SetPower(d, q1) /\ Goto(t, "cancel")
           \/ ~p.pending /\ SetPower(d, q2) /\ Goto(t, "barrier_wait")
       
    BY <1>2, <1>8 DEF __pm_runtime_barrier
  <2> HIDE DEF q1, q2
  <2>3. QuietMoves  BY <2>1, <2>2, QuietSet
  <2>4. "cancel" \in QuietAts /\ "barrier_wait" \in QuietAts  BY DEF QuietAts
  <2>5. StacksQuiet
    <3>1. CASE SetPower(d, q1) /\ Goto(t, "cancel")  BY <1>6, <2>1, <2>4, <3>1
    <3>2. CASE ~p.pending /\ SetPower(d, q2) /\ Goto(t, "barrier_wait")
      BY <1>6, <2>1, <2>4, <3>2
    <3> QED  BY <2>2, <3>1, <3>2
  <2>6. \E to \in BarrierAts : Goto(t, to)  BY <2>2 DEF BarrierAts
  <2> QED  BY <1>4, <2>3, <2>5, <2>6
<1>9. CASE cancel_work_sync(t)
  <2> DEFINE q == [p EXCEPT !.work = "grabbed"]
             g == [Top(t) EXCEPT !.at = "cancelled"]
  <2>1. Still(p, q)  BY <1>2 DEF PowerType, Still, Begun
  <2>2. SetPower(d, q) /\ Goto(t, "cancelled")
    BY <1>2, <1>9 DEF cancel_work_sync
  <2> HIDE DEF q
  <2>3. QuietMoves  BY <2>1, <2>2, QuietSet
  <2>4. "cancelled" \in QuietAts /\ "cancel" \in QuietAts  BY DEF QuietAts
  <2>5. g \in FrameType /\ g.at = "cancelled" /\ g.dev = d /\ g.flags = Top(t).flags
    BY <1>5, <2>4
  <2>6. Become(t, g)  BY <2>2 DEF Goto
  <2> HIDE DEF g
  <2>7. Top(t).at = "cancel"  BY <1>9 DEF cancel_work_sync, Running
  <2>8. "DISABLE" \in g.flags => power[d].timer = "off"
    BY <1>2, <1>3, <2>4, <2>5, <2>7 DEF QuietFrame
  <2>9. g \in EitherQuiet  BY <2>5, <2>8 DEF QuietFrame, EitherQuiet
  <2>10. StacksQuiet  BY <1>0, <1>3, <2>6, <2>9, QuietBecome
  <2>11. \E to \in BarrierAts : Goto(t, to)  BY <2>2 DEF BarrierAts
  <2> QED  BY <1>4, <2>3, <2>10, <2>11
<1>10. CASE barrier_cancelled(t)
  <2> DEFINE q == [p EXCEPT !.work = "off", !.pending = FALSE,
                         !.swallowed = @ \/ p.request # "NONE"]
             g == [Top(t) EXCEPT !.at = "barrier_wait"]
  <2>1. Still(p, q) /\ ~q.pending /\ q.timer = p.timer  BY <1>2 DEF PowerType, Still, Begun
  <2>2. SetPower(d, q) /\ Goto(t, "barrier_wait")
    BY <1>2, <1>10 DEF barrier_cancelled
  <2>3. power'[d] = q  BY <1>3, <2>2 DEF SetPower, TypeOK
  <2> HIDE DEF q
  <2>4. QuietMoves  BY <2>1, <2>2, QuietSet
  <2>5. "cancelled" \in QuietAts /\ "barrier_wait" \in QuietAts  BY DEF QuietAts
  <2>6. g \in FrameType /\ g.at = "barrier_wait" /\ g.dev = d /\ g.flags = Top(t).flags
    BY <1>5, <2>5
  <2>7. Become(t, g)  BY <2>2 DEF Goto
  <2> HIDE DEF g
  <2>8. Top(t).at = "cancelled"  BY <1>10 DEF barrier_cancelled, Section, Running
  <2>9. "DISABLE" \in g.flags => power[d].timer = "off"
    BY <1>2, <1>3, <2>5, <2>6, <2>8 DEF QuietFrame
  <2>10. g \in QuietFrame'  BY <2>1, <2>3, <2>6, <2>9 DEF QuietFrame
  <2>11. g \in EitherQuiet  BY <2>10 DEF EitherQuiet
  <2>12. StacksQuiet  BY <1>0, <1>3, <2>7, <2>11, QuietBecome
  <2>13. \E to \in BarrierAts : Goto(t, to)  BY <2>2 DEF BarrierAts
  <2> QED  BY <1>4, <2>4, <2>12, <2>13
<1>11. CASE barrier_wait(t)
  <2>1. CASE UNCHANGED <<power, stack, disabled>>  BY <1>4, <2>1, QuietSame, QuietStill
  <2>2. CASE /\ ~Busy(p) /\ "DISABLE" \in Top(t).flags
             /\ Return(t) /\ Disabled(t, d) /\ UNCHANGED <<power, asleep>>
    <3>1. Top(t).at = "barrier_wait"  BY <1>11 DEF barrier_wait, Section, Running
    <3>2. "barrier_wait" \in QuietAts  BY DEF QuietAts
    <3>3. p.timer = "off" /\ ~p.pending  BY <1>2, <1>3, <2>2, <3>1, <3>2 DEF QuietFrame
    <3>4. AtRest(power'[d])  BY <2>2, <3>3 DEF AtRest, Busy
    <3>5. QuietMoves  BY <2>2, QuietSame
    <3>6. DisabledQuiet  BY <1>4, <2>2, <3>4, <3>5
    <3> QED  BY <1>0, <1>3, <2>2, <3>5, <3>6, QuietReturn
  <2>3. CASE /\ "DISABLE" \notin Top(t).flags
             /\ SetPower(d, [p EXCEPT !.usage = @ - 1]) /\ Return(t)
    <3> DEFINE n == p.usage - 1
               q == [p EXCEPT !.usage = n]
    <3>1. SetPower(d, q)  BY <2>3
    <3> HIDE DEF n
    <3>2. Still(p, q)  BY <1>2, CountersQuiet
    <3> HIDE DEF q
    <3>3. QuietMoves  BY <3>1, <3>2, QuietSet
    <3>4. Top(t) \notin DepthRaised(d)  BY <2>3 DEF DepthRaised
    <3> QED  BY <1>0, <1>3, <1>4, <2>3, <3>3, <3>4, QuietReturn
  <2> QED  BY <1>2, <1>11, <2>1, <2>2, <2>3 DEF barrier_wait
<1> QED  BY <1>7, <1>8, <1>9, <1>10, <1>11

LEMMA QuietInit == ASSUME Init PROVE QuietInv
<1>1. \A d \in Devices : AtRest(power[d])  BY DEF Init, AtRest
<1>2. \A a \in Actors : stack[a] = <<>>  BY DEF Init
<1>3. \A S : <<>> \in Seq(S)  OBVIOUS
<1>4. \A a \in Actors : stack[a] \in Seq(QuietFrame)  BY <1>2, <1>3
<1> QED  BY <1>1, <1>4 DEF QuietInv

LEMMA QuietNext ==
  ASSUME IInv, QuietInv, [Next]_vars
  PROVE  QuietInv'
<1>1. IInv'  BY INext
<1>2. QuietSteps /\ StacksQuiet /\ DisabledQuiet
  <2>1. ASSUME NEW a \in Actors, Run(a) PROVE QuietMoves /\ StacksQuiet /\ DisabledQuiet
    <3>1. QuietMoves /\ StacksQuiet
      BY <2>1, IdleQuiet, NotifyQuiet, WokenQuiet, SuspendQuiet, SuspendEndQuiet, ResumeQuiet,
         ResumeParentQuiet, ResumeEndQuiet, ResumePutQuiet DEF Run
    <3>2. Alone(a) /\ Top(a).at \notin BarrierAts  BY <2>1, RunAlone
    <3> QED  BY <3>1, <3>2, SettledMoves
  <2>2. ASSUME NEW t \in Tasks, RunTask(t) PROVE QuietSteps /\ StacksQuiet /\ DisabledQuiet
    BY <2>2, DisableQuiet, BarrierQuiet, MovesAreSteps DEF RunTask
  <2>3. ASSUME NEW d \in Devices, Worker(d) \/ pm_suspend_timer_fn(d)
        PROVE  QuietMoves /\ StacksQuiet /\ DisabledQuiet
    <3>0. d \in Actors /\ SOFTIRQ \in Actors  BY DeviceActor
    <3>1. QuietMoves /\ StacksQuiet  BY <2>3, WorkQuiet
    <3>2. CASE pm_suspend_timer_fn(d)
      <4>1. stack[SOFTIRQ] = <<>> /\ \E s : stack' = [stack EXCEPT ![SOFTIRQ] = s]
        BY <3>2 DEF pm_suspend_timer_fn
      <4>2. Alone(SOFTIRQ)  BY <3>0, <4>1, AloneStack
      <4> QED  BY <3>0, <3>1, <4>1, <4>2, SettledMoves
    <3>3. CASE Worker(d)
      <4>1. /\ stack[d] = <<>> \/ Top(d).at = "work"
            /\ (\E s : stack' = [stack EXCEPT ![d] = s]) \/ Return(d) \/ \E f : Become(d, f)
        BY <3>3 DEF Worker, work_start, pm_runtime_work, Section, Running
      <4>2. Alone(d)  BY <3>0, <4>1, AloneStack
      <4>3. "work" \notin BarrierAts  BY DEF BarrierAts
      <4> QED  BY <3>0, <3>1, <4>1, <4>2, <4>3, SettledMoves
    <3> QED  BY <2>3, <3>2, <3>3
  <2>4. ASSUME NEW t \in Tasks, NEW d \in Devices, pm_runtime_enable(t, d)
        PROVE  QuietMoves /\ StacksQuiet /\ DisabledQuiet
    BY <2>4, EnableQuiet
  <2>5. ASSUME NEW t \in Tasks, NEW d \in Targets, Start(t, d)
        PROVE  QuietMoves /\ StacksQuiet /\ DisabledQuiet
    <3>1. d \in Devices /\ t \in Actors  BY PMAssumption DEF Actors
    <3>2. stack[t] = <<>> /\ (UNCHANGED stack \/ \E s : stack' = [stack EXCEPT ![t] = s])
      BY <2>5 DEF Start, __pm_runtime_idle, __pm_runtime_suspend, __pm_runtime_resume,
           pm_schedule_suspend, pm_runtime_forbid, pm_runtime_allow, update_autosuspend,
           __pm_runtime_set_status, pm_runtime_disable, pm_runtime_barrier, PutAndCall, Enter
    <3>3. Alone(t)  BY <3>1, <3>2, AloneStack
    <3> QED  BY <2>5, <3>1, <3>2, <3>3, StartQuiet, SettledMoves
  <2>6. CASE UNCHANGED vars
    <3>1. UNCHANGED power /\ UNCHANGED stack  BY <2>6 DEF vars
    <3>2. QuietMoves /\ StacksQuiet  BY <3>1, QuietSame, QuietStill
    <3>3. \A e \in Devices : Raising(e)' <=> Raising(e)  BY <3>1 DEF Raising, Top, DepthRaised
    <3>4. DisabledQuiet  BY <3>1, <3>3 DEF DisabledQuiet, Settled
    <3> QED  BY <3>2, <3>4, MovesAreSteps
  <2> QED  BY <2>1, <2>2, <2>3, <2>4, <2>5, <2>6, MovesAreSteps DEF Next
<1> QED  BY <1>1, <1>2, DisabledStep

(* When pm_runtime_disable() has returned, and with it the one that raised *)
(* disable_depth from zero, no callback of the device runs, no request is  *)
(* pending and no timer armed, whatever other tasks, its work item and its *)
(* timer were doing when it was called: raising disable_depth before the   *)
(* barrier shuts every door the barrier closes.                            *)
THEOREM DisabledCorrect == Spec => []DisabledIsQuiet
<1>1. Init => QuietInv  BY QuietInit
<1>2. IInv /\ QuietInv /\ [Next]_vars => QuietInv'  BY QuietNext
<1>3. IInv /\ QuietInv => DisabledIsQuiet
  <2> SUFFICES ASSUME IInv, QuietInv, NEW t \in Tasks, NEW d \in disabled[t], ~DisableWaits(d)
               PROVE  /\ power[d].status \in {"ACTIVE", "SUSPENDED"} /\ ~power[d].idle
                      /\ ~power[d].pending /\ power[d].timer = "off"
    BY DEF DisabledIsQuiet
  <2>1. /\ d \in Devices /\ power[d] \in PowerType /\ TypeOK /\ StackInv
        /\ stack \in Stacks
    BY DEF IInv, TypeOK, Stacks
  <2>2. CountedIn(stack, DepthRaised(d)) = {}
    <3> SUFFICES ASSUME NEW f \in FramesOf(stack), FrameOf(stack, f) \in DepthRaised(d)
                 PROVE  FALSE
      BY DEF CountedIn
    <3>1. f \in Frames /\ FrameAt(f) = FrameOf(stack, f)  BY CountedFrames
    <3>2. FrameAt(f) \in GoodFrame  BY <3>1, FrameGood
    <3>3. /\ FrameAt(f).dev = d /\ "DISABLE" \in FrameAt(f).flags
          /\ FrameAt(f).at \in BarrierAts
      BY <3>1 DEF DepthRaised
    <3>4. FrameAt(f).at \in {"barrier", "cancel", "cancelled", "barrier_wait"}
      BY <3>2, <3>3 DEF GoodFrame, BarrierAts
    <3> QED  BY <3>1, <3>3, <3>4 DEF DisableWaits
  <2>3. Count(DepthRaised(d)) = 0  BY <2>2, FS_EmptySet DEF Count, CountIn
  <2>4. ~Raising(d)
    <3> SUFFICES ASSUME NEW s \in Tasks, stack[s] # <<>>, Top(s) \in DepthRaised(d) PROVE FALSE
      BY DEF Raising
    <3>1. s \in Actors  BY DEF Actors
    <3>2. Count(DepthRaised(d)) >= 1  BY <2>1, <3>1, TopCounted
    <3> QED  BY <2>3, <3>2
  <2>5. power[d].depth # 0
    <3>1. Cardinality(Disablers(d)) \in Nat /\ Cardinality(Disablers(d)) # 0
      <4>1. t \in Disablers(d)  BY DEF Disablers
      <4> QED  BY <4>1, DisablersFinite, FS_CardinalityType, FS_EmptySet
    <3>2. power[d].depth >= Cardinality(Disablers(d)) + 0  BY <2>1, <2>3 DEF IInv, DepthInv
    <3> QED  BY <3>1, <3>2
  <2>6. AtRest(power[d])  BY <2>1, <2>4, <2>5 DEF QuietInv
  <2>7. ~Changing(power[d])  BY <2>1, <2>3, <2>5 DEF IInv, RestInv
  <2>8. power[d].status \in Statuses  BY <2>1 DEF PowerType
  <2> QED  BY <2>6, <2>7, <2>8 DEF AtRest, Changing, Statuses
<1> QED  BY <1>1, <1>2, <1>3, Invariance, PTL DEF Spec

(***************************************************************************)
(* The wait queues.                                                        *)
(***************************************************************************)

(* What a sleeper may wait for is not ended, unless silently.              *)
Lasts(p, q) == \/ q.unwoken
               \/ /\ ~p.unwoken
                  /\ p.status = "SUSPENDING" => q.status = "SUSPENDING"
                  /\ Changing(p) => Changing(q)
                  /\ p.idle => q.idle

PowerLasts == \A e \in Devices : Lasts(power[e], power'[e])
OnlyOwn(a) == a \notin asleep /\ Alone(a)

LEMMA LastsSame == ASSUME NEW p PROVE Lasts(p, p)
BY DEF Lasts

LEMMA WaitStep ==
  ASSUME IInv, WaitInv, NEW a \in Actors, OnlyOwn(a), asleep' \subseteq asleep \cup {a},
         \A b \in asleep' \ {a} : Lasts(power[Head(stack[b]).dev], power'[Head(stack[b]).dev]),
         a \in asleep' => /\ stack'[a] # <<>>
                          /\ WaitsFor(Head(stack'[a]), power'[Head(stack'[a]).dev])
  PROVE  WaitInv'
<1>2. ASSUME NEW b \in asleep'
      PROVE  stack'[b] # <<>> /\ WaitsFor(Head(stack'[b]), power'[Head(stack'[b]).dev])
  <2>1. CASE b = a  BY <1>2, <2>1
  <2>2. CASE b # a
    <3>1. b \in asleep /\ b \in Actors  BY <1>2, <2>2 DEF IInv, TypeOK
    <3>2. stack'[b] = stack[b]  BY <2>2, <3>1 DEF OnlyOwn, Alone
    <3> DEFINE f == Head(stack[b])
    <3>3. WaitsFor(f, power[f.dev]) /\ stack[b] # <<>>  BY <3>1 DEF WaitInv
    <3>4. Lasts(power[f.dev], power'[f.dev])  BY <1>2, <2>2
    <3> HIDE DEF f
    <3>5. WaitsFor(f, power'[f.dev])  BY <3>3, <3>4 DEF WaitsFor, Lasts, Busy
    <3> QED  BY <3>2, <3>3, <3>5 DEF f
  <2> QED  BY <2>1, <2>2
<1>3. \A b \in asleep' : stack'[b] # <<>> /\ WaitsFor(Head(stack'[b]), power'[Head(stack'[b]).dev])
  BY <1>2
<1> QED  BY <1>3 DEF WaitInv, WaitsFor, Busy, Changing

LEMMA SleeperFrame ==
  ASSUME IInv, WaitInv, NEW b \in asleep
  PROVE  b \in Actors /\ stack[b] # <<>> /\ Head(stack[b]).dev \in Devices
<1>1. b \in Actors /\ TypeOK /\ StackInv /\ stack[b] # <<>>  BY DEF IInv, TypeOK, WaitInv
<1>2. Top(b) \in FrameType  BY <1>1, TopType
<1> QED  BY <1>1, <1>2 DEF Top, FrameType

(* Nobody falls asleep or is woken.                                        *)
LEMMA PlainWait ==
  ASSUME IInv, WaitInv, NEW a \in Actors, OnlyOwn(a), UNCHANGED asleep, PowerLasts
  PROVE  WaitInv'
<1>1. a \notin asleep'  BY DEF OnlyOwn
<1>2. \A b \in asleep' \ {a} : Lasts(power[Head(stack[b]).dev], power'[Head(stack[b]).dev])
  BY SleeperFrame DEF PowerLasts
<1> QED  BY <1>1, <1>2, WaitStep

(* Those that wait for d are woken.                                        *)
LEMMA WakeWait ==
  ASSUME IInv, WaitInv, NEW a \in Actors, OnlyOwn(a), NEW d \in Devices, WakeAll(d),
         \A e \in Devices \ {d} : Lasts(power[e], power'[e])
  PROVE  WaitInv'
<1>1. a \notin asleep' /\ asleep' \subseteq asleep  BY DEF OnlyOwn, WakeAll
<1>2. \A b \in asleep' : Head(stack[b]).dev # d  BY DEF WakeAll, Top
<1>3. \A b \in asleep' \ {a} : Lasts(power[Head(stack[b]).dev], power'[Head(stack[b]).dev])
  BY <1>1, <1>2, SleeperFrame
<1> QED  BY <1>1, <1>3, WaitStep

(* The actor falls asleep.                                                 *)
LEMMA SleepWait ==
  ASSUME IInv, WaitInv, NEW a \in Actors, OnlyOwn(a), asleep' = asleep \cup {a}, PowerLasts,
         stack'[a] # <<>>, WaitsFor(Head(stack'[a]), power'[Head(stack'[a]).dev])
  PROVE  WaitInv'
<1>1. \A b \in asleep' \ {a} : Lasts(power[Head(stack[b]).dev], power'[Head(stack[b]).dev])
  BY SleeperFrame DEF PowerLasts
<1> QED  BY <1>1, WaitStep

(* The stack of the actor alone changes.                                   *)
LEMMA OwnStack ==
  ASSUME IInv, NEW a \in Actors, a \notin asleep,
         \/ UNCHANGED stack \/ Return(a)
         \/ \E s : stack' = [stack EXCEPT ![a] = s]
         \/ \E f : Become(a, f)
         \/ \E at : Goto(a, at)
         \/ \E at, f : Call(a, at, f)
         \/ \E active : ResumeOut(a, active)
  PROVE  OnlyOwn(a)
BY AloneStack DEF OnlyOwn

LEMMA RunningAwake ==
  ASSUME NEW a \in Actors, NEW at, Running(a, at) PROVE a \notin asleep
BY DEF Running

LEMMA IdleAwake ==
  ASSUME WaitInv, NEW a \in Actors, stack[a] = <<>> PROVE a \notin asleep
BY DEF WaitInv

(* The powers.                                                             *)
LEMMA LastsSet ==
  ASSUME IInv, NEW d \in Devices, NEW q, SetPower(d, q), Lasts(power[d], q)
  PROVE  PowerLasts
<1>1. power'[d] = q /\ \A e \in Devices \ {d} : power'[e] = power[e]
  BY DEF IInv, TypeOK, SetPower
<1>2. \A e \in Devices : Lasts(power[e], power[e])  BY LastsSame
<1> QED  BY <1>1, <1>2 DEF PowerLasts

LEMMA LastsUnchanged == ASSUME UNCHANGED power PROVE PowerLasts
BY LastsSame DEF PowerLasts

LEMMA QueueLasts ==
  ASSUME NEW p \in PowerType, NEW r \in Requests
  PROVE  Lasts(p, QueueRequest(p, r))
BY DEF PowerType, QueueRequest, Lasts, Changing

LEMMA IdleAsyncLasts ==
  ASSUME NEW p \in PowerType, NEW d \in Devices
  PROVE  Lasts(p, rpm_idle_async(p, d))
<1>1. "IDLE" \in Requests  BY DEF Requests
<1>2. Lasts(p, QueueRequest(p, "IDLE")) /\ Lasts(p, p)  BY <1>1, QueueLasts, LastsSame
<1> QED  BY <1>2 DEF rpm_idle_async

LEMMA CancelLasts ==
  ASSUME NEW p \in PowerType
  PROVE  Lasts(p, pm_runtime_cancel_pending(p))
BY DEF PowerType, pm_runtime_cancel_pending, Lasts, Changing

LEMMA CountersLast ==
  ASSUME NEW p \in PowerType, NEW n
  PROVE  /\ Lasts(p, [p EXCEPT !.usage = n])
         /\ Lasts(p, [p EXCEPT !.children = n])
         /\ Lasts(p, [p EXCEPT !.depth = n])
         /\ Lasts(p, [p EXCEPT !.work = n])
         /\ Lasts(p, [p EXCEPT !.timer = n])
         /\ \A auto : Lasts(p, [p EXCEPT !.auto = auto, !.usage = n])
         /\ \A new : Lasts(p, [p EXCEPT !.autosuspend = new, !.usage = n])
         /\ \A m : Lasts(p, [p EXCEPT !.usage = n, !.depth = m])
         /\ Lasts(p, [p EXCEPT !.error = FALSE])
BY DEF PowerType, Lasts, Changing

(* The actions of the rpm_ functions.                                      *)
LEMMA IdleWait ==
  ASSUME IInv, WaitInv, NEW a \in Actors, rpm_idle(a) \/ runtime_idle(a) \/ rpm_idle_end(a)
  PROVE  WaitInv'
<1>1. CASE rpm_idle(a)
  <2>1. Running(a, "idle") /\ UNCHANGED asleep  BY <1>1 DEF rpm_idle, Section
  <2>2. PICK d \in Devices : d = Top(a).dev /\ power[d] \in PowerType  BY <2>1, AtTop
  <2>3. OnlyOwn(a)
    <3>1. Return(a) \/ Goto(a, "idle_cb")  BY <1>1 DEF rpm_idle
    <3> QED  BY <2>1, <3>1, RunningAwake, OwnStack
  <2> DEFINE q == [power[d] EXCEPT !.request = "NONE", !.idle = TRUE]
  <2>4. \/ SetPower(d, rpm_idle_async(power[d], d)) \/ UNCHANGED power \/ SetPower(d, q)
    BY <1>1, <2>2 DEF rpm_idle
  <2>5. Lasts(power[d], q)  BY <2>2 DEF PowerType, Lasts, Changing
  <2> HIDE DEF q
  <2>6. PowerLasts  BY <2>2, <2>4, <2>5, IdleAsyncLasts, LastsSet, LastsUnchanged
  <2> QED  BY <2>1, <2>3, <2>6, PlainWait
<1>2. CASE runtime_idle(a)
  <2>1. Running(a, "idle_cb") /\ UNCHANGED asleep /\ UNCHANGED power  BY <1>2 DEF runtime_idle
  <2>2. Goto(a, "idle_end") \/ \E at, f : Call(a, at, f)  BY <1>2 DEF runtime_idle
  <2>3. OnlyOwn(a)  BY <2>1, <2>2, RunningAwake, OwnStack
  <2> QED  BY <2>1, <2>3, LastsUnchanged, PlainWait
<1>3. CASE rpm_idle_end(a)
  <2>1. Running(a, "idle_end") /\ Return(a)  BY <1>3 DEF rpm_idle_end, Section
  <2>2. PICK d \in Devices : d = Top(a).dev /\ power[d] \in PowerType  BY <2>1, AtTop
  <2>3. OnlyOwn(a)  BY <2>1, RunningAwake, OwnStack
  <2> DEFINE q == [power[d] EXCEPT !.idle = FALSE, !.unwoken = FALSE]
  <2>4. SetPower(d, q) /\ WakeAll(d)  BY <1>3, <2>2 DEF rpm_idle_end
  <2>5. power'[d] = q /\ \A e \in Devices \ {d} : power'[e] = power[e]
    BY <2>4 DEF SetPower, IInv, TypeOK
  <2> HIDE DEF q
  <2> QED  BY <2>3, <2>4, <2>5, LastsSame, WakeWait
<1> QED  BY <1>1, <1>2, <1>3

LEMMA NotifyWait ==
  ASSUME IInv, WaitInv, NEW a \in Actors, suspend_notify(a) \/ resume_put_idle(a)
  PROVE  WaitInv'
<1>1. PICK at \in {"suspend_notify", "resume_put_idle"} : Running(a, at)
  BY DEF suspend_notify, resume_put_idle, Section
<1>2. TypeOK /\ Top(a) \in GoodFrame /\ Top(a).at = at  BY <1>1, AtTop
<1>3. PICK u \in Devices : u = Parent[Top(a).dev] /\ power[u] \in PowerType
  BY <1>1, <1>2, PMAssumption DEF GoodFrame, FrameType, TypeOK
<1>4. SetPower(u, rpm_idle_async(power[u], u)) /\ Return(a) /\ UNCHANGED asleep
  BY <1>3 DEF suspend_notify, resume_put_idle
<1>5. OnlyOwn(a)  BY <1>1, <1>4, RunningAwake, OwnStack
<1>6. PowerLasts  BY <1>3, <1>4, IdleAsyncLasts, LastsSet
<1> QED  BY <1>4, <1>5, <1>6, PlainWait

LEMMA WokenWait ==
  ASSUME IInv, WaitInv, NEW a \in Actors, suspend_woken(a) \/ resume_woken(a)
  PROVE  WaitInv'
<1>1. PICK at \in {"suspend_wait", "resume_wait"} : Running(a, at)
  BY DEF suspend_woken, resume_woken, Section
<1>2. PICK d \in Devices : d = Top(a).dev  BY <1>1, AtTop
<1>3. UNCHANGED power /\ PowerLasts  BY LastsUnchanged DEF suspend_woken, resume_woken
<1>4. CASE UNCHANGED asleep
  <2>1. UNCHANGED stack \/ Goto(a, "suspend") \/ Goto(a, "resume")
    BY DEF suspend_woken, resume_woken
  <2>2. OnlyOwn(a)  BY <1>1, <2>1, RunningAwake, OwnStack
  <2> QED  BY <1>3, <1>4, <2>2, PlainWait
<1>5. CASE /\ asleep' = asleep \cup {a} /\ UNCHANGED stack
           /\ \/ Running(a, "suspend_wait") /\ power[d].status = "SUSPENDING"
              \/ Running(a, "resume_wait") /\ Changing(power[d])
  <2>1. OnlyOwn(a)  BY <1>1, <1>5, RunningAwake, OwnStack
  <2>2. stack'[a] = stack[a] /\ stack[a] # <<>>  BY <1>5 DEF Running
  <2>3. WaitsFor(Top(a), power[d])  BY <1>5 DEF Running, WaitsFor, WaitAts
  <2>4. WaitsFor(Head(stack'[a]), power'[Head(stack'[a]).dev])
    BY <1>2, <1>3, <2>2, <2>3 DEF Top
  <2> QED  BY <1>3, <1>5, <2>1, <2>2, <2>4, SleepWait
<1> QED  BY <1>2, <1>4, <1>5 DEF suspend_woken, resume_woken, Section

(* A call goes to sleep in front of what it waits for.                     *)
LEMMA GotoSleep ==
  ASSUME IInv, NEW a \in Actors, NEW at, Running(a, at), NEW to \in WaitAts, Goto(a, to)
  PROVE  /\ stack'[a] # <<>> /\ Head(stack'[a]).at = to
         /\ Head(stack'[a]).dev = Top(a).dev
<1> DEFINE f == Top(a)
           g == [f EXCEPT !.at = to]
<1>1. /\ stack[a] # <<>> /\ f \in FrameType /\ stack \in [Actors -> Seq(FrameType)]
  BY AtTop DEF TypeOK
<1>2. stack' = [stack EXCEPT ![a] = <<g>> \o Tail(stack[a])]  BY DEF Goto, Become
<1>3. g \in FrameType /\ g.at = to /\ g.dev = f.dev  BY <1>1 DEF FrameType, WaitAts
<1>4. stack[a] \in Seq(FrameType)  BY <1>1
<1> HIDE DEF f, g, FrameType
<1>5. Tail(stack[a]) \in Seq(FrameType)  BY <1>1, <1>4, HeadTailProperties
<1>6. stack'[a] = <<g>> \o Tail(stack[a])  BY <1>1, <1>2
<1>7. stack'[a] # <<>> /\ Head(stack'[a]) = g  BY <1>3, <1>5, <1>6
<1> QED  BY <1>3, <1>7 DEF f

LEMMA SuspendWait ==
  ASSUME IInv, WaitInv, NEW a \in Actors, rpm_suspend(a)
  PROVE  WaitInv'
<1>1. Running(a, "suspend")  BY DEF rpm_suspend, Section
<1>2. PICK d \in Devices : d = Top(a).dev /\ power[d] \in PowerType  BY <1>1, AtTop
<1>3. \/ Return(a) \/ Goto(a, "suspend_wait") \/ Goto(a, "suspend_cb")  BY DEF rpm_suspend
<1>4. OnlyOwn(a)  BY <1>1, <1>3, RunningAwake, OwnStack
<1> DEFINE p == power[d]
           q == pm_runtime_cancel_pending(p)
           req == IF "AUTO" \in Top(a).flags THEN "AUTOSUSPEND" ELSE "SUSPEND"
           q1 == [p EXCEPT !.request = "NONE", !.timer = "auto"]
           q2 == [q EXCEPT !.deferred = FALSE]
           q3 == QueueRequest(q2, req)
           q4 == [q EXCEPT !.deferred = FALSE, !.status = "SUSPENDING"]
<1>5. q \in PowerType /\ Lasts(p, q) /\ q.status = p.status
  BY <1>2, CancelType, CancelLasts DEF SamePower
<1>6. PowerLasts /\ (SetPower(d, q) => power'[d] = q)
  <2>1. Lasts(p, q1) /\ Lasts(p, p)  BY <1>2, LastsSame DEF PowerType, Lasts, Changing
  <2>2. \/ UNCHANGED power \/ SetPower(d, q) \/ SetPower(d, q1) \/ SetPower(d, q3)
        \/ ~Changing(p) /\ SetPower(d, q4)
    BY <1>2 DEF rpm_suspend, SuspendGoes, Changing
  <2> HIDE DEF q, q1
  <2>3. q2 \in PowerType /\ Lasts(q, q2)  BY <1>5 DEF PowerType, Lasts, Changing
  <2>4. ~Changing(p) => Lasts(p, q4)
    BY <1>2, <1>5 DEF PowerType, Lasts, Changing
  <2>5. req \in Requests  BY DEF Requests
  <2> HIDE DEF q2, req
  <2>6. Lasts(q2, q3)  BY <2>3, <2>5, QueueLasts
  <2> HIDE DEF q3, q4
  <2>7. Lasts(p, q3)  BY <1>5, <2>3, <2>6 DEF Lasts
  <2>8. PowerLasts  BY <1>5, <2>1, <2>2, <2>4, <2>7, LastsSet, LastsUnchanged
  <2>9. SetPower(d, q) => power'[d] = q  BY DEF SetPower, IInv, TypeOK
  <2> QED  BY <2>8, <2>9
<1> HIDE DEF q
<1>7. CASE UNCHANGED asleep  BY <1>4, <1>6, <1>7, PlainWait
<1>8. CASE /\ p.status = "SUSPENDING" /\ SetPower(d, q) /\ asleep' = asleep \cup {a}
           /\ Goto(a, "suspend_wait")
  <2>1. "suspend_wait" \in WaitAts  BY DEF WaitAts
  <2>2. /\ stack'[a] # <<>> /\ Head(stack'[a]).at = "suspend_wait" /\ Head(stack'[a]).dev = d
    BY <1>1, <1>2, <1>8, <2>1, GotoSleep
  <2>3. power'[d].status = "SUSPENDING"  BY <1>5, <1>6, <1>8
  <2>4. WaitsFor(Head(stack'[a]), power'[Head(stack'[a]).dev])
    BY <2>1, <2>2, <2>3 DEF WaitsFor
  <2> QED  BY <1>4, <1>6, <1>8, <2>2, <2>4, SleepWait
<1> QED  BY <1>2, <1>7, <1>8 DEF rpm_suspend, q

LEMMA SuspendEndWait ==
  ASSUME IInv, WaitInv, NEW a \in Actors, suspend_done(a) \/ suspend_failed(a)
  PROVE  WaitInv'
<1>1. Running(a, "suspend_cb")  BY DEF suspend_done, suspend_failed, Section
<1>2. PICK d \in Devices : d = Top(a).dev /\ power[d] \in PowerType  BY <1>1, AtTop
<1>3. TypeOK  BY <1>1, AtTop
<1>4. \/ Return(a) \/ Goto(a, "suspend_notify") \/ Goto(a, "suspend")
      \/ Become(a, Frame("resume", d, {}))
  BY <1>2 DEF suspend_done, suspend_failed
<1>5. OnlyOwn(a)  BY <1>1, <1>4, RunningAwake, OwnStack
<1>6. CASE suspend_done(a)
  <2> DEFINE p == [power[d] EXCEPT !.error = FALSE, !.status = "SUSPENDED", !.timer = "off",
                            !.unwoken = FALSE]
             u == Parent[d]
  <2>1. /\ power' = [e \in Devices |-> IF e = d THEN p
                        ELSE IF e = u /\ power[e].children > 0
                        THEN [power[e] EXCEPT !.children = @ - 1]
                        ELSE power[e]]
        /\ WakeAll(d)
    BY <1>2, <1>6 DEF suspend_done
  <2> HIDE DEF p
  <2>2. ASSUME NEW e \in Devices \ {d} PROVE Lasts(power[e], power'[e])
    <3>1. power[e] \in PowerType  BY <1>3 DEF TypeOK
    <3> DEFINE c == [power[e] EXCEPT !.children = power[e].children - 1]
    <3>2. Lasts(power[e], power[e]) /\ Lasts(power[e], c)  BY <3>1, LastsSame, CountersLast
    <3>3. power'[e] = power[e] \/ power'[e] = c  BY <2>1
    <3> HIDE DEF c
    <3> QED  BY <3>2, <3>3
  <2> QED  BY <1>5, <2>1, <2>2, WakeWait
<1>7. CASE suspend_failed(a)
  <2> DEFINE p == [power[d] EXCEPT !.status = "ACTIVE", !.deferred = FALSE, !.unwoken = FALSE]
             q0 == [p EXCEPT !.error = FALSE, !.unwoken = TRUE]
  <2>1. CASE SetPower(d, q0) /\ UNCHANGED asleep
    <3>1. p \in PowerType  BY <1>2, ZenonT(30) DEF PowerType, Statuses
    <3> HIDE DEF p
    <3>2. q0.unwoken  BY <3>1 DEF PowerType
    <3> HIDE DEF q0
    <3>3. PowerLasts  BY <2>1, <3>2, LastsSet DEF Lasts
    <3> QED  BY <1>5, <2>1, <3>3, PlainWait
  <2>2. CASE WakeAll(d)
    <3>1. \E q : SetPower(d, q)  BY <1>2, <1>7 DEF suspend_failed
    <3>2. \A e \in Devices \ {d} : power'[e] = power[e]  BY <1>3, <3>1 DEF SetPower, TypeOK
    <3> QED  BY <1>5, <2>2, <3>2, LastsSame, WakeWait
  <2> QED  BY <1>2, <1>7, <2>1, <2>2 DEF suspend_failed
<1> QED  BY <1>6, <1>7

LEMMA ResumeWait ==
  ASSUME IInv, WaitInv, NEW a \in Actors, rpm_resume(a)
  PROVE  WaitInv'
<1>1. Running(a, "resume")  BY DEF rpm_resume, Section
<1>2. PICK d \in Devices : d = Top(a).dev /\ power[d] \in PowerType  BY <1>1, AtTop
<1>3. TypeOK  BY <1>1, AtTop
<1> DEFINE p == power[d]
           q == [p EXCEPT !.request = "NONE", !.timer = IF @ = "suspend" THEN "off" ELSE @]
           q1 == [q EXCEPT !.deferred = @ \/ p.status = "SUSPENDING"]
           q2 == QueueRequest(q, "RESUME")
           q3 == [q EXCEPT !.status = "RESUMING"]
           u == Parent[d]
<1>4. \/ ResumeOut(a, TRUE) \/ ResumeOut(a, FALSE) \/ Goto(a, "resume_wait")
      \/ Goto(a, "resume_cb") \/ \E f : Become(a, f)
  BY DEF rpm_resume
<1>5. OnlyOwn(a)  BY <1>1, <1>4, RunningAwake, OwnStack
<1>6. q \in PowerType /\ Lasts(p, q) /\ q.status = p.status
  <2>1. p \in PowerType  BY <1>2
  <2> QED  BY <2>1, ZenonT(60) DEF PowerType, Requests, Lasts, Changing
<1>7. PowerLasts /\ (SetPower(d, q) => power'[d] = q)
  <2>1. \/ UNCHANGED power \/ SetPower(d, q) \/ SetPower(d, q1) \/ SetPower(d, q2)
        \/ ~Changing(p) /\ SetPower(d, q3)
        \/ u # NULL /\ power' = [power EXCEPT ![d] = q, ![u].usage = @ + 1]
    BY <1>2 DEF rpm_resume, Quiet
  <2>2. CASE u # NULL /\ power' = [power EXCEPT ![d] = q, ![u].usage = @ + 1]
    <3>1. u \in Devices /\ u # d  BY <2>2, PMAssumption
    <3>2. power[u] \in PowerType  BY <1>3, <3>1 DEF TypeOK
    <3> DEFINE n == power[u].usage + 1
               v == [power[u] EXCEPT !.usage = n]
    <3>3. power'[d] = q /\ power'[u] = v /\ \A e \in Devices \ {d, u} : power'[e] = power[e]
      BY <1>3, <2>2, <3>1 DEF TypeOK
    <3> HIDE DEF n
    <3>4. Lasts(power[u], v)  BY <3>2, CountersLast
    <3> HIDE DEF v, q
    <3>5. PowerLasts  BY <1>6, <3>3, <3>4, LastsSame DEF PowerLasts
    <3>6. SetPower(d, q) => power'[d] = q  BY <1>3 DEF SetPower, TypeOK
    <3> QED  BY <3>5, <3>6
  <2> HIDE DEF q
  <2>3. Lasts(q, q1) /\ (~Changing(p) => Lasts(p, q3))
    BY <1>6 DEF PowerType, Lasts, Changing
  <2>4. "RESUME" \in Requests  BY DEF Requests
  <2>5. Lasts(q, q2)  BY <1>6, <2>4, QueueLasts
  <2> HIDE DEF q1, q2, q3
  <2>6. Lasts(p, q1) /\ Lasts(p, q2)  BY <1>6, <2>3, <2>5 DEF Lasts
  <2>7. CASE \/ UNCHANGED power \/ SetPower(d, q) \/ SetPower(d, q1) \/ SetPower(d, q2)
             \/ ~Changing(p) /\ SetPower(d, q3)
    <3>1. PowerLasts  BY <1>6, <2>3, <2>6, <2>7, LastsSet, LastsUnchanged
    <3>2. SetPower(d, q) => power'[d] = q  BY <1>3 DEF SetPower, TypeOK
    <3> QED  BY <3>1, <3>2
  <2> QED  BY <2>1, <2>2, <2>7 DEF q
<1> HIDE DEF q
<1>8. CASE UNCHANGED asleep  BY <1>5, <1>7, <1>8, PlainWait
<1>9. CASE /\ Changing(p) /\ SetPower(d, q) /\ asleep' = asleep \cup {a}
           /\ Goto(a, "resume_wait")
  <2>1. "resume_wait" \in WaitAts  BY DEF WaitAts
  <2>2. /\ stack'[a] # <<>> /\ Head(stack'[a]).at = "resume_wait" /\ Head(stack'[a]).dev = d
    BY <1>1, <1>2, <1>9, <2>1, GotoSleep
  <2>3. Changing(power'[d])  BY <1>6, <1>7, <1>9 DEF Changing
  <2>4. WaitsFor(Head(stack'[a]), power'[Head(stack'[a]).dev])
    BY <2>1, <2>2, <2>3 DEF WaitsFor
  <2> QED  BY <1>5, <1>7, <1>9, <2>2, <2>4, SleepWait
<1> QED  BY <1>2, <1>8, <1>9 DEF rpm_resume, q

LEMMA ResumeParentWait ==
  ASSUME IInv, WaitInv, NEW a \in Actors, resume_parent(a) \/ resume_parent_ret(a)
  PROVE  WaitInv'
<1>1. PICK at \in {"resume_parent", "resume_parent_ret"} : Running(a, at)
  BY DEF resume_parent, resume_parent_ret
<1>2. PowerLasts /\ UNCHANGED asleep  BY LastsUnchanged DEF resume_parent, resume_parent_ret
<1>3. (\E f : Call(a, "resume_parent_ret", f)) \/ (\E to : Goto(a, to))
  BY DEF resume_parent, resume_parent_ret
<1>4. OnlyOwn(a)  BY <1>1, <1>3, RunningAwake, OwnStack
<1> QED  BY <1>2, <1>4, PlainWait

LEMMA ResumeEndWait ==
  ASSUME IInv, WaitInv, NEW a \in Actors, resume_done(a) \/ resume_failed(a)
  PROVE  WaitInv'
<1>1. Running(a, "resume_cb") /\ (ResumeOut(a, TRUE) \/ ResumeOut(a, FALSE))
  BY DEF resume_done, resume_failed, Section
<1>2. PICK d \in Devices : d = Top(a).dev /\ power[d] \in PowerType  BY <1>1, AtTop
<1>3. TypeOK  BY <1>1, AtTop
<1>4. OnlyOwn(a)  BY <1>1, RunningAwake, OwnStack
<1>5. WakeAll(d)  BY <1>2 DEF resume_done, resume_failed
<1>6. CASE resume_done(a)
  <2> DEFINE p == [power[d] EXCEPT !.error = FALSE, !.status = "ACTIVE", !.unwoken = FALSE]
             u == Parent[d]
  <2>1. power' = [e \in Devices |-> IF e = d THEN rpm_idle_async(p, d)
                      ELSE IF e = u THEN [power[e] EXCEPT !.children = @ + 1]
                      ELSE power[e]]
    BY <1>2, <1>6 DEF resume_done
  <2> HIDE DEF p
  <2>2. ASSUME NEW e \in Devices \ {d} PROVE Lasts(power[e], power'[e])
    <3>1. power[e] \in PowerType  BY <1>3 DEF TypeOK
    <3> DEFINE c == [power[e] EXCEPT !.children = power[e].children + 1]
    <3>2. Lasts(power[e], power[e]) /\ Lasts(power[e], c)  BY <3>1, LastsSame, CountersLast
    <3>3. power'[e] = power[e] \/ power'[e] = c  BY <2>1
    <3> HIDE DEF c
    <3> QED  BY <3>2, <3>3
  <2> QED  BY <1>4, <1>5, <2>2, WakeWait
<1>7. CASE resume_failed(a)
  <2>1. \E q : SetPower(d, q)  BY <1>2, <1>7 DEF resume_failed
  <2>2. \A e \in Devices \ {d} : power'[e] = power[e]  BY <1>3, <2>1 DEF SetPower, TypeOK
  <2> QED  BY <1>4, <1>5, <2>2, LastsSame, WakeWait
<1> QED  BY <1>6, <1>7

LEMMA ResumePutWait ==
  ASSUME IInv, WaitInv, NEW a \in Actors, resume_put(a)
  PROVE  WaitInv'
<1>1. Running(a, "resume_put") /\ UNCHANGED asleep  BY DEF resume_put, Section
<1>2. Top(a) \in GoodFrame /\ Top(a) \in FrameType /\ TypeOK /\ Top(a).at = "resume_put"
  BY <1>1, AtTop
<1>3. PICK u \in Devices : u = Parent[Top(a).dev] /\ power[u] \in PowerType
  BY <1>2, PMAssumption DEF GoodFrame, FrameType, TypeOK
<1> DEFINE n == power[u].usage - 1
           q == [power[u] EXCEPT !.usage = n]
<1>4. SetPower(u, q)  BY <1>2, <1>3 DEF resume_put, TypeOK, SetPower
<1> HIDE DEF n
<1>5. Lasts(power[u], q)  BY <1>3, CountersLast
<1> HIDE DEF q
<1>6. PowerLasts  BY <1>4, <1>5, LastsSet
<1>7. (\E f : Become(a, f)) \/ Return(a)  BY DEF resume_put
<1>8. OnlyOwn(a)  BY <1>1, <1>7, RunningAwake, OwnStack
<1> QED  BY <1>1, <1>6, <1>8, PlainWait

LEMMA WorkWait ==
  ASSUME IInv, WaitInv, NEW d \in Devices, Worker(d) \/ pm_suspend_timer_fn(d)
  PROVE  WaitInv'
<1>0. d \in Actors /\ SOFTIRQ \in Actors  BY DeviceActor
<1> DEFINE p == power[d]
<1>1. TypeOK /\ p \in PowerType  BY DEF IInv, TypeOK
<1>2. UNCHANGED asleep  BY DEF Worker, work_start, pm_runtime_work, pm_suspend_timer_fn
<1>3. CASE work_start(d)
  <2>1. /\ SetPower(d, [p EXCEPT !.work = "off"]) /\ stack[d] = <<>>
        /\ \E s : stack' = [stack EXCEPT ![d] = s]
    BY <1>3 DEF work_start
  <2>2. OnlyOwn(d)  BY <1>0, <2>1, IdleAwake, OwnStack
  <2>3. PowerLasts  BY <1>1, <2>1, CountersLast, LastsSet
  <2> QED  BY <1>0, <1>2, <2>2, <2>3, PlainWait
<1>4. CASE pm_runtime_work(d)
  <2>1. Running(d, "work")  BY <1>4 DEF pm_runtime_work, Section
  <2> DEFINE q == IF p.pending THEN [p EXCEPT !.request = "NONE", !.pending = FALSE] ELSE p
  <2>2. Lasts(p, q)  BY <1>1 DEF PowerType, Lasts, Changing
  <2>3. SetPower(d, q) /\ (Return(d) \/ \E f : Become(d, f))  BY <1>4 DEF pm_runtime_work
  <2> HIDE DEF q
  <2>4. OnlyOwn(d)  BY <1>0, <2>1, <2>3, RunningAwake, OwnStack
  <2>5. PowerLasts  BY <2>2, <2>3, LastsSet
  <2> QED  BY <1>0, <1>2, <2>4, <2>5, PlainWait
<1>5. CASE pm_suspend_timer_fn(d)
  <2>1. /\ SetPower(d, [p EXCEPT !.timer = "off"]) /\ stack[SOFTIRQ] = <<>>
        /\ \E s : stack' = [stack EXCEPT ![SOFTIRQ] = s]
    BY <1>5 DEF pm_suspend_timer_fn
  <2>2. OnlyOwn(SOFTIRQ)  BY <1>0, <2>1, IdleAwake, OwnStack
  <2>3. PowerLasts  BY <1>1, <2>1, CountersLast, LastsSet
  <2> QED  BY <1>0, <1>2, <2>2, <2>3, PlainWait
<1> QED  BY <1>3, <1>4, <1>5 DEF Worker

(* The calls a task makes.  __pm_runtime_set_status() sets the status of a *)
(* device that is in no callback.                                          *)
LEMMA SetStatusLasts ==
  ASSUME IInv, NEW t \in Tasks, NEW d \in Devices, MaySetStatus(d),
         __pm_runtime_set_status(t, d)
  PROVE  PowerLasts
<1> DEFINE p == power[d]
           u == Parent[d]
<1>0. TypeOK /\ p \in PowerType  BY DEF IInv, TypeOK
<1>1. ~Changing(p)  BY DEF MaySetStatus
<1>2. CASE SetPower(d, [p EXCEPT !.error = FALSE])  BY <1>0, <1>2, CountersLast, LastsSet
<1>3. ASSUME NEW status, NEW n,
             power'[d] = [p EXCEPT !.status = status, !.error = FALSE],
             \A e \in Devices \ {d} : \/ power'[e] = power[e]
                                      \/ power'[e] = [power[e] EXCEPT !.children = n]
      PROVE  PowerLasts
  <2> DEFINE q == [p EXCEPT !.status = status, !.error = FALSE]
  <2>1. (q.idle <=> p.idle) /\ (q.unwoken <=> p.unwoken)  BY <1>0 DEF PowerType
  <2>2. power'[d] = q  BY <1>3
  <2> HIDE DEF q
  <2>3. Lasts(p, q)  BY <1>1, <2>1 DEF Lasts, Changing
  <2>4. ASSUME NEW e \in Devices \ {d} PROVE Lasts(power[e], power'[e])
    <3>1. power[e] \in PowerType  BY <1>0 DEF TypeOK
    <3> DEFINE c == [power[e] EXCEPT !.children = n]
    <3>2. Lasts(power[e], power[e]) /\ Lasts(power[e], c)  BY <3>1, LastsSame, CountersLast
    <3>3. power'[e] = power[e] \/ power'[e] = c  BY <1>3
    <3> HIDE DEF c
    <3> QED  BY <3>2, <3>3
  <2> QED  BY <2>2, <2>3, <2>4 DEF PowerLasts
<1>4. CASE power' = [e \in Devices |->
                 IF e = d THEN [p EXCEPT !.status = "SUSPENDED", !.error = FALSE]
                 ELSE IF e = u /\ power[e].children > 0
                 THEN [power[e] EXCEPT !.children = @ - 1]
                 ELSE power[e]]
  <2> DEFINE n == power[u].children - 1
  <2>1. \A e \in Devices \ {d} : \/ power'[e] = power[e]
                                 \/ power'[e] = [power[e] EXCEPT !.children = n]
    BY <1>4
  <2>2. power'[d] = [p EXCEPT !.status = "SUSPENDED", !.error = FALSE]  BY <1>4
  <2> HIDE DEF n
  <2> QED  BY <1>3, <2>1, <2>2
<1>5. CASE power' = [e \in Devices |->
                 IF e = d THEN [p EXCEPT !.status = "ACTIVE", !.error = FALSE]
                 ELSE IF e = u /\ p.status = "SUSPENDED"
                 THEN [power[e] EXCEPT !.children = @ + 1]
                 ELSE power[e]]
  <2> DEFINE n == power[u].children + 1
  <2>1. \A e \in Devices \ {d} : \/ power'[e] = power[e]
                                 \/ power'[e] = [power[e] EXCEPT !.children = n]
    BY <1>5
  <2>2. power'[d] = [p EXCEPT !.status = "ACTIVE", !.error = FALSE]  BY <1>5
  <2> HIDE DEF n
  <2> QED  BY <1>3, <2>1, <2>2
<1> QED  BY <1>2, <1>4, <1>5 DEF __pm_runtime_set_status

LEMMA StartWait ==
  ASSUME IInv, WaitInv, NEW t \in Tasks, NEW d \in Devices, Start(t, d)
  PROVE  WaitInv'
<1> DEFINE p == power[d]
<1>0. t \in Actors /\ TypeOK /\ p \in PowerType  BY DEF Actors, IInv, TypeOK
<1>2. stack[t] = <<>> /\ UNCHANGED asleep
  BY DEF Start, __pm_runtime_idle, __pm_runtime_suspend, __pm_runtime_resume,
         pm_schedule_suspend, pm_runtime_forbid, pm_runtime_allow, update_autosuspend,
         __pm_runtime_set_status, pm_runtime_disable, pm_runtime_barrier
<1>3. UNCHANGED stack \/ \E f : Enter(t, f)
  BY DEF Start, __pm_runtime_idle, __pm_runtime_suspend, __pm_runtime_resume, PutAndCall,
         pm_schedule_suspend, pm_runtime_forbid, pm_runtime_allow, update_autosuspend,
         __pm_runtime_set_status, pm_runtime_disable, pm_runtime_barrier
<1>4. OnlyOwn(t)
  <2>1. UNCHANGED stack \/ \E s : stack' = [stack EXCEPT ![t] = s]  BY <1>3 DEF Enter
  <2> QED  BY <1>0, <1>2, <2>1, IdleAwake, OwnStack
<1>5. ASSUME NEW n, SetPower(d, [p EXCEPT !.usage = n]) PROVE PowerLasts
  BY <1>0, <1>5, CountersLast, LastsSet
<1>6. power' = [power EXCEPT ![d].usage = @ - 1] => PowerLasts
  <2> DEFINE n == p.usage - 1
  <2>1. power' = [power EXCEPT ![d].usage = @ - 1] => SetPower(d, [p EXCEPT !.usage = n])
    BY <1>0 DEF SetPower, TypeOK
  <2> HIDE DEF n
  <2> QED  BY <1>5, <2>1
<1>7. power' = [power EXCEPT ![d].usage = @ + 1] => PowerLasts
  <2> DEFINE n == p.usage + 1
  <2>1. power' = [power EXCEPT ![d].usage = @ + 1] => SetPower(d, [p EXCEPT !.usage = n])
    BY <1>0 DEF SetPower, TypeOK
  <2> HIDE DEF n
  <2> QED  BY <1>5, <2>1
<1>8. PowerLasts
  <2>1. CASE \/ __pm_runtime_idle(t, d) \/ __pm_runtime_suspend(t, d)
             \/ __pm_runtime_resume(t, d) \/ pm_runtime_disable(t, d) \/ pm_runtime_barrier(t, d)
    <3>1. \/ UNCHANGED power
          \/ power' = [power EXCEPT ![d].usage = @ - 1]
          \/ power' = [power EXCEPT ![d].usage = @ + 1]
      BY <2>1 DEF __pm_runtime_idle, __pm_runtime_suspend, __pm_runtime_resume, PutAndCall,
                  pm_runtime_disable, pm_runtime_barrier
    <3> QED  BY <1>6, <1>7, <3>1, LastsUnchanged
  <2>2. CASE pm_schedule_suspend(t, d)
    <3> DEFINE o == pm_runtime_cancel_pending(p)
               q == [o EXCEPT !.timer = "suspend"]
    <3>1. o \in PowerType /\ Lasts(p, o)  BY <1>0, CancelType, CancelLasts
    <3>2. SetPower(d, q)  BY <2>2 DEF pm_schedule_suspend
    <3> HIDE DEF o
    <3>3. Lasts(o, q)  BY <3>1, CountersLast
    <3> HIDE DEF q
    <3>4. Lasts(p, q)  BY <3>1, <3>3 DEF Lasts
    <3> QED  BY <3>2, <3>4, LastsSet
  <2>3. CASE pm_runtime_forbid(t, d) \/ pm_runtime_allow(t, d)
    <3>1. PICK auto, n : SetPower(d, [p EXCEPT !.auto = auto, !.usage = n])
      BY <2>3 DEF pm_runtime_forbid, pm_runtime_allow
    <3> QED  BY <1>0, <3>1, CountersLast, LastsSet
  <2>4. CASE MaySetStatus(d) /\ __pm_runtime_set_status(t, d)  BY <2>4, SetStatusLasts
  <2>5. CASE update_autosuspend(t, d)
    <3>1. PICK new, n : SetPower(d, [p EXCEPT !.autosuspend = new, !.usage = n])
      BY <2>5 DEF update_autosuspend
    <3> QED  BY <1>0, <3>1, CountersLast, LastsSet
  <2> QED  BY <2>1, <2>2, <2>3, <2>4, <2>5 DEF Start
<1> QED  BY <1>0, <1>2, <1>4, <1>8, PlainWait

LEMMA EnableWait ==
  ASSUME IInv, WaitInv, NEW t \in Tasks, NEW d \in Devices, pm_runtime_enable(t, d)
  PROVE  WaitInv'
<1>0. t \in Actors /\ power[d] \in PowerType  BY DEF Actors, IInv, TypeOK
<1>1. /\ stack[t] = <<>> /\ UNCHANGED stack /\ UNCHANGED asleep
      /\ SetPower(d, [power[d] EXCEPT !.depth = IF @ > 0 THEN @ - 1 ELSE @])
  BY DEF pm_runtime_enable
<1>2. OnlyOwn(t)  BY <1>0, <1>1, IdleAwake, OwnStack
<1>3. PICK n : SetPower(d, [power[d] EXCEPT !.depth = n])  BY <1>1
<1>4. PowerLasts  BY <1>0, <1>3, CountersLast, LastsSet
<1> QED  BY <1>0, <1>1, <1>2, <1>4, PlainWait

LEMMA TaskWait ==
  ASSUME IInv, WaitInv, NEW t \in Tasks, RunTask(t)
  PROVE  WaitInv'
<1>0. t \in Actors  BY DEF Actors
<1>1. PICK at \in DriverAts : Running(t, at)
  BY DEF RunTask, __pm_runtime_disable, disable_resumed, barrier_enter, __pm_runtime_barrier,
         cancel_work_sync, barrier_cancelled, barrier_wait, Section, DriverAts, BarrierAts
<1>2. PICK d \in Devices : d = Top(t).dev /\ power[d] \in PowerType  BY <1>0, <1>1, AtTop
<1> DEFINE p == power[d]
<1>3. UNCHANGED stack \/ Return(t) \/ (\E to : Goto(t, to)) \/ \E to, f : Call(t, to, f)
  BY DEF RunTask, __pm_runtime_disable, disable_resumed, barrier_enter, __pm_runtime_barrier,
         cancel_work_sync, barrier_cancelled, barrier_wait
<1>4. OnlyOwn(t)  BY <1>0, <1>1, <1>3, RunningAwake, OwnStack
<1>5. PowerLasts
  <2>1. CASE __pm_runtime_disable(t) \/ disable_resumed(t) \/ barrier_wait(t)
    <3>1. \/ UNCHANGED power
          \/ \E n : SetPower(d, [p EXCEPT !.usage = n])
          \/ \E n : SetPower(d, [p EXCEPT !.depth = n])
          \/ \E n, m : SetPower(d, [p EXCEPT !.usage = n, !.depth = m])
      BY <1>2, <2>1 DEF __pm_runtime_disable, disable_resumed, barrier_wait
    <3> QED  BY <1>2, <3>1, CountersLast, LastsSet, LastsUnchanged
  <2>2. CASE barrier_enter(t) \/ cancel_work_sync(t)
    <3>1. UNCHANGED power \/ SetPower(d, [p EXCEPT !.work = "grabbed"])
      BY <1>2, <2>2 DEF barrier_enter, cancel_work_sync
    <3> QED  BY <1>2, <3>1, CountersLast, LastsSet, LastsUnchanged
  <2>3. CASE __pm_runtime_barrier(t) \/ barrier_cancelled(t)
    <3> DEFINE q1 == [p EXCEPT !.timer = "off", !.request = "NONE"]
               q2 == [p EXCEPT !.timer = "off"]
               q3 == [p EXCEPT !.work = "off", !.pending = FALSE,
                               !.swallowed = @ \/ p.request # "NONE"]
    <3>1. SetPower(d, q1) \/ SetPower(d, q2) \/ SetPower(d, q3)
      BY <1>2, <2>3 DEF __pm_runtime_barrier, barrier_cancelled
    <3>2. Lasts(p, q1) /\ Lasts(p, q2) /\ Lasts(p, q3)
      BY <1>2 DEF PowerType, Lasts, Changing
    <3> HIDE DEF q1, q2, q3
    <3> QED  BY <3>1, <3>2, LastsSet
  <2> QED  BY <2>1, <2>2, <2>3 DEF RunTask
<1>6. CASE UNCHANGED asleep  BY <1>0, <1>4, <1>5, <1>6, PlainWait
<1>7. CASE barrier_wait(t) /\ Busy(p) /\ asleep' = asleep \cup {t} /\ UNCHANGED <<power, stack>>
  <2>1. Top(t).at = "barrier_wait" /\ stack[t] # <<>>
    BY <1>7 DEF barrier_wait, Section, Running
  <2>2. WaitsFor(Top(t), p)  BY <1>7, <2>1 DEF WaitsFor, WaitAts
  <2>3. /\ stack'[t] # <<>>
        /\ WaitsFor(Head(stack'[t]), power'[Head(stack'[t]).dev])
    BY <1>2, <1>7, <2>1, <2>2 DEF Top
  <2> QED  BY <1>0, <1>4, <1>5, <1>7, <2>3, SleepWait
<1> QED  BY <1>2, <1>6, <1>7 DEF RunTask, __pm_runtime_disable, disable_resumed, barrier_enter,
            __pm_runtime_barrier, cancel_work_sync, barrier_cancelled, barrier_wait

(* An actor asleep on the wait queue of a device has something to wait     *)
(* for: every step of rpm_suspend, rpm_resume and rpm_idle that ends what  *)
(* it waits for wakes the queue, and only then is power.lock released.     *)
(* The one that does not, the repeated autosuspend of rpm_suspend, is on   *)
(* record in unwoken until the queue is woken again.                       *)
THEOREM WakeupCorrect == Spec => []NoLostWakeup
<1>1. Init => WaitInv  BY DEF Init, WaitInv
<1>2. IInv /\ WaitInv /\ [Next]_vars => WaitInv'
  <2> SUFFICES ASSUME IInv, WaitInv, [Next]_vars PROVE WaitInv'  OBVIOUS
  <2>1. ASSUME NEW a \in Actors, Run(a) PROVE WaitInv'
    BY <2>1, IdleWait, NotifyWait, WokenWait, SuspendWait, SuspendEndWait, ResumeWait,
       ResumeParentWait, ResumeEndWait, ResumePutWait DEF Run
  <2>2. ASSUME NEW t \in Tasks, RunTask(t) PROVE WaitInv'  BY <2>2, TaskWait
  <2>3. ASSUME NEW d \in Devices, Worker(d) \/ pm_suspend_timer_fn(d) PROVE WaitInv'
    BY <2>3, WorkWait
  <2>4. ASSUME NEW t \in Tasks, NEW d \in Devices, pm_runtime_enable(t, d) PROVE WaitInv'
    BY <2>4, EnableWait
  <2>5. ASSUME NEW t \in Tasks, NEW d \in Targets, Start(t, d) PROVE WaitInv'
    <3>1. d \in Devices  BY PMAssumption
    <3> QED  BY <2>5, <3>1, StartWait
  <2>6. CASE UNCHANGED vars
    BY <2>6 DEF vars, WaitInv, WaitsFor, Busy, Changing
  <2> QED  BY <2>1, <2>2, <2>3, <2>4, <2>5, <2>6 DEF Next
<1>3. WaitInv => NoLostWakeup
  <2> SUFFICES ASSUME WaitInv, NEW a \in asleep
               PROVE  WaitingFor(a) \/ power[Top(a).dev].unwoken
    BY DEF NoLostWakeup
  <2>1. WaitsFor(Top(a), power[Top(a).dev])  BY DEF WaitInv, Top
  <2> QED  BY <2>1 DEF WaitingFor, WaitsFor, WaitAts, Busy, Changing
<1> QED  BY <1>1, <1>2, <1>3, Invariance, PTL DEF Spec

(***************************************************************************)
(* Requests and their work items.                                          *)
(***************************************************************************)

(* A request is left alone or cancelled, or one is made.                   *)
Serves(p, q) ==
  \/ /\ q.pending <=> p.pending
     /\ q.work = p.work
     /\ q.request \in {p.request, "NONE"}
     /\ p.swallowed => q.swallowed
  \/ /\ q.pending
     /\ q.work = IF ~p.pending /\ p.work = "off" THEN "queued" ELSE p.work

PowerServes == \A e \in Devices : Serves(power[e], power'[e])

(* The actor a moves, and is neither looking nor cancelling.               *)
StackMoves(a) ==
  /\ \A b \in Actors \ {a} : stack'[b] = stack[b]
  /\ Orderly(stack'[a])
  /\ stack[a] # <<>> => Head(stack[a]).at \notin CancelAts \cup {"work"}
  /\ stack'[a] # <<>> => Head(stack'[a]).at \notin CancelAts

(* A step of an actor that does not cancel, before it or after it.         *)
LEMMA CancellingSame ==
  ASSUME NEW a \in Actors, NEW d \in Devices, \A b \in Actors \ {a} : stack'[b] = stack[b],
         stack[a] # <<>> => Head(stack[a]).dev # d \/ Head(stack[a]).at \notin CancelAts,
         stack'[a] # <<>> => Head(stack'[a]).dev # d \/ Head(stack'[a]).at \notin CancelAts
  PROVE  Cancelling(d)' <=> Cancelling(d)
<1>1. \A t \in Tasks : t \in Actors  BY DEF Actors
<1>2. Cancelling(d) <=> \E t \in Tasks : /\ stack[t] # <<>> /\ Head(stack[t]).dev = d
                                         /\ Head(stack[t]).at \in CancelAts
  BY DEF Cancelling, CancelAts, Top
<1>3. Cancelling(d)' <=> \E t \in Tasks : /\ stack'[t] # <<>> /\ Head(stack'[t]).dev = d
                                          /\ Head(stack'[t]).at \in CancelAts
  BY DEF Cancelling, CancelAts, Top
<1>4. ASSUME NEW t \in Tasks
      PROVE  (/\ stack[t] # <<>> /\ Head(stack[t]).dev = d /\ Head(stack[t]).at \in CancelAts)
             <=> (/\ stack'[t] # <<>> /\ Head(stack'[t]).dev = d
                  /\ Head(stack'[t]).at \in CancelAts)
  BY <1>1
<1> QED  BY <1>2, <1>3, <1>4

LEMMA RequestStep ==
  ASSUME IInv, IInv', RequestInv, NEW a \in Actors, StackMoves(a), PowerServes
  PROVE  RequestInv'
<1>1. \A b \in Actors : Orderly(stack'[b])
  BY DEF StackMoves, RequestInv
<1>2. ASSUME NEW d \in Devices PROVE Asked(d)'
  <2>1. d \in Actors  BY DEF Actors
  <2>2. Looking(d) => Looking(d)'
    BY <2>1 DEF Looking, StackMoves
  <2>3. Cancelling(d)' <=> Cancelling(d)
    BY CancellingSame DEF StackMoves
  <2>4. Asked(d)  BY DEF RequestInv
  <2>6. Serves(power[d], power'[d])  BY DEF PowerServes
  <2>7. power[d].work \in {"off", "queued", "grabbed"}  BY DEF IInv, TypeOK, PowerType
  <2> QED  BY <2>2, <2>3, <2>4, <2>6, <2>7 DEF Asked, Serves
<1> QED  BY <1>1, <1>2 DEF RequestInv, Orderly

(* The stacks.                                                             *)
LEMMA MovesPut ==
  ASSUME IInv, NEW a \in Actors, NEW s, Orderly(s), stack' = [stack EXCEPT ![a] = s],
         stack[a] # <<>> => Head(stack[a]).at \notin CancelAts \cup {"work"},
         s # <<>> => Head(s).at \notin CancelAts
  PROVE  StackMoves(a)
<1>1. stack \in [Actors -> Seq(FrameType)]  BY DEF IInv, TypeOK
<1>2. stack'[a] = s /\ \A b \in Actors \ {a} : stack'[b] = stack[b]  BY <1>1
<1> QED  BY <1>2 DEF StackMoves

LEMMA MovesReturn ==
  ASSUME IInv, RequestInv, NEW a \in Actors, NEW at, Running(a, at),
         at \notin CancelAts \cup {"work"}, Return(a)
  PROVE  StackMoves(a)
<1> DEFINE s == Tail(stack[a])
           C == CallerFrame
<1>1. stack[a] # <<>> /\ Head(stack[a]).at = at  BY DEF Running, Top
<1>2. stack' = [stack EXCEPT ![a] = s]  BY DEF Return
<1>3. s \in Seq(C)  BY <1>1 DEF RequestInv, Orderly
<1>4. \A f \in C : f.at \notin CancelAts  BY DEF CallerFrame, CancelAts
<1> HIDE DEF s, C
<1>5. s # <<>> => Head(s) \in C /\ Tail(s) \in Seq(C)  BY <1>3, HeadTailProperties
<1>6. Orderly(s)  BY <1>5 DEF Orderly, C
<1> QED  BY <1>1, <1>2, <1>4, <1>5, <1>6, MovesPut

LEMMA MovesBecome ==
  ASSUME IInv, RequestInv, NEW a \in Actors, NEW at, Running(a, at),
         at \notin CancelAts \cup {"work"}, NEW f \in FrameType, f.at \notin CancelAts,
         Become(a, f)
  PROVE  StackMoves(a)
<1> DEFINE s == <<f>> \o Tail(stack[a])
           C == CallerFrame
<1>1. stack[a] # <<>> /\ Head(stack[a]).at = at  BY DEF Running, Top
<1>2. stack' = [stack EXCEPT ![a] = s]  BY DEF Become
<1>3. Tail(stack[a]) \in Seq(C)  BY <1>1 DEF RequestInv, Orderly
<1> HIDE DEF C
<1>4. s # <<>> /\ Head(s) = f /\ Tail(s) = Tail(stack[a])
  <2> HIDE DEF FrameType
  <2> QED  BY <1>3
<1> HIDE DEF s
<1>5. Orderly(s)  BY <1>3, <1>4 DEF Orderly, C
<1> QED  BY <1>1, <1>2, <1>4, <1>5, MovesPut

LEMMA MovesCall ==
  ASSUME IInv, RequestInv, NEW a \in Actors, NEW at, Running(a, at),
         at \notin CancelAts \cup {"work"}, NEW f \in FrameType, f.at \notin CancelAts,
         NEW to, [Top(a) EXCEPT !.at = to] \in CallerFrame, Call(a, to, f)
  PROVE  StackMoves(a)
<1> DEFINE g == [Top(a) EXCEPT !.at = to]
           s == <<f, g>> \o Tail(stack[a])
           C == CallerFrame
<1>1. stack[a] # <<>> /\ Head(stack[a]).at = at  BY DEF Running, Top
<1>2. stack' = [stack EXCEPT ![a] = s] /\ g \in C  BY DEF Call
<1>3. Tail(stack[a]) \in Seq(C)  BY <1>1 DEF RequestInv, Orderly
<1> HIDE DEF C, g
<1>4. s # <<>> /\ Head(s) = f /\ Tail(s) \in Seq(C)
  <2> HIDE DEF FrameType
  <2> DEFINE T == Tail(stack[a])
  <2>1. T \in Seq(C) /\ g \in C  BY <1>2, <1>3
  <2> HIDE DEF T
  <2>2. <<f, g>> \o T # <<>> /\ Head(<<f, g>> \o T) = f  BY <2>1
  <2>3. Tail(<<f, g>> \o T) = <<g>> \o T  BY <2>1
  <2>4. <<g>> \o T \in Seq(C)  BY <2>1
  <2> QED  BY <2>2, <2>3, <2>4 DEF T
<1> HIDE DEF s
<1>5. Orderly(s)  BY <1>4 DEF Orderly, C
<1> QED  BY <1>1, <1>2, <1>4, <1>5, MovesPut

LEMMA MovesEnter ==
  ASSUME IInv, NEW a \in Actors, stack[a] = <<>>, NEW f \in FrameType, f.at \notin CancelAts,
         stack' = [stack EXCEPT ![a] = <<f>>]
  PROVE  StackMoves(a)
<1>1. Head(<<f>>) = f /\ Tail(<<f>>) = <<>> /\ <<>> \in Seq(CallerFrame)
  <2> HIDE DEF FrameType, CallerFrame
  <2> QED  OBVIOUS
<1>2. Orderly(<<f>>)  BY <1>1 DEF Orderly
<1> QED  BY <1>1, <1>2, MovesPut

LEMMA MovesStill ==
  ASSUME RequestInv, NEW a \in Actors, UNCHANGED stack,
         stack[a] # <<>> => Head(stack[a]).at \notin CancelAts \cup {"work"}
  PROVE  StackMoves(a)
BY DEF StackMoves, RequestInv

(* The frames; where a call begins.                                        *)
FirstAts == {"idle", "suspend", "resume", "work", "disable", "barrier_enter"}

LEMMA CallGoto ==
  ASSUME IInv, NEW a \in Actors, NEW at, Running(a, at), NEW to \in AllAts
  PROVE  /\ [Top(a) EXCEPT !.at = to] \in FrameType
         /\ [Top(a) EXCEPT !.at = to].at = to
         /\ [Top(a) EXCEPT !.at = to].dev = Top(a).dev
<1> DEFINE f == Top(a)
           g == [f EXCEPT !.at = to]
<1>1. f \in FrameType  BY AtTop
<1> HIDE DEF f
<1>2. g \in FrameType /\ g.at = to /\ g.flags = f.flags /\ g.dev = f.dev
  BY <1>1 DEF FrameType, AllAts, PlainAts, DriverAts, BarrierAts
<1> QED  BY <1>2 DEF f

LEMMA CallNew ==
  ASSUME NEW at \in FirstAts, NEW d \in Devices,
         NEW flags \in SUBSET (CallFlags \cup {"DISABLE", "CHECK_RESUME"})
  PROVE  /\ Frame(at, d, flags) \in FrameType
         /\ Frame(at, d, flags).at \notin CancelAts
BY DEF FirstAts, CallFlags, Frame, FrameType, CancelAts

(* The rpm_ functions go on from one place to another.                     *)
LEMMA MovesGoto ==
  ASSUME IInv, RequestInv, NEW a \in Actors, NEW at, Running(a, at),
         at \notin CancelAts \cup {"work"}, NEW to \in AllAts \ CancelAts, Goto(a, to)
  PROVE  StackMoves(a)
<1> DEFINE g == [Top(a) EXCEPT !.at = to]
<1>1. g \in FrameType /\ g.at = to  BY CallGoto
<1>3. Become(a, g)  BY DEF Goto
<1> HIDE DEF g
<1> QED  BY <1>1, <1>3, MovesBecome

LEMMA MovesOut ==
  ASSUME IInv, RequestInv, NEW a \in Actors, NEW at, Running(a, at),
         at \notin CancelAts \cup {"work"}, NEW active, ResumeOut(a, active)
  PROVE  StackMoves(a)
<1>1. Goto(a, "resume_put") \/ Return(a)  BY DEF ResumeOut
<1>2. "resume_put" \in AllAts \ CancelAts  BY DEF AllAts, PlainAts, CancelAts
<1> QED  BY <1>1, <1>2, MovesGoto, MovesReturn

LEMMA MovesDown ==
  ASSUME IInv, RequestInv, NEW a \in Actors, NEW at, Running(a, at),
         at \notin CancelAts \cup {"work"},
         NEW to \in {"idle_end", "resume_parent_ret", "disable_resumed", "barrier"},
         NEW new \in {"suspend", "resume"}, NEW d \in Devices, NEW flags \in SUBSET CallFlags,
         Call(a, to, Frame(new, d, flags))
  PROVE  StackMoves(a)
<1> DEFINE g == [Top(a) EXCEPT !.at = to]
           f == Frame(new, d, flags)
<1>1. to \in AllAts  BY DEF AllAts, PlainAts, DriverAts, BarrierAts
<1>2. g \in FrameType /\ g.at = to  BY <1>1, CallGoto
<1>3. g \in CallerFrame  BY <1>2 DEF CallerFrame
<1>4. f \in FrameType /\ f.at \notin CancelAts
  <2>1. new \in FirstAts  BY DEF FirstAts
  <2>2. flags \in SUBSET (CallFlags \cup {"DISABLE", "CHECK_RESUME"})  OBVIOUS
  <2> QED  BY <2>1, <2>2, CallNew
<1> HIDE DEF f
<1> QED  BY <1>3, <1>4, MovesCall DEF f

LEMMA RunMoves ==
  ASSUME IInv, RequestInv, NEW a \in Actors, Run(a)
  PROVE  StackMoves(a)
<1> DEFINE RunAts == (PlainAts \ {"work"}) \cup {"suspend_cb", "resume_cb"}
<1>0. PICK at \in RunAts : Running(a, at)
  BY DEF Run, rpm_idle, runtime_idle, rpm_idle_end, rpm_suspend, suspend_woken, suspend_done,
         suspend_failed, suspend_notify, rpm_resume, resume_woken, resume_parent,
         resume_parent_ret, resume_done, resume_failed, resume_put, resume_put_idle,
         Section, PlainAts
<1>1. at \notin CancelAts \cup {"work"}  BY DEF PlainAts, CancelAts
<1>2. /\ Top(a) \in FrameType /\ Top(a) \in GoodFrame /\ Top(a).dev \in Devices
      /\ stack[a] # <<>> /\ Head(stack[a]).at = at
  BY <1>0, AtTop DEF Top
<1>3. RunAts \subseteq AllAts \ CancelAts  BY DEF AllAts, PlainAts, CancelAts
<1>4. \/ UNCHANGED stack \/ Return(a)
      \/ \E to \in RunAts : Goto(a, to)
      \/ \E active : ResumeOut(a, active)
      => StackMoves(a)
  BY <1>0, <1>1, <1>2, <1>3, MovesStill, MovesReturn, MovesGoto, MovesOut
<1>5. CASE \/ rpm_idle(a) \/ rpm_idle_end(a) \/ rpm_suspend(a) \/ suspend_woken(a)
           \/ suspend_failed(a) \/ suspend_notify(a) \/ resume_woken(a) \/ resume_parent_ret(a)
           \/ resume_done(a) \/ resume_failed(a) \/ resume_put_idle(a)
  <2>1. \/ UNCHANGED stack \/ Return(a)
        \/ \E to \in RunAts : Goto(a, to)
        \/ \E active : ResumeOut(a, active)
    BY <1>5 DEF rpm_idle, rpm_idle_end, rpm_suspend, suspend_woken, suspend_failed,
         suspend_notify, resume_woken, resume_parent_ret, resume_done, resume_failed,
         resume_put_idle, PlainAts
  <2> QED  BY <1>4, <2>1
<1>6. CASE runtime_idle(a)
  <2>1. CASE Goto(a, "idle_end")
    <3>1. "idle_end" \in RunAts  BY DEF PlainAts
    <3> QED  BY <1>4, <2>1, <3>1
  <2>2. CASE \E flags \in CallbackFlags :
               Call(a, "idle_end", Frame("suspend", Top(a).dev, flags))
    <3>1. PICK flags \in CallbackFlags : Call(a, "idle_end", Frame("suspend", Top(a).dev, flags))
      BY <2>2
    <3>2. flags \in SUBSET CallFlags  BY PMAssumption DEF CallFlags
    <3> QED  BY <1>0, <1>1, <1>2, <3>1, <3>2, MovesDown
  <2> QED  BY <1>6, <2>1, <2>2 DEF runtime_idle
<1>7. CASE suspend_done(a)
  <2>1. CASE Become(a, Frame("resume", Top(a).dev, {}))
    <3> DEFINE f == Frame("resume", Top(a).dev, {})
    <3>1. f \in FrameType /\ f.at \notin CancelAts
      <4>1. "resume" \in FirstAts  BY DEF FirstAts
      <4>2. {} \in SUBSET (CallFlags \cup {"DISABLE", "CHECK_RESUME"})  OBVIOUS
      <4> QED  BY <1>2, <4>1, <4>2, CallNew
    <3> HIDE DEF f
    <3> QED  BY <1>0, <1>1, <2>1, <3>1, MovesBecome DEF f
  <2>2. CASE Goto(a, "suspend_notify") \/ Return(a)
    <3>1. "suspend_notify" \in RunAts  BY DEF PlainAts
    <3> QED  BY <1>4, <2>2, <3>1
  <2> QED  BY <1>7, <2>1, <2>2 DEF suspend_done
<1>8. CASE rpm_resume(a)
  <2>1. CASE \/ Goto(a, "resume_wait") \/ Goto(a, "resume_cb")
             \/ \E active : ResumeOut(a, active)
    <3>1. "resume_wait" \in RunAts /\ "resume_cb" \in RunAts  BY DEF PlainAts
    <3> QED  BY <1>4, <2>1, <3>1
  <2>2. CASE Become(a, [Top(a) EXCEPT !.at = "resume_parent", !.par = TRUE])
    <3> DEFINE f == [Top(a) EXCEPT !.at = "resume_parent", !.par = TRUE]
    <3>1. f \in FrameType /\ f.at = "resume_parent"  BY <1>2 DEF FrameType
    <3>2. f \in FrameType /\ f.at \notin CancelAts
      BY <3>1 DEF CancelAts
    <3> HIDE DEF f
    <3> QED  BY <1>0, <1>1, <2>2, <3>2, MovesBecome DEF f
  <2> QED  BY <1>8, <2>1, <2>2 DEF rpm_resume
<1>9. CASE resume_parent(a)
  <2>1. CASE Goto(a, "resume")
    <3>1. "resume" \in RunAts  BY DEF PlainAts
    <3> QED  BY <1>4, <2>1, <3>1
  <2>2. CASE Call(a, "resume_parent_ret", Frame("resume", Parent[Top(a).dev], {}))
    <3>1. Top(a).at = "resume_parent"  BY <1>9 DEF resume_parent, Running
    <3>2. Parent[Top(a).dev] \in Devices
      BY <1>2, <3>1, PMAssumption DEF GoodFrame
    <3>3. {} \in SUBSET CallFlags  OBVIOUS
    <3> QED  BY <1>0, <1>1, <2>2, <3>2, <3>3, MovesDown
  <2> QED  BY <1>9, <2>1, <2>2 DEF resume_parent
<1>10. CASE resume_put(a)
  <2>1. CASE Become(a, [Top(a) EXCEPT !.at = "resume_put_idle", !.par = FALSE])
    <3> DEFINE f == [Top(a) EXCEPT !.at = "resume_put_idle", !.par = FALSE]
    <3>1. f \in FrameType /\ f.at = "resume_put_idle"  BY <1>2 DEF FrameType
    <3>2. f \in FrameType /\ f.at \notin CancelAts
      BY <3>1 DEF CancelAts
    <3> HIDE DEF f
    <3> QED  BY <1>0, <1>1, <2>1, <3>2, MovesBecome DEF f
  <2>2. CASE Return(a)  BY <1>4, <2>2
  <2> QED  BY <1>10, <2>1, <2>2 DEF resume_put
<1> QED  BY <1>5, <1>6, <1>7, <1>8, <1>9, <1>10 DEF Run

(* The powers.                                                             *)
Kept(p, q) == /\ q.pending <=> p.pending
              /\ q.work = p.work
              /\ q.request \in {p.request, "NONE"}
              /\ p.swallowed => q.swallowed

LEMMA ServesSet ==
  ASSUME IInv, NEW d \in Devices, NEW q, SetPower(d, q), Serves(power[d], q)
  PROVE  PowerServes
<1>1. power'[d] = q /\ \A e \in Devices \ {d} : power'[e] = power[e]
  BY DEF IInv, TypeOK, SetPower
<1>2. \A e \in Devices : Serves(power[e], power[e])  BY DEF Serves
<1> QED  BY <1>1, <1>2 DEF PowerServes

LEMMA ServesUnchanged == ASSUME UNCHANGED power PROVE PowerServes
BY DEF PowerServes, Serves

LEMMA KeptSet ==
  ASSUME IInv, NEW d \in Devices, NEW q, SetPower(d, q), Kept(power[d], q)
  PROVE  PowerServes
<1>1. Serves(power[d], q)  BY DEF Kept, Serves
<1> QED  BY <1>1, ServesSet

LEMMA QueueServes ==
  ASSUME NEW p \in PowerType, NEW o \in PowerType, Kept(p, o), NEW r \in Requests
  PROVE  Serves(p, QueueRequest(o, r))
<1> DEFINE q == QueueRequest(o, r)
<1>1. q.pending /\ q.work = IF ~o.pending /\ o.work = "off" THEN "queued" ELSE o.work
  BY DEF PowerType, QueueRequest
<1> HIDE DEF q
<1>2. Serves(p, q)  BY <1>1 DEF Serves, Kept
<1> QED  BY <1>2 DEF q

LEMMA IdleAsyncServes ==
  ASSUME NEW p \in PowerType, NEW o \in PowerType, Kept(p, o), NEW d \in Devices
  PROVE  Serves(p, rpm_idle_async(o, d))
<1>1. CASE MayNotify(o, d)
  <2>2. "IDLE" \in Requests  BY DEF Requests
  <2>3. Serves(p, QueueRequest(o, "IDLE"))  BY <2>2, QueueServes
  <2> QED  BY <1>1, <2>3 DEF rpm_idle_async
<1>2. CASE ~MayNotify(o, d)
  <2>1. rpm_idle_async(o, d) = o  BY <1>2 DEF rpm_idle_async
  <2> QED  BY <2>1 DEF Serves, Kept
<1> QED  BY <1>1, <1>2

LEMMA CancelKept ==
  ASSUME NEW p \in PowerType
  PROVE  Kept(p, pm_runtime_cancel_pending(p))
BY DEF PowerType, pm_runtime_cancel_pending, Kept

LEMMA CountersKept ==
  ASSUME NEW p \in PowerType, NEW n
  PROVE  /\ Kept(p, [p EXCEPT !.usage = n])
         /\ Kept(p, [p EXCEPT !.children = n])
         /\ Kept(p, [p EXCEPT !.depth = n])
         /\ Kept(p, [p EXCEPT !.timer = n])
         /\ Kept(p, [p EXCEPT !.idle = n])
         /\ Kept(p, [p EXCEPT !.error = n])
         /\ Kept(p, [p EXCEPT !.status = n])
         /\ \A m : Kept(p, [p EXCEPT !.auto = m, !.usage = n])
         /\ \A m : Kept(p, [p EXCEPT !.autosuspend = m, !.usage = n])
         /\ \A m : Kept(p, [p EXCEPT !.usage = n, !.depth = m])
         /\ \A m : Kept(p, [p EXCEPT !.idle = n, !.unwoken = m])
         /\ \A m : Kept(p, [p EXCEPT !.status = n, !.error = m])
BY DEF PowerType, Kept

(* The status of d changes, and the parent counts its children.            *)
LEMMA ChildServes ==
  ASSUME IInv, NEW d \in Devices, Serves(power[d], power'[d]),
         \A e \in Devices \ {d} : \/ power'[e] = power[e]
                                  \/ \E n : power'[e] = [power[e] EXCEPT !.children = n]
  PROVE  PowerServes
<1>1. ASSUME NEW e \in Devices \ {d} PROVE Serves(power[e], power'[e])
  <2>1. power[e] \in PowerType  BY DEF IInv, TypeOK
  <2>2. CASE power'[e] = power[e]  BY <2>2 DEF Serves
  <2>3. ASSUME NEW n, power'[e] = [power[e] EXCEPT !.children = n]
        PROVE  Serves(power[e], power'[e])
    <3> DEFINE c == [power[e] EXCEPT !.children = n]
    <3>1. Kept(power[e], c)  BY <2>1, CountersKept
    <3>2. power'[e] = c  BY <2>3
    <3> HIDE DEF c
    <3> QED  BY <3>1, <3>2 DEF Kept, Serves
  <2> QED  BY <2>2, <2>3
<1> QED  BY <1>1 DEF PowerServes

LEMMA IdleServes ==
  ASSUME IInv, NEW a \in Actors,
         rpm_idle(a) \/ runtime_idle(a) \/ rpm_idle_end(a) \/ suspend_woken(a) \/ resume_woken(a)
         \/ resume_parent(a) \/ resume_parent_ret(a)
  PROVE  PowerServes
<1>1. CASE rpm_idle(a)
  <2>1. Running(a, "idle")  BY <1>1 DEF rpm_idle, Section
  <2>2. PICK d \in Devices : d = Top(a).dev /\ power[d] \in PowerType  BY <2>1, AtTop
  <2> DEFINE q == [power[d] EXCEPT !.request = "NONE", !.idle = TRUE]
  <2>3. SetPower(d, rpm_idle_async(power[d], d)) \/ UNCHANGED power \/ SetPower(d, q)
    BY <1>1, <2>2 DEF rpm_idle
  <2>4. Kept(power[d], q) /\ Kept(power[d], power[d])  BY <2>2 DEF PowerType, Kept
  <2> HIDE DEF q
  <2> QED  BY <2>2, <2>3, <2>4, IdleAsyncServes, ServesSet, KeptSet, ServesUnchanged
<1>2. CASE runtime_idle(a) \/ suspend_woken(a) \/ resume_woken(a) \/ resume_parent(a)
           \/ resume_parent_ret(a)
  BY <1>2, ServesUnchanged
     DEF runtime_idle, suspend_woken, resume_woken, resume_parent, resume_parent_ret
<1>3. CASE rpm_idle_end(a)
  <2>1. Running(a, "idle_end")  BY <1>3 DEF rpm_idle_end, Section
  <2>2. PICK d \in Devices : d = Top(a).dev /\ power[d] \in PowerType  BY <2>1, AtTop
  <2>3. SetPower(d, [power[d] EXCEPT !.idle = FALSE, !.unwoken = FALSE])  BY <1>3, <2>2 DEF rpm_idle_end
  <2> QED  BY <2>2, <2>3, CountersKept, KeptSet
<1> QED  BY <1>1, <1>2, <1>3

LEMMA ParentServes ==
  ASSUME IInv, NEW a \in Actors, suspend_notify(a) \/ resume_put_idle(a) \/ resume_put(a)
  PROVE  PowerServes
<1>1. PICK at \in {"suspend_notify", "resume_put_idle", "resume_put"} : Running(a, at)
  BY DEF suspend_notify, resume_put_idle, resume_put, Section
<1>2. TypeOK /\ Top(a) \in GoodFrame /\ Top(a).at = at  BY <1>1, AtTop
<1>3. PICK u \in Devices : u = Parent[Top(a).dev] /\ power[u] \in PowerType
  BY <1>1, <1>2, PMAssumption DEF GoodFrame, FrameType, TypeOK
<1>4. CASE suspend_notify(a) \/ resume_put_idle(a)
  <2>1. SetPower(u, rpm_idle_async(power[u], u))  BY <1>3, <1>4 DEF suspend_notify, resume_put_idle
  <2>2. Kept(power[u], power[u])  BY DEF Kept
  <2> QED  BY <1>3, <2>1, <2>2, IdleAsyncServes, ServesSet
<1>5. CASE resume_put(a)
  <2> DEFINE n == power[u].usage - 1
             q == [power[u] EXCEPT !.usage = n]
  <2>1. SetPower(u, q)  BY <1>2, <1>3, <1>5 DEF resume_put, TypeOK, SetPower
  <2> HIDE DEF n
  <2> QED  BY <1>3, <2>1, CountersKept, KeptSet
<1> QED  BY <1>4, <1>5

LEMMA SuspendServes ==
  ASSUME IInv, NEW a \in Actors, rpm_suspend(a) \/ suspend_done(a) \/ suspend_failed(a)
  PROVE  PowerServes
<1>0. PICK at \in {"suspend", "suspend_cb"} : Running(a, at)
  BY DEF rpm_suspend, suspend_done, suspend_failed, Section
<1>1. PICK d \in Devices : d = Top(a).dev /\ power[d] \in PowerType  BY <1>0, AtTop
<1>2. CASE rpm_suspend(a)
  <2> DEFINE p == power[d]
             q == pm_runtime_cancel_pending(p)
             req == IF "AUTO" \in Top(a).flags THEN "AUTOSUSPEND" ELSE "SUSPEND"
             q1 == [p EXCEPT !.request = "NONE", !.timer = "auto"]
             q2 == [q EXCEPT !.deferred = FALSE]
             q3 == QueueRequest(q2, req)
             q4 == [q EXCEPT !.deferred = FALSE, !.status = "SUSPENDING"]
  <2>1. q \in PowerType /\ Kept(p, q) /\ Kept(p, q1)
    BY <1>1, CancelType, CancelKept DEF PowerType, Kept
  <2>3. \/ UNCHANGED power \/ SetPower(d, q) \/ SetPower(d, q1)
        \/ SetPower(d, q3) \/ SetPower(d, q4)
    BY <1>1, <1>2 DEF rpm_suspend
  <2> HIDE DEF q, q1
  <2>4. q2 \in PowerType /\ Kept(q, q2) /\ Kept(q, q4)  BY <2>1 DEF PowerType, Kept
  <2>5. req \in Requests  BY DEF Requests
  <2> HIDE DEF q2, q4, req
  <2>6. Kept(p, q2) /\ Kept(p, q4)  BY <2>1, <2>4 DEF Kept
  <2>7. Serves(p, q3)  BY <1>1, <2>4, <2>5, <2>6, QueueServes
  <2> HIDE DEF q3
  <2> QED  BY <2>1, <2>3, <2>6, <2>7, KeptSet, ServesSet, ServesUnchanged
<1>3. CASE suspend_done(a)
  <2> DEFINE p == [power[d] EXCEPT !.error = FALSE, !.status = "SUSPENDED", !.timer = "off",
                            !.unwoken = FALSE]
             u == Parent[d]
  <2>1. power' = [e \in Devices |-> IF e = d THEN p
                        ELSE IF e = u /\ power[e].children > 0
                        THEN [power[e] EXCEPT !.children = @ - 1]
                        ELSE power[e]]
    BY <1>1, <1>3 DEF suspend_done
  <2>2. Kept(power[d], p)  BY <1>1 DEF PowerType, Kept
  <2> HIDE DEF p
  <2>3. Serves(power[d], power'[d])  BY <2>1, <2>2 DEF Kept, Serves
  <2>4. \A e \in Devices \ {d} : \/ power'[e] = power[e]
                                 \/ \E n : power'[e] = [power[e] EXCEPT !.children = n]
    BY <2>1
  <2> QED  BY <2>3, <2>4, ChildServes
<1>4. CASE suspend_failed(a)
  <2> DEFINE p == [power[d] EXCEPT !.status = "ACTIVE", !.deferred = FALSE, !.unwoken = FALSE]
             o == [p EXCEPT !.error = TRUE]
             q0 == [p EXCEPT !.error = FALSE, !.unwoken = TRUE]
             q1 == [p EXCEPT !.error = FALSE]
             q2 == pm_runtime_cancel_pending(o)
             q3 == pm_runtime_cancel_pending(p)
  <2>1. p \in PowerType /\ Kept(power[d], p)  BY <1>1, ZenonT(60) DEF PowerType, Statuses, Kept
  <2>2. SetPower(d, q0) \/ SetPower(d, q1) \/ SetPower(d, q2) \/ SetPower(d, q3)
    BY <1>1, <1>4 DEF suspend_failed
  <2> HIDE DEF p
  <2>3. o \in PowerType /\ Kept(p, o) /\ Kept(p, q0) /\ Kept(p, q1)
    BY <2>1 DEF PowerType, Kept
  <2> HIDE DEF o, q0, q1
  <2>4. Kept(o, q2) /\ Kept(p, q3)  BY <2>1, <2>3, CancelKept
  <2> HIDE DEF q2, q3
  <2>5. Kept(power[d], q0) /\ Kept(power[d], q1) /\ Kept(power[d], q2) /\ Kept(power[d], q3)
    BY <2>1, <2>3, <2>4 DEF Kept
  <2> QED  BY <2>2, <2>5, KeptSet
<1> QED  BY <1>2, <1>3, <1>4

LEMMA ResumeServes ==
  ASSUME IInv, NEW a \in Actors, rpm_resume(a)
  PROVE  PowerServes
<1>1. Running(a, "resume")  BY DEF rpm_resume, Section
<1>2. PICK d \in Devices : d = Top(a).dev /\ power[d] \in PowerType  BY <1>1, AtTop
<1>3. TypeOK  BY <1>1, AtTop
<1> DEFINE p == power[d]
           q == [p EXCEPT !.request = "NONE", !.timer = IF @ = "suspend" THEN "off" ELSE @]
           q1 == [q EXCEPT !.deferred = @ \/ p.status = "SUSPENDING"]
           q2 == QueueRequest(q, "RESUME")
           q3 == [q EXCEPT !.status = "RESUMING"]
           u == Parent[d]
<1>4. q \in PowerType /\ Kept(p, q)
  <2>1. p \in PowerType  BY <1>2
  <2> QED  BY <2>1 DEF PowerType, Requests, Kept
<1>5. \/ UNCHANGED power \/ SetPower(d, q) \/ SetPower(d, q1) \/ SetPower(d, q3)
      \/ SetPower(d, q2)
      \/ u # NULL /\ power' = [power EXCEPT ![d] = q, ![u].usage = @ + 1]
  BY <1>2 DEF rpm_resume
<1>6. CASE u # NULL /\ power' = [power EXCEPT ![d] = q, ![u].usage = @ + 1]
  <2>1. u \in Devices /\ u # d  BY <1>6, PMAssumption
  <2>2. power[u] \in PowerType  BY <1>3, <2>1 DEF TypeOK
  <2> DEFINE n == power[u].usage + 1
             v == [power[u] EXCEPT !.usage = n]
  <2>3. power'[d] = q /\ power'[u] = v /\ \A e \in Devices \ {d, u} : power'[e] = power[e]
    BY <1>3, <1>6, <2>1 DEF TypeOK
  <2> HIDE DEF n
  <2>4. Kept(power[u], v)  BY <2>2, CountersKept
  <2> HIDE DEF v, q
  <2>5. \A e \in Devices : Kept(power[e], power[e])  BY DEF Kept
  <2>6. \A e \in Devices : Kept(power[e], power'[e])  BY <1>4, <2>3, <2>4, <2>5
  <2> QED  BY <2>6 DEF PowerServes, Serves, Kept
<1> HIDE DEF q
<1>7. Kept(q, q1) /\ Kept(q, q3)  BY <1>4 DEF PowerType, Kept
<1>9. "RESUME" \in Requests  BY DEF Requests
<1>10. Serves(p, q2)  BY <1>2, <1>4, <1>9, QueueServes
<1> HIDE DEF q1, q2, q3
<1>11. Kept(p, q1) /\ Kept(p, q3)  BY <1>4, <1>7 DEF Kept
<1>12. CASE \/ UNCHANGED power \/ SetPower(d, q) \/ SetPower(d, q1) \/ SetPower(d, q3)
            \/ SetPower(d, q2)
  BY <1>4, <1>10, <1>11, <1>12, KeptSet, ServesSet, ServesUnchanged
<1> QED  BY <1>5, <1>6, <1>12 DEF q

LEMMA ResumeEndServes ==
  ASSUME IInv, NEW a \in Actors, resume_done(a) \/ resume_failed(a)
  PROVE  PowerServes
<1>1. Running(a, "resume_cb")  BY DEF resume_done, resume_failed, Section
<1>2. PICK d \in Devices : d = Top(a).dev /\ power[d] \in PowerType  BY <1>1, AtTop
<1>3. CASE resume_done(a)
  <2> DEFINE p == [power[d] EXCEPT !.error = FALSE, !.status = "ACTIVE", !.unwoken = FALSE]
             u == Parent[d]
  <2>1. power' = [e \in Devices |->
                    IF e = d THEN rpm_idle_async(p, d)
                    ELSE IF e = u THEN [power[e] EXCEPT !.children = @ + 1]
                    ELSE power[e]]
    BY <1>2, <1>3 DEF resume_done
  <2>2. p \in PowerType /\ Kept(power[d], p)
    BY <1>2, ZenonT(60) DEF PowerType, Statuses, Kept
  <2> HIDE DEF p
  <2>3. Serves(power[d], rpm_idle_async(p, d))  BY <1>2, <2>2, IdleAsyncServes
  <2>4. Serves(power[d], power'[d])  BY <2>1, <2>3
  <2>5. \A e \in Devices \ {d} : \/ power'[e] = power[e]
                                 \/ \E n : power'[e] = [power[e] EXCEPT !.children = n]
    BY <2>1
  <2> QED  BY <2>4, <2>5, ChildServes
<1>4. CASE resume_failed(a)
  <2> DEFINE o == [power[d] EXCEPT !.status = "SUSPENDED", !.unwoken = FALSE]
             p == pm_runtime_cancel_pending(o)
  <2>1. o \in PowerType /\ Kept(power[d], o)  BY <1>2, ZenonT(60) DEF PowerType, Statuses, Kept
  <2>2. PICK r \in ResumeResults \ {"ok"} : SetPower(d, [p EXCEPT !.error = (r = "fail")])
    BY <1>2, <1>4 DEF resume_failed
  <2> HIDE DEF o
  <2>3. p \in PowerType /\ Kept(o, p)  BY <2>1, CancelType, CancelKept
  <2> DEFINE q == [p EXCEPT !.error = (r = "fail")]
  <2> HIDE DEF p
  <2>4. Kept(p, q)  BY <2>3 DEF PowerType, Kept
  <2>5. SetPower(d, q)  BY <2>2
  <2> HIDE DEF q
  <2>6. Kept(power[d], q)  BY <2>1, <2>3, <2>4 DEF Kept
  <2> QED  BY <2>5, <2>6, KeptSet
<1> QED  BY <1>3, <1>4

(* The calls a task makes.                                                 *)
LEMMA SetStatusServes ==
  ASSUME IInv, NEW t \in Tasks, NEW d \in Devices, __pm_runtime_set_status(t, d)
  PROVE  PowerServes
<1> DEFINE p == power[d]
           u == Parent[d]
<1>0. TypeOK /\ p \in PowerType  BY DEF IInv, TypeOK
<1>1. CASE SetPower(d, [p EXCEPT !.error = FALSE])  BY <1>0, <1>1, CountersKept, KeptSet
<1>2. ASSUME NEW status, power'[d] = [p EXCEPT !.status = status, !.error = FALSE]
      PROVE  Serves(power[d], power'[d])
  <2> DEFINE q == [p EXCEPT !.status = status, !.error = FALSE]
  <2>1. Kept(p, q) /\ power'[d] = q  BY <1>0, <1>2, CountersKept
  <2> HIDE DEF q
  <2> QED  BY <2>1 DEF Kept, Serves
<1>3. CASE power' = [e \in Devices |->
                 IF e = d THEN [p EXCEPT !.status = "SUSPENDED", !.error = FALSE]
                 ELSE IF e = u /\ power[e].children > 0
                 THEN [power[e] EXCEPT !.children = @ - 1]
                 ELSE power[e]]
  <2>1. \A e \in Devices \ {d} : \/ power'[e] = power[e]
                                 \/ \E n : power'[e] = [power[e] EXCEPT !.children = n]
    BY <1>3
  <2>2. power'[d] = [p EXCEPT !.status = "SUSPENDED", !.error = FALSE]  BY <1>3
  <2> QED  BY <1>2, <2>1, <2>2, ChildServes
<1>4. CASE power' = [e \in Devices |->
                 IF e = d THEN [p EXCEPT !.status = "ACTIVE", !.error = FALSE]
                 ELSE IF e = u /\ p.status = "SUSPENDED"
                 THEN [power[e] EXCEPT !.children = @ + 1]
                 ELSE power[e]]
  <2>1. \A e \in Devices \ {d} : \/ power'[e] = power[e]
                                 \/ \E n : power'[e] = [power[e] EXCEPT !.children = n]
    BY <1>4
  <2>2. power'[d] = [p EXCEPT !.status = "ACTIVE", !.error = FALSE]  BY <1>4
  <2> QED  BY <1>2, <2>1, <2>2, ChildServes
<1> QED  BY <1>1, <1>3, <1>4 DEF __pm_runtime_set_status

LEMMA StartServes ==
  ASSUME IInv, NEW t \in Tasks, NEW d \in Devices, Start(t, d)
  PROVE  PowerServes
<1> DEFINE p == power[d]
<1>0. TypeOK /\ p \in PowerType  BY DEF IInv, TypeOK
<1>1. ASSUME NEW n, SetPower(d, [p EXCEPT !.usage = n]) PROVE PowerServes
  BY <1>0, <1>1, CountersKept, KeptSet
<1>2. power' = [power EXCEPT ![d].usage = @ - 1] => PowerServes
  <2> DEFINE n == p.usage - 1
  <2>1. power' = [power EXCEPT ![d].usage = @ - 1] => SetPower(d, [p EXCEPT !.usage = n])
    BY <1>0 DEF SetPower, TypeOK
  <2> HIDE DEF n
  <2> QED  BY <1>1, <2>1
<1>3. power' = [power EXCEPT ![d].usage = @ + 1] => PowerServes
  <2> DEFINE n == p.usage + 1
  <2>1. power' = [power EXCEPT ![d].usage = @ + 1] => SetPower(d, [p EXCEPT !.usage = n])
    BY <1>0 DEF SetPower, TypeOK
  <2> HIDE DEF n
  <2> QED  BY <1>1, <2>1
<1>4. CASE \/ __pm_runtime_idle(t, d) \/ __pm_runtime_suspend(t, d)
           \/ __pm_runtime_resume(t, d) \/ pm_runtime_disable(t, d) \/ pm_runtime_barrier(t, d)
  <2>1. \/ UNCHANGED power
        \/ power' = [power EXCEPT ![d].usage = @ - 1]
        \/ power' = [power EXCEPT ![d].usage = @ + 1]
    BY <1>4 DEF __pm_runtime_idle, __pm_runtime_suspend, __pm_runtime_resume, PutAndCall,
                pm_runtime_disable, pm_runtime_barrier
  <2> QED  BY <1>2, <1>3, <2>1, ServesUnchanged
<1>5. CASE pm_schedule_suspend(t, d)
  <2> DEFINE o == pm_runtime_cancel_pending(p)
             q == [o EXCEPT !.timer = "suspend"]
  <2>1. o \in PowerType /\ Kept(p, o)  BY <1>0, CancelType, CancelKept
  <2>2. SetPower(d, q)  BY <1>5 DEF pm_schedule_suspend
  <2> HIDE DEF o
  <2>3. Kept(o, q)  BY <2>1, CountersKept
  <2> HIDE DEF q
  <2>4. Kept(p, q)  BY <2>1, <2>3 DEF Kept
  <2> QED  BY <2>2, <2>4, KeptSet
<1>6. CASE pm_runtime_forbid(t, d) \/ pm_runtime_allow(t, d)
  <2>1. PICK auto, n : SetPower(d, [p EXCEPT !.auto = auto, !.usage = n])
    BY <1>6 DEF pm_runtime_forbid, pm_runtime_allow
  <2> QED  BY <1>0, <2>1, CountersKept, KeptSet
<1>7. CASE update_autosuspend(t, d)
  <2>1. PICK new, n : SetPower(d, [p EXCEPT !.autosuspend = new, !.usage = n])
    BY <1>7 DEF update_autosuspend
  <2> QED  BY <1>0, <2>1, CountersKept, KeptSet
<1>8. CASE __pm_runtime_set_status(t, d)  BY <1>8, SetStatusServes
<1> QED  BY <1>4, <1>5, <1>6, <1>7, <1>8 DEF Start

LEMMA StartMoves ==
  ASSUME IInv, RequestInv, NEW t \in Tasks, NEW d \in Devices, Start(t, d)
  PROVE  StackMoves(t)
<1> DEFINE Flags == SUBSET (CallFlags \cup {"DISABLE", "CHECK_RESUME"})
<1>0. t \in Actors  BY DEF Actors
<1>2. stack[t] = <<>>
  BY DEF Start, __pm_runtime_idle, __pm_runtime_suspend, __pm_runtime_resume,
         pm_schedule_suspend, pm_runtime_forbid, pm_runtime_allow, update_autosuspend,
         __pm_runtime_set_status, pm_runtime_disable, pm_runtime_barrier
<1>3. UNCHANGED stack => StackMoves(t)  BY <1>0, <1>2, MovesStill
<1>4. ASSUME NEW at \in FirstAts, NEW e \in Devices, NEW flags \in Flags,
             Enter(t, Frame(at, e, flags))
      PROVE  StackMoves(t)
  <2> DEFINE f == Frame(at, e, flags)
  <2>1. f \in FrameType /\ f.at \notin CancelAts  BY <1>4, CallNew
  <2>2. stack' = [stack EXCEPT ![t] = <<f>>]  BY <1>4 DEF Enter
  <2> HIDE DEF f
  <2> QED  BY <1>0, <1>2, <2>1, <2>2, MovesEnter
<1>5. {"idle", "suspend", "resume", "disable", "barrier_enter"} \subseteq FirstAts  BY DEF FirstAts
<1>6. /\ \A flags \in IdleFlags \cup SuspendFlags \cup ResumeFlags : flags \in Flags
      /\ {} \in Flags /\ {"AUTO"} \in Flags /\ {"ASYNC"} \in Flags
      /\ \A check \in {{}, {"CHECK_RESUME"}} : {"DISABLE"} \cup check \in Flags
  BY PMAssumption DEF CallFlags
<1> HIDE DEF Flags
<1>7. CASE __pm_runtime_idle(t, d)
  <2>1. UNCHANGED stack \/ \E flags \in IdleFlags : Enter(t, Frame("idle", d, flags))
    BY <1>7 DEF __pm_runtime_idle, PutAndCall
  <2> QED  BY <1>3, <1>4, <1>5, <1>6, <2>1
<1>8. CASE __pm_runtime_suspend(t, d)
  <2>1. UNCHANGED stack \/ \E flags \in SuspendFlags : Enter(t, Frame("suspend", d, flags))
    BY <1>8 DEF __pm_runtime_suspend, PutAndCall
  <2> QED  BY <1>3, <1>4, <1>5, <1>6, <2>1
<1>9. CASE __pm_runtime_resume(t, d)
  <2>1. \E flags \in ResumeFlags : Enter(t, Frame("resume", d, flags))
    BY <1>9 DEF __pm_runtime_resume
  <2> QED  BY <1>4, <1>5, <1>6, <2>1
<1>10. CASE \/ pm_schedule_suspend(t, d) \/ pm_runtime_forbid(t, d) \/ pm_runtime_allow(t, d)
            \/ update_autosuspend(t, d)
  <2>1. \/ UNCHANGED stack \/ Enter(t, Frame("resume", d, {}))
        \/ Enter(t, Frame("idle", d, {"AUTO"}))
    BY <1>10 DEF pm_schedule_suspend, pm_runtime_forbid, pm_runtime_allow, update_autosuspend
  <2> QED  BY <1>3, <1>4, <1>5, <1>6, <2>1
<1>11. CASE __pm_runtime_set_status(t, d)
  <2>1. \/ UNCHANGED stack
        \/ Parent[d] # NULL /\ Enter(t, Frame("idle", Parent[d], {"ASYNC"}))
    BY <1>11 DEF __pm_runtime_set_status
  <2>2. Parent[d] # NULL => Parent[d] \in Devices  BY PMAssumption
  <2> QED  BY <1>3, <1>4, <1>5, <1>6, <2>1, <2>2
<1>12. CASE pm_runtime_disable(t, d)
  <2>1. \E check \in {{}, {"CHECK_RESUME"}} :
          Enter(t, Frame("disable", d, {"DISABLE"} \cup check))
    BY <1>12 DEF pm_runtime_disable
  <2> QED  BY <1>4, <1>5, <1>6, <2>1
<1>13. CASE pm_runtime_barrier(t, d)
  <2>1. Enter(t, Frame("barrier_enter", d, {}))  BY <1>13 DEF pm_runtime_barrier
  <2> QED  BY <1>4, <1>5, <1>6, <2>1
<1> QED  BY <1>7, <1>8, <1>9, <1>10, <1>11, <1>12, <1>13 DEF Start

(* The work item of d is taken, looked at or cancelled: nothing changes    *)
(* for the other devices.                                                  *)
LEMMA OthersAsked ==
  ASSUME IInv, RequestInv, NEW a \in Actors, NEW d \in Devices, NEW e \in Devices \ {d},
         \A b \in Actors \ {a} : stack'[b] = stack[b], power'[e] = power[e],
         a \in Devices => a = d,
         stack[a] # <<>> => Head(stack[a]).dev = d \/ Head(stack[a]).at \notin CancelAts,
         stack'[a] # <<>> => Head(stack'[a]).dev = d \/ Head(stack'[a]).at \notin CancelAts
  PROVE  Asked(e)'
<1>1. e \in Actors  BY DEF Actors
<1>2. Looking(e)' <=> Looking(e)  BY <1>1 DEF Looking
<1>3. Cancelling(e)' <=> Cancelling(e)  BY CancellingSame
<1> QED  BY <1>2, <1>3 DEF RequestInv, Asked

LEMMA BecomeOrderly ==
  ASSUME IInv, RequestInv, NEW a \in Actors, stack[a] # <<>>, NEW f \in FrameType, Become(a, f)
  PROVE  /\ \A b \in Actors : Orderly(stack'[b])
         /\ \A b \in Actors \ {a} : stack'[b] = stack[b]
         /\ stack'[a] # <<>> /\ Head(stack'[a]) = f
<1> DEFINE s == <<f>> \o Tail(stack[a])
           C == CallerFrame
<1>1. stack \in [Actors -> Seq(FrameType)]  BY DEF IInv, TypeOK
<1>2. stack' = [stack EXCEPT ![a] = s]  BY DEF Become
<1>3. Tail(stack[a]) \in Seq(C)  BY DEF RequestInv, Orderly
<1> HIDE DEF C
<1>4. s # <<>> /\ Head(s) = f /\ Tail(s) = Tail(stack[a])
  <2> HIDE DEF FrameType
  <2> QED  BY <1>3
<1> HIDE DEF s
<1>5. stack'[a] = s /\ \A b \in Actors \ {a} : stack'[b] = stack[b]  BY <1>1, <1>2
<1>6. Orderly(s)  BY <1>3, <1>4 DEF Orderly, C
<1> QED  BY <1>4, <1>5, <1>6 DEF RequestInv

LEMMA WorkRequest ==
  ASSUME IInv, IInv', RequestInv, NEW d \in Devices, Worker(d) \/ pm_suspend_timer_fn(d)
  PROVE  RequestInv'
<1>0. d \in Actors /\ SOFTIRQ \in Actors  BY DeviceActor
<1> DEFINE p == power[d]
<1>1. TypeOK /\ p \in PowerType /\ Asked(d)  BY DEF IInv, TypeOK, RequestInv
<1>2. CASE work_start(d)
  <2> DEFINE f == Frame("work", d, {"NOWAIT"})
             q == [p EXCEPT !.work = "off"]
  <2>1. /\ stack[d] = <<>> /\ SetPower(d, q) /\ p.work = "queued"
        /\ stack' = [stack EXCEPT ![d] = <<f>>]
    BY <1>2 DEF work_start
  <2>2. f \in FrameType /\ f.at = "work"
    <3>1. "work" \in FirstAts  BY DEF FirstAts
    <3>2. {"NOWAIT"} \in SUBSET (CallFlags \cup {"DISABLE", "CHECK_RESUME"})  BY DEF CallFlags
    <3> QED  BY <3>1, <3>2, CallNew DEF Frame
  <2>3. "work" \notin CancelAts  BY DEF CancelAts
  <2>4. q.request = p.request /\ q.work = "off"  BY <1>1 DEF PowerType
  <2>5. (q.pending <=> p.pending) /\ (q.swallowed <=> p.swallowed)  BY <1>1 DEF PowerType
  <2> HIDE DEF f, q
  <2>6. StackMoves(d)  BY <1>0, <2>1, <2>2, <2>3, MovesEnter
  <2>7. power'[d] = q /\ \A e \in Devices \ {d} : power'[e] = power[e]
    BY <1>1, <2>1 DEF SetPower, TypeOK
  <2>8. stack'[d] = <<f>>  BY <1>0, <1>1, <2>1 DEF TypeOK
  <2>9. stack'[d] # <<>> /\ Head(stack'[d]) = f  BY <2>8
  <2>10. Looking(d)'  BY <2>2, <2>9 DEF Looking
  <2>11. Cancelling(d)' <=> Cancelling(d)  BY <1>0, <2>6, CancellingSame DEF StackMoves
  <2>12. Asked(d)'  BY <1>1, <2>4, <2>5, <2>7, <2>10, <2>11 DEF Asked
  <2>13. \A e \in Devices \ {d} : Asked(e)'
    BY <1>0, <2>1, <2>6, <2>7, OthersAsked DEF StackMoves
  <2>14. \A b \in Actors : Orderly(stack'[b])  BY <2>6 DEF StackMoves, RequestInv
  <2> QED  BY <2>12, <2>13, <2>14 DEF RequestInv, Orderly
<1>3. CASE pm_runtime_work(d)
  <2>1. Running(d, "work")  BY <1>3 DEF pm_runtime_work, Section
  <2>2. stack[d] # <<>> /\ Head(stack[d]).at = "work"  BY <2>1 DEF Running, Top
  <2> DEFINE q == IF p.pending THEN [p EXCEPT !.request = "NONE", !.pending = FALSE] ELSE p
  <2>3. /\ ~q.pending /\ q.work = p.work
        /\ q.request # "NONE" => q.swallowed
    BY <1>1 DEF PowerType, Asked
  <2>4. SetPower(d, q)  BY <1>3 DEF pm_runtime_work
  <2> HIDE DEF q
  <2>5. power'[d] = q /\ \A e \in Devices \ {d} : power'[e] = power[e]
    BY <1>1, <2>4 DEF SetPower, TypeOK
  <2>6. /\ \A b \in Actors : Orderly(stack'[b])
        /\ \A b \in Actors \ {d} : stack'[b] = stack[b]
        /\ stack'[d] # <<>> => Head(stack'[d]).at \notin CancelAts
    <3>1. CASE Return(d)
      <4> DEFINE s == Tail(stack[d])
                 C == CallerFrame
      <4>1. s \in Seq(C)  BY <1>0, <2>2 DEF RequestInv, Orderly
      <4>2. \A f \in C : f.at \notin CancelAts  BY DEF CallerFrame, CancelAts
      <4>3. stack'[d] = s /\ \A b \in Actors \ {d} : stack'[b] = stack[b]
        BY <1>0, <1>1, <3>1 DEF Return, TypeOK
      <4> HIDE DEF s, C
      <4>4. s # <<>> => Head(s) \in C /\ Tail(s) \in Seq(C)  BY <4>1, HeadTailProperties
      <4>5. Orderly(s)  BY <4>4 DEF Orderly, C
      <4> QED  BY <4>2, <4>3, <4>4, <4>5 DEF RequestInv
    <3>2. CASE Become(d, Requested(d, p.request))
      <4> DEFINE at == IF p.request = "IDLE" THEN "idle"
                       ELSE IF p.request = "RESUME" THEN "resume" ELSE "suspend"
                 flags == IF p.request = "AUTOSUSPEND" THEN {"NOWAIT", "AUTO"} ELSE {"NOWAIT"}
                 f == Frame(at, d, flags)
      <4>1. at \in FirstAts  BY DEF FirstAts
      <4>2. flags \in SUBSET (CallFlags \cup {"DISABLE", "CHECK_RESUME"})  BY DEF CallFlags
      <4>3. Requested(d, p.request) = f  BY DEF Requested
      <4> HIDE DEF at, flags
      <4>4. f \in FrameType /\ f.at \notin CancelAts  BY <4>1, <4>2, CallNew
      <4> HIDE DEF f
      <4> QED  BY <1>0, <2>2, <3>2, <4>3, <4>4, BecomeOrderly
    <3> QED  BY <1>3, <3>1, <3>2 DEF pm_runtime_work
  <2>7. Cancelling(d)' <=> Cancelling(d)
    <3>1. "work" \notin CancelAts  BY DEF CancelAts
    <3> QED  BY <1>0, <2>2, <2>6, <3>1, CancellingSame
  <2>8. Asked(d)'  BY <1>1, <2>3, <2>5, <2>7 DEF Asked
  <2>9. \A e \in Devices \ {d} : Asked(e)'
    <3>1. "work" \notin CancelAts  BY DEF CancelAts
    <3> QED  BY <1>0, <2>2, <2>5, <2>6, <3>1, OthersAsked
  <2> QED  BY <2>6, <2>8, <2>9 DEF RequestInv, Orderly
<1>4. CASE pm_suspend_timer_fn(d)
  <2> DEFINE flags == IF p.timer = "auto" THEN {"ASYNC", "AUTO"} ELSE {"ASYNC"}
             f == Frame("suspend", d, flags)
  <2>1. /\ SetPower(d, [p EXCEPT !.timer = "off"]) /\ stack[SOFTIRQ] = <<>>
        /\ stack' = [stack EXCEPT ![SOFTIRQ] = <<f>>]
    BY <1>4 DEF pm_suspend_timer_fn
  <2>2. "suspend" \in FirstAts  BY DEF FirstAts
  <2>3. flags \in SUBSET (CallFlags \cup {"DISABLE", "CHECK_RESUME"})  BY DEF CallFlags
  <2> HIDE DEF flags
  <2>4. f \in FrameType /\ f.at \notin CancelAts  BY <2>2, <2>3, CallNew
  <2> HIDE DEF f
  <2>5. StackMoves(SOFTIRQ)  BY <1>0, <2>1, <2>4, MovesEnter
  <2>6. PowerServes  BY <1>1, <2>1, CountersKept, KeptSet
  <2> QED  BY <1>0, <2>5, <2>6, RequestStep
<1> QED  BY <1>2, <1>3, <1>4 DEF Worker

(* A barrier cancels the work item of its device.                          *)
LEMMA CancelRequest ==
  ASSUME IInv, IInv', RequestInv, NEW t \in Tasks, NEW d \in Devices, NEW at \in BarrierAts,
         Running(t, at), d = Top(t).dev, NEW to \in BarrierAts, Goto(t, to),
         NEW q, SetPower(d, q), q.request # "NONE" => q.swallowed \/ q.pending,
         \/ to \in CancelAts
         \/ ~q.pending /\ q.work = "off"
  PROVE  RequestInv'
<1>0. t \in Actors  BY DEF Actors
<1> DEFINE g == [Top(t) EXCEPT !.at = to]
<1>1. /\ TypeOK /\ stack[t] # <<>> /\ Head(stack[t]).dev = d /\ Head(stack[t]).at = at
  BY <1>0, AtTop DEF Top
<1>2. to \in AllAts  BY DEF AllAts, DriverAts
<1>3. g \in FrameType /\ g.at = to /\ g.dev = d  BY <1>0, <1>2, CallGoto
<1>4. Become(t, g)  BY DEF Goto
<1> HIDE DEF g
<1>5. /\ \A b \in Actors : Orderly(stack'[b])
      /\ \A b \in Actors \ {t} : stack'[b] = stack[b]
      /\ stack'[t] # <<>> /\ Head(stack'[t]) = g
  BY <1>0, <1>1, <1>3, <1>4, BecomeOrderly
<1>6. power'[d] = q /\ \A e \in Devices \ {d} : power'[e] = power[e]
  BY <1>1 DEF SetPower, TypeOK
<1>7. to \in CancelAts => Cancelling(d)'
  BY <1>3, <1>5 DEF Cancelling, CancelAts, Top
<1>8. Asked(d)'  BY <1>6, <1>7 DEF Asked
<1>9. t \notin Devices  BY PMAssumption
<1>10. \A e \in Devices \ {d} : Asked(e)'
  BY <1>0, <1>1, <1>3, <1>5, <1>6, <1>9, OthersAsked
<1> QED  BY <1>5, <1>8, <1>10 DEF RequestInv, Orderly

(* The other steps of disables and barriers.                               *)
LEMMA DisableRequest ==
  ASSUME IInv, IInv', RequestInv, NEW t \in Tasks,
         __pm_runtime_disable(t) \/ disable_resumed(t) \/ barrier_enter(t) \/ barrier_wait(t)
  PROVE  RequestInv'
<1>0. t \in Actors  BY DEF Actors
<1>1. PICK at \in {"disable", "disable_resumed", "barrier_enter", "barrier_wait"} : Running(t, at)
  BY DEF __pm_runtime_disable, disable_resumed, barrier_enter, barrier_wait, Section
<1>2. PICK d \in Devices : d = Top(t).dev /\ power[d] \in PowerType  BY <1>0, <1>1, AtTop
<1>3. stack[t] # <<>> /\ Head(stack[t]).at = at  BY <1>0, <1>1, AtTop DEF Top
<1>4. at \notin CancelAts \cup {"work"}  BY DEF CancelAts
<1> DEFINE p == power[d]
<1>5. PowerServes
  <2>1. \/ UNCHANGED power
        \/ \E n : SetPower(d, [p EXCEPT !.usage = n])
        \/ \E n : SetPower(d, [p EXCEPT !.depth = n])
        \/ \E n, m : SetPower(d, [p EXCEPT !.usage = n, !.depth = m])
    BY <1>2 DEF __pm_runtime_disable, disable_resumed, barrier_enter, barrier_wait
  <2> QED  BY <1>2, <2>1, CountersKept, KeptSet, ServesUnchanged
<1>6. StackMoves(t)
  <2>1. CASE UNCHANGED stack \/ Return(t)
    BY <1>0, <1>1, <1>3, <1>4, <2>1, MovesStill, MovesReturn
  <2>2. CASE Goto(t, "barrier")
    <3>1. "barrier" \in AllAts \ CancelAts  BY DEF AllAts, DriverAts, BarrierAts, CancelAts
    <3> QED  BY <1>0, <1>1, <1>4, <2>2, <3>1, MovesGoto
  <2>3. CASE \/ Call(t, "disable_resumed", Frame("resume", d, {}))
             \/ Call(t, "barrier", Frame("resume", d, {}))
    <3>1. {} \in SUBSET CallFlags  OBVIOUS
    <3> QED  BY <1>0, <1>1, <1>4, <2>3, <3>1, MovesDown
  <2> QED  BY <1>2, <2>1, <2>2, <2>3
           DEF __pm_runtime_disable, disable_resumed, barrier_enter, barrier_wait
<1> QED  BY <1>0, <1>5, <1>6, RequestStep

LEMMA BarrierRequest ==
  ASSUME IInv, IInv', RequestInv, NEW t \in Tasks,
         __pm_runtime_barrier(t) \/ cancel_work_sync(t) \/ barrier_cancelled(t)
  PROVE  RequestInv'
<1>0. t \in Actors  BY DEF Actors
<1>1. PICK at \in {"barrier", "cancel", "cancelled"} : Running(t, at)
  BY DEF __pm_runtime_barrier, cancel_work_sync, barrier_cancelled, Section
<1>2. PICK d \in Devices : d = Top(t).dev /\ power[d] \in PowerType  BY <1>0, <1>1, AtTop
<1>3. Top(t).at = at  BY <1>0, <1>1, AtTop
<1>4. at \in BarrierAts  BY DEF BarrierAts
<1>5. /\ {"cancel", "cancelled", "barrier_wait"} \subseteq BarrierAts
      /\ "cancel" \in CancelAts /\ "cancelled" \in CancelAts
  BY DEF BarrierAts, CancelAts
<1> DEFINE p == power[d]
<1>6. p.request # "NONE" => p.swallowed \/ p.pending  BY <1>2 DEF RequestInv, Asked
<1>7. CASE __pm_runtime_barrier(t)
  <2>1. CASE p.pending
    <3> DEFINE q == [p EXCEPT !.timer = "off", !.request = "NONE"]
    <3>1. SetPower(d, q) /\ Goto(t, "cancel")  BY <1>2, <1>7, <2>1 DEF __pm_runtime_barrier
    <3>2. q.request = "NONE"  BY <1>2 DEF PowerType
    <3> HIDE DEF q
    <3> QED  BY <1>1, <1>2, <1>4, <1>5, <3>1, <3>2, CancelRequest
  <2>2. CASE ~p.pending
    <3>1. SetPower(d, [p EXCEPT !.timer = "off"]) /\ Goto(t, "barrier_wait")
      BY <1>2, <1>7, <2>2 DEF __pm_runtime_barrier
    <3>2. PowerServes  BY <1>2, <3>1, CountersKept, KeptSet
    <3>3. "barrier_wait" \in AllAts \ CancelAts
      BY DEF AllAts, DriverAts, BarrierAts, CancelAts
    <3>4. at \notin CancelAts \cup {"work"}
      BY <1>3, <1>7 DEF __pm_runtime_barrier, Section, Running, CancelAts
    <3>5. StackMoves(t)  BY <1>0, <1>1, <3>1, <3>3, <3>4, MovesGoto
    <3> QED  BY <1>0, <3>2, <3>5, RequestStep
  <2> QED  BY <2>1, <2>2
<1>8. CASE cancel_work_sync(t)
  <2> DEFINE q == [p EXCEPT !.work = "grabbed"]
  <2>1. SetPower(d, q) /\ Goto(t, "cancelled")  BY <1>2, <1>8 DEF cancel_work_sync
  <2>2. /\ q.request = p.request
        /\ q.swallowed = p.swallowed /\ q.pending = p.pending
    BY <1>2 DEF PowerType
  <2> HIDE DEF q
  <2> QED  BY <1>1, <1>2, <1>4, <1>5, <1>6, <2>1, <2>2, CancelRequest
<1>9. CASE barrier_cancelled(t)
  <2> DEFINE q == [p EXCEPT !.work = "off", !.pending = FALSE,
                         !.swallowed = @ \/ p.request # "NONE"]
  <2>1. SetPower(d, q) /\ Goto(t, "barrier_wait")  BY <1>2, <1>9 DEF barrier_cancelled
  <2>2. /\ q.work = "off" /\ ~q.pending
        /\ q.request # "NONE" => q.swallowed
    BY <1>2, Zenon DEF PowerType
  <2> HIDE DEF q
  <2> QED  BY <1>1, <1>2, <1>4, <1>5, <2>1, <2>2, CancelRequest
<1> QED  BY <1>7, <1>8, <1>9

LEMMA RequestNext ==
  ASSUME IInv, RequestInv, [Next]_vars
  PROVE  RequestInv'
<1>0. IInv'  BY INext
<1>1. ASSUME NEW a \in Actors, Run(a) PROVE RequestInv'
  <2>1. PowerServes
    BY <1>1, IdleServes, ParentServes, SuspendServes, ResumeServes, ResumeEndServes DEF Run
  <2> QED  BY <1>0, <1>1, <2>1, RunMoves, RequestStep
<1>2. ASSUME NEW t \in Tasks, RunTask(t) PROVE RequestInv'
  BY <1>0, <1>2, DisableRequest, BarrierRequest DEF RunTask
<1>3. ASSUME NEW d \in Devices, Worker(d) \/ pm_suspend_timer_fn(d) PROVE RequestInv'
  BY <1>0, <1>3, WorkRequest
<1>4. ASSUME NEW t \in Tasks, NEW d \in Devices, pm_runtime_enable(t, d) PROVE RequestInv'
  <2>0. t \in Actors /\ power[d] \in PowerType  BY DEF Actors, IInv, TypeOK
  <2>1. stack[t] = <<>> /\ UNCHANGED stack /\ \E n : SetPower(d, [power[d] EXCEPT !.depth = n])
    BY <1>4 DEF pm_runtime_enable
  <2>2. PowerServes  BY <2>0, <2>1, CountersKept, KeptSet
  <2>3. StackMoves(t)  BY <2>0, <2>1, MovesStill
  <2> QED  BY <1>0, <2>0, <2>2, <2>3, RequestStep
<1>5. ASSUME NEW t \in Tasks, NEW d \in Targets, Start(t, d) PROVE RequestInv'
  <2>1. d \in Devices /\ t \in Actors  BY PMAssumption DEF Actors
  <2>2. PowerServes /\ StackMoves(t)  BY <1>5, <2>1, StartServes, StartMoves
  <2> QED  BY <1>0, <2>1, <2>2, RequestStep
<1>6. CASE UNCHANGED vars
  BY <1>6 DEF vars, RequestInv, Orderly, Asked, Looking, Cancelling, Top
<1> QED  BY <1>1, <1>2, <1>3, <1>4, <1>5, <1>6 DEF Next

(* A request that is neither served nor cancelled is marked pending and    *)
(* its work item is queued or about to look, so request_pending never      *)
(* keeps the next request from being queued for nothing.  That holds       *)
(* against every order of calls, barriers and disables of several tasks    *)
(* included; the one thing a barrier may do to a request, that it takes    *)
(* the work item away from under it, is on record in swallowed.            *)
THEOREM RequestCorrect == Spec => []RequestHasWork
<1>1. Init => RequestInv
  <2> SUFFICES ASSUME Init PROVE RequestInv  OBVIOUS
  <2>1. \A a \in Actors : stack[a] = <<>>  BY DEF Init
  <2>2. \A d \in Devices : Asked(d)  BY DEF Init, Asked
  <2> QED  BY <2>1, <2>2 DEF RequestInv, Orderly
<1>2. IInv /\ RequestInv /\ [Next]_vars => RequestInv'  BY RequestNext
<1>3. RequestInv => RequestHasWork  BY DEF RequestInv, Asked, Looking, RequestHasWork, Top
<1> QED  BY <1>1, <1>2, <1>3, Invariance, PTL DEF Spec

=============================================================================
