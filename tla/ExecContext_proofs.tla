------------------------- MODULE ExecContext_proofs -------------------------
(***************************************************************************)
(* Proofs about the post-processing of the event log: for any number of    *)
(* threads, functions and frames.  The state of one thread is a pair of    *)
(* stacks, the program's and the rebuilt one; the lemmas say what one      *)
(* event does to such a pair, the theorems that every run keeps it.        *)
(***************************************************************************)
EXTENDS ExecContext, CallStack_proofs

\* The frames that a stack within the bases B can have.
FramesAt(B) == [func : Func, frameBase : B]

\* Each frame of the program lies below the locals of the one that called it.
RoomKept(r) ==
    \A i, j \in 1 .. Len(r) : i < j => Top(r[j]) <= Bottom(r[i])

\* There is room for a frame on top of the program's stack.
HasRoom(r, call) == r # <<>> => Top(call) <= Bottom(Last(r))

\* On the rebuilt stack nothing overlaps a live frame from above.
LiveApart(r, c) ==
    \A i \in 1 .. Len(r) : \A j, k \in 1 .. Len(c) :
        j < k /\ c[j] = r[i] => Top(c[k]) <= Bottom(c[j])

\* What holds of the program's stack r and the rebuilt stack c of one thread.
Consistent(r, c) == /\ Decreasing(c)
                    /\ RoomKept(r)
                    /\ Among(r, c)
                    /\ LiveApart(r, c)

\* No frame that ended without a Ret lies above base.
StaleUpTo(r, c, base) ==
    \A k \in 1 .. Len(c) : (\A i \in 1 .. Len(r) : r[i] # c[k]) => c[k].frameBase <= base

Placed == /\ real \in [Thread -> Seq(Frames)]
          /\ calls \in [Thread -> Seq(Frames)]
          /\ \A t \in Thread : /\ real[t] \in Seq(FramesAt(Bases[t]))
                               /\ calls[t] \in Seq(FramesAt(Bases[t]))

\* The inductive invariant: what the program's stacks and the rebuilt ones have
\* in common, beyond what the invariants of the runs say of them.
IInv == /\ TypeOK
        /\ Placed
        /\ \A t \in Thread : Consistent(real[t], calls[t])
        /\ ExactStacks
-----------------------------------------------------------------------------
(* One event of one thread *)

\* The frames of a stack have integer bases and functions with a frame size.
LEMMA FrameFacts ==
    ASSUME NEW B \in SUBSET Int
    PROVE  /\ AreFrames(FramesAt(B))
           /\ \A c \in FramesAt(B) : /\ c.frameBase \in B
                                     /\ c.frameBase \in Int
                                     /\ c.func \in Func
                                     /\ Bottom(c) \in Int /\ Top(c) \in Int
                                     /\ Bottom(c) < c.frameBase /\ c.frameBase <= Top(c)
<1>1. \A c \in FramesAt(B) : c.frameBase \in B /\ c.func \in Func
  BY DEF FramesAt
<1>2. \A f \in Func : FrameSize[f] \in Nat \ {0} /\ ArgSize[f] \in Nat
  BY FrameAssumption
<1>3. AreFrames(FramesAt(B))
  BY <1>1 DEF AreFrames
<1>4. ASSUME NEW c \in FramesAt(B)
      PROVE  /\ Bottom(c) \in Int /\ Top(c) \in Int
             /\ Bottom(c) < c.frameBase /\ c.frameBase <= Top(c)
  <2>1. c.frameBase \in Int /\ FrameSize[c.func] \in Nat \ {0} /\ ArgSize[c.func] \in Nat
    BY <1>1, <1>2
  <2>2. QED
    BY <2>1 DEF Bottom, Top
<1>5. QED
  BY <1>1, <1>3, <1>4

\* A frame that has room on top has room below every frame of the program.
LEMMA RoomBelowAll ==
    ASSUME NEW B \in SUBSET Int, NEW r \in Seq(FramesAt(B)), RoomKept(r),
           NEW call \in FramesAt(B), HasRoom(r, call)
    PROVE  \A i \in 1 .. Len(r) : /\ Top(call) <= Bottom(r[i])
                                  /\ call.frameBase < r[i].frameBase
<1>1. Len(r) \in Nat /\ \A i \in 1 .. Len(r) : r[i] \in FramesAt(B)
  BY ElementOfSeq, LenProperties
<1>2. \A f \in FramesAt(B) : /\ f.frameBase \in Int
                            /\ Bottom(f) \in Int /\ Top(f) \in Int
                            /\ Bottom(f) < f.frameBase /\ f.frameBase <= Top(f)
  BY FrameFacts
<1> SUFFICES ASSUME NEW i \in 1 .. Len(r)
             PROVE  Top(call) <= Bottom(r[i])
  BY <1>1, <1>2
<1>3. Len(r) \in 1 .. Len(r) /\ r # <<>>
  BY <1>1
<1>4. Top(call) <= Bottom(r[Len(r)])
  BY <1>3 DEF HasRoom, Last
<1>5. CASE i = Len(r)
  BY <1>4, <1>5
<1>6. CASE i < Len(r)
  <2>1. Top(r[Len(r)]) <= Bottom(r[i])
    BY <1>3, <1>6 DEF RoomKept
  <2>2. /\ Bottom(r[i]) \in Int /\ Top(call) \in Int
        /\ Bottom(r[Len(r)]) \in Int /\ Top(r[Len(r)]) \in Int
        /\ Bottom(r[Len(r)]) < r[Len(r)].frameBase /\ r[Len(r)].frameBase <= Top(r[Len(r)])
        /\ r[Len(r)].frameBase \in Int
    BY <1>1, <1>2, <1>3
  <2>3. QED
    BY <1>4, <2>1, <2>2
<1>7. QED
  BY <1>1, <1>5, <1>6

\* Front takes the top off the program's stack.
LEMMA FrontIs ==
    ASSUME NEW S, NEW r \in Seq(S), r # <<>>
    PROVE  /\ Front(r) \in Seq(S)
           /\ Front(r) = Pop(r)
           /\ Len(r) \in Nat \ {0}
           /\ Last(r) = r[Len(r)]
           /\ Len(Front(r)) = Len(r) - 1
           /\ \A i \in 1 .. Len(r) - 1 : Front(r)[i] = r[i]
BY PopIs DEF Front, Last, Pop

\* A call, with the clean-up in push, keeps the stacks consistent.
LEMMA CallKeeps ==
    ASSUME NEW B \in SUBSET Int, NEW r \in Seq(FramesAt(B)), NEW c \in Seq(FramesAt(B)),
           NEW call \in FramesAt(B), Consistent(r, c), HasRoom(r, call)
    PROVE  Consistent(Append(r, call), Push(c, call))
<1> DEFINE rr == Append(r, call)
           cc == Push(c, call)
           n == Len(cc)
<1>1. /\ Len(r) \in Nat /\ \A i \in 1 .. Len(r) : r[i] \in FramesAt(B)
      /\ Len(c) \in Nat /\ \A i \in 1 .. Len(c) : c[i] \in FramesAt(B)
  BY ElementOfSeq, LenProperties
<1>2. /\ \A f \in FramesAt(B) : /\ f.frameBase \in Int
                               /\ Bottom(f) \in Int /\ Top(f) \in Int
                               /\ Bottom(f) < f.frameBase /\ f.frameBase <= Top(f)
      /\ AreFrames(FramesAt(B))
  BY FrameFacts
<1>3. \A i \in 1 .. Len(r) : /\ Top(call) <= Bottom(r[i])
                             /\ call.frameBase < r[i].frameBase
  BY <1>2, RoomBelowAll DEF Consistent
<1>4. /\ Len(rr) = Len(r) + 1
      /\ \A i \in 1 .. Len(r) : rr[i] = r[i]
      /\ rr[Len(r) + 1] = call
  BY AppendProperties
<1>5. Decreasing(c)
  BY DEF Consistent
<1>6. /\ cc \in Seq(FramesAt(B))
      /\ Decreasing(cc)
      /\ n \in 1 .. Len(c) + 1
      /\ cc[n] = call
      /\ \A i \in 1 .. n - 1 : cc[i] = c[i] /\ c[i].frameBase > call.frameBase
      /\ \A i \in n .. Len(c) : c[i].frameBase <= call.frameBase
  BY <1>2, <1>5, PushIs
<1> HIDE DEF rr, cc, n
<1>7. RoomKept(rr)
  <2> SUFFICES ASSUME NEW i \in 1 .. Len(r) + 1, NEW j \in 1 .. Len(r) + 1, i < j
               PROVE  Top(rr[j]) <= Bottom(rr[i])
    BY <1>4 DEF RoomKept
  <2>1. CASE j = Len(r) + 1
    BY <1>1, <1>3, <1>4, <2>1
  <2>2. CASE j < Len(r) + 1
    BY <1>1, <1>4, <2>2 DEF Consistent, RoomKept
  <2>3. QED
    BY <1>1, <2>1, <2>2
<1>8. Among(rr, cc)
  <2> SUFFICES ASSUME NEW i \in 1 .. Len(r) + 1
               PROVE  \E j \in 1 .. n : cc[j] = rr[i]
    BY <1>4 DEF Among, n
  <2>1. CASE i = Len(r) + 1
    BY <1>1, <1>4, <1>6, <2>1
  <2>2. CASE i \in 1 .. Len(r)
    <3>1. PICK j \in 1 .. Len(c) : c[j] = r[i]
      BY <2>2 DEF Consistent, Among
    <3>2. c[j].frameBase > call.frameBase
      BY <1>1, <1>2, <1>3, <2>2, <3>1
    <3>3. j \in 1 .. n - 1
      <4>1. c[j].frameBase \in Int /\ call.frameBase \in Int
        BY <1>1, <1>2
      <4>2. ~(j \in n .. Len(c))
        BY <1>6, <3>2, <4>1
      <4>3. QED
        BY <1>1, <1>6, <4>2
    <3>4. QED
      BY <1>1, <1>4, <1>6, <2>2, <3>1, <3>3
  <2>3. QED
    BY <1>1, <2>1, <2>2
<1>9. LiveApart(rr, cc)
  <2> SUFFICES ASSUME NEW i \in 1 .. Len(r) + 1, NEW j \in 1 .. n, NEW k \in 1 .. n,
                      j < k, cc[j] = rr[i]
               PROVE  Top(cc[k]) <= Bottom(cc[j])
    BY <1>4 DEF LiveApart, n
  <2>1. j \in 1 .. n - 1 /\ cc[j] = c[j] /\ c[j].frameBase > call.frameBase
    BY <1>1, <1>6
  <2>2. i \in 1 .. Len(r) /\ c[j] = r[i]
    <3>1. CASE i = Len(r) + 1
      <4>1. c[j] = call /\ call.frameBase \in Int
        BY <1>2, <1>4, <2>1, <3>1
      <4>2. QED
        BY <2>1, <4>1
    <3>2. CASE i \in 1 .. Len(r)
      BY <1>4, <2>1, <3>2
    <3>3. QED
      BY <1>1, <3>1, <3>2
  <2>3. CASE k = n
    BY <1>3, <1>6, <2>1, <2>2, <2>3
  <2>4. CASE k \in 1 .. n - 1
    <3>1. cc[k] = c[k] /\ j \in 1 .. Len(c) /\ k \in 1 .. Len(c)
      BY <1>1, <1>6, <2>1, <2>4
    <3>2. QED
      BY <2>1, <2>2, <3>1 DEF Consistent, LiveApart
  <2>5. QED
    BY <1>6, <2>3, <2>4
<1>10. QED
  BY <1>6, <1>7, <1>8, <1>9 DEF Consistent, rr, cc

\* When no stale frame lies above the new one, push makes the stacks equal.
LEMMA CallMakesEqual ==
    ASSUME NEW B \in SUBSET Int, NEW r \in Seq(FramesAt(B)), NEW c \in Seq(FramesAt(B)),
           NEW call \in FramesAt(B), Consistent(r, c), HasRoom(r, call),
           StaleUpTo(r, c, call.frameBase)
    PROVE  Push(c, call) = Append(r, call)
<1> DEFINE rr == Append(r, call)
           cc == Push(c, call)
           n == Len(cc)
<1>1. /\ Len(r) \in Nat /\ \A i \in 1 .. Len(r) : r[i] \in FramesAt(B)
      /\ Len(c) \in Nat /\ \A i \in 1 .. Len(c) : c[i] \in FramesAt(B)
  BY ElementOfSeq, LenProperties
<1>2. /\ \A f \in FramesAt(B) : /\ f.frameBase \in Int
                               /\ Bottom(f) \in Int /\ Top(f) \in Int
                               /\ Bottom(f) < f.frameBase /\ f.frameBase <= Top(f)
      /\ AreFrames(FramesAt(B))
  BY FrameFacts
<1>3. /\ rr \in Seq(FramesAt(B))
      /\ Len(rr) = Len(r) + 1
      /\ \A i \in 1 .. Len(r) : rr[i] = r[i]
      /\ rr[Len(r) + 1] = call
  BY AppendProperties
<1>4. Decreasing(c)
  BY DEF Consistent
<1>5. /\ cc \in Seq(FramesAt(B))
      /\ Decreasing(cc)
      /\ n \in 1 .. Len(c) + 1
      /\ cc[n] = call
      /\ \A i \in 1 .. n - 1 : cc[i] = c[i] /\ c[i].frameBase > call.frameBase
      /\ \A i \in n .. Len(c) : c[i].frameBase <= call.frameBase
  BY <1>2, <1>4, PushIs
<1>6. Decreasing(cc) /\ RoomKept(rr) /\ Among(rr, cc)
  BY CallKeeps DEF Consistent
<1> HIDE DEF rr, cc, n
<1>7. Decreasing(rr)
  <2> SUFFICES ASSUME NEW i \in 1 .. Len(rr), NEW j \in 1 .. Len(rr), i < j
               PROVE  rr[i].frameBase > rr[j].frameBase
    BY DEF Decreasing
  <2>1. rr[i] \in FramesAt(B) /\ rr[j] \in FramesAt(B)
    BY <1>3, ElementOfSeq
  <2>2. Top(rr[j]) <= Bottom(rr[i])
    BY <1>6 DEF RoomKept
  <2>3. QED
    BY <1>2, <2>1, <2>2
<1>8. Among(cc, rr)
  <2> SUFFICES ASSUME NEW k \in 1 .. n
               PROVE  \E i \in 1 .. Len(r) + 1 : rr[i] = cc[k]
    BY <1>3 DEF Among, n
  <2>1. CASE k = n
    BY <1>1, <1>3, <1>5, <2>1
  <2>2. CASE k \in 1 .. n - 1
    <3>1. k \in 1 .. Len(c) /\ cc[k] = c[k] /\ c[k].frameBase > call.frameBase
      <4>1. k \in 1 .. Len(c)
        BY <1>1, <1>5, <2>2
      <4>2. QED
        BY <1>5, <2>2, <4>1
    <3>2. PICK i \in 1 .. Len(r) : r[i] = c[k]
      <4>1. c[k].frameBase \in Int /\ call.frameBase \in Int
        BY <1>1, <1>2, <3>1
      <4>2. ~(c[k].frameBase <= call.frameBase)
        BY <3>1, <4>1
      <4>3. QED
        BY <3>1, <4>2 DEF StaleUpTo
    <3>3. QED
      BY <1>1, <1>3, <3>1, <3>2
  <2>3. QED
    BY <1>5, <2>1, <2>2
<1>9. cc = rr
  BY <1>2, <1>3, <1>5, <1>6, <1>7, <1>8, SameCalls
<1>10. QED
  BY <1>9 DEF rr, cc

\* A frame that leaves without an event keeps the stacks consistent, and leaves
\* room for another one at its base.
LEMMA LeaveKeeps ==
    ASSUME NEW B \in SUBSET Int, NEW r \in Seq(FramesAt(B)), NEW c \in Seq(FramesAt(B)),
           Consistent(r, c), r # <<>>
    PROVE  /\ Consistent(Front(r), c)
           /\ HasRoom(Front(r), Last(r))
<1> DEFINE rr == Front(r)
<1>1. /\ Len(r) \in Nat \ {0}
      /\ Last(r) = r[Len(r)]
      /\ rr \in Seq(FramesAt(B))
      /\ Len(rr) = Len(r) - 1
      /\ \A i \in 1 .. Len(r) - 1 : rr[i] = r[i]
  BY FrontIs
<1> HIDE DEF rr
<1>2. RoomKept(rr)
  <2> SUFFICES ASSUME NEW i \in 1 .. Len(rr), NEW j \in 1 .. Len(rr), i < j
               PROVE  Top(rr[j]) <= Bottom(rr[i])
    BY DEF RoomKept
  <2>1. i \in 1 .. Len(r) - 1 /\ j \in 1 .. Len(r) - 1 /\ i \in 1 .. Len(r) /\ j \in 1 .. Len(r)
    BY <1>1
  <2>2. Top(r[j]) <= Bottom(r[i])
    BY <2>1 DEF Consistent, RoomKept
  <2>3. QED
    BY <1>1, <2>1, <2>2
<1>3. Among(rr, c)
  <2> SUFFICES ASSUME NEW i \in 1 .. Len(r) - 1
               PROVE  \E j \in 1 .. Len(c) : c[j] = r[i]
    BY <1>1 DEF Among
  <2>1. i \in 1 .. Len(r)
    BY <1>1
  <2>2. QED
    BY <2>1 DEF Consistent, Among
<1>4. LiveApart(rr, c)
  <2> SUFFICES ASSUME NEW i \in 1 .. Len(r) - 1, NEW j \in 1 .. Len(c), NEW k \in 1 .. Len(c),
                      j < k, c[j] = r[i]
               PROVE  Top(c[k]) <= Bottom(c[j])
    BY <1>1 DEF LiveApart
  <2>1. i \in 1 .. Len(r)
    BY <1>1
  <2>2. QED
    BY <2>1 DEF Consistent, LiveApart
<1>5. HasRoom(rr, Last(r))
  <2> SUFFICES ASSUME rr # <<>>
               PROVE  Top(r[Len(r)]) <= Bottom(Last(rr))
    BY <1>1 DEF HasRoom
  <2>1. Len(r) - 1 \in 1 .. Len(r) - 1
    BY <1>1, EmptySeq
  <2>2. Last(rr) = r[Len(r) - 1]
    BY <1>1, <2>1 DEF Last
  <2>3. Len(r) - 1 \in 1 .. Len(r) /\ Len(r) \in 1 .. Len(r) /\ Len(r) - 1 < Len(r)
    BY <1>1, <2>1
  <2>4. QED
    BY <2>2, <2>3 DEF Consistent, RoomKept
<1>6. QED
  BY <1>2, <1>3, <1>4, <1>5 DEF Consistent, rr

\* A Ret that meets its Call on the top keeps the stacks consistent.
LEMMA RetKeeps ==
    ASSUME NEW B \in SUBSET Int, NEW r \in Seq(FramesAt(B)), NEW c \in Seq(FramesAt(B)),
           Consistent(r, c), r # <<>>, PopMatches(c, Last(r))
    PROVE  Consistent(Front(r), Pop(c))
<1> DEFINE rr == Front(r)
           cc == Pop(c)
<1>1. /\ Len(r) \in Nat \ {0}
      /\ Last(r) = r[Len(r)]
      /\ rr \in Seq(FramesAt(B))
      /\ Len(rr) = Len(r) - 1
      /\ \A i \in 1 .. Len(r) - 1 : rr[i] = r[i]
  BY FrontIs
<1>2. /\ Len(c) \in Nat \ {0}
      /\ Len(cc) = Len(c) - 1
      /\ \A i \in 1 .. Len(c) - 1 : cc[i] = c[i]
      /\ c[Len(c)] = r[Len(r)]
  BY <1>1, PopIs DEF PopMatches
<1>3. \A i \in 1 .. Len(r) : r[i] \in FramesAt(B)
  BY ElementOfSeq
<1>4. \A f \in FramesAt(B) : /\ f.frameBase \in Int
                            /\ Bottom(f) \in Int /\ Top(f) \in Int
                            /\ Bottom(f) < f.frameBase /\ f.frameBase <= Top(f)
  BY FrameFacts
<1>5. Consistent(rr, c)
  BY LeaveKeeps
<1> HIDE DEF rr, cc
<1>6. Decreasing(cc)
  BY <1>2 DEF Consistent, Decreasing
<1>7. Among(rr, cc)
  <2> SUFFICES ASSUME NEW i \in 1 .. Len(r) - 1
               PROVE  \E j \in 1 .. Len(c) - 1 : cc[j] = rr[i]
    BY <1>1, <1>2 DEF Among
  <2>1. i \in 1 .. Len(r) /\ Len(r) \in 1 .. Len(r) /\ i < Len(r)
    BY <1>1
  <2>2. PICK j \in 1 .. Len(c) : c[j] = r[i]
    BY <2>1 DEF Consistent, Among
  <2>3. Top(r[Len(r)]) <= Bottom(r[i])
    BY <2>1 DEF Consistent, RoomKept
  <2>4. r[i] # r[Len(r)]
    <3>1. /\ r[i].frameBase \in Int
          /\ Bottom(r[i]) \in Int /\ Top(r[i]) \in Int
          /\ Bottom(r[i]) < r[i].frameBase /\ r[i].frameBase <= Top(r[i])
      BY <1>3, <1>4, <2>1
    <3>2. SUFFICES ASSUME r[i] = r[Len(r)] PROVE FALSE
      OBVIOUS
    <3>3. Top(r[i]) <= Bottom(r[i])
      BY <2>3, <3>2
    <3>4. QED
      BY <3>1, <3>3
  <2>5. j # Len(c)
    BY <1>2, <2>2, <2>4
  <2>6. QED
    BY <1>1, <1>2, <2>2, <2>5
<1>8. LiveApart(rr, cc)
  <2> SUFFICES ASSUME NEW i \in 1 .. Len(rr), NEW j \in 1 .. Len(cc), NEW k \in 1 .. Len(cc),
                      j < k, cc[j] = rr[i]
               PROVE  Top(cc[k]) <= Bottom(cc[j])
    BY DEF LiveApart
  <2>1. /\ j \in 1 .. Len(c) /\ k \in 1 .. Len(c)
        /\ cc[j] = c[j] /\ cc[k] = c[k]
    BY <1>2
  <2>2. Top(c[k]) <= Bottom(c[j])
    BY <1>5, <2>1 DEF Consistent, LiveApart
  <2>3. QED
    BY <2>1, <2>2
<1>9. QED
  BY <1>5, <1>6, <1>7, <1>8 DEF Consistent, rr, cc
-----------------------------------------------------------------------------
(* Every step keeps the invariant *)

\* The frames of each thread are frames of the model.
LEMMA FramesOfThread ==
    ASSUME NEW t \in Thread
    PROVE  /\ Bases[t] \in SUBSET Int
           /\ FramesAt(Bases[t]) \subseteq Frames
           /\ \A s \in Seq(FramesAt(Bases[t])) : s \in Seq(Frames)
<1>1. Bases[t] \in SUBSET Int
  BY BaseAssumption
<1>2. FramesAt(Bases[t]) \subseteq Frames
  BY DEF FramesAt, Frames
<1>3. QED
  BY <1>1, <1>2, SeqMonotonic

\* The empty stacks of the start are consistent.
LEMMA InitIInv == Init => IInv
<1> SUFFICES ASSUME Init PROVE IInv
  OBVIOUS
<1>1. \A t \in Thread : real[t] = <<>> /\ calls[t] = <<>>
  BY DEF Init
<1>2. \A t \in Thread : <<>> \in Seq(FramesAt(Bases[t])) /\ <<>> \in Seq(Frames) /\ Len(<<>>) = 0
  BY EmptySeq
<1>3. TypeOK
  <2>1. \A t \in Thread : <<>> \in Seq(Frames)
    BY <1>2
  <2>2. real \in [Thread -> Seq(Frames)] /\ calls \in [Thread -> Seq(Frames)]
    BY <2>1, Zenon DEF Init
  <2>3. silent \in [Thread -> 0 .. MaxSilent] /\ failed \in BOOLEAN
    <3>1. 0 \in 0 .. MaxSilent
      BY SilentAssumption
    <3>2. QED
      BY <3>1, Zenon DEF Init
  <2>4. QED
    BY <2>2, <2>3 DEF TypeOK
<1>4. Placed
  BY <1>1, <1>2, <1>3 DEF TypeOK, Placed
<1>5. \A t \in Thread : Consistent(real[t], calls[t])
  BY <1>1, <1>2 DEF Consistent, Decreasing, RoomKept, Among, LiveApart
<1>6. ExactStacks
  BY DEF Init, ExactStacks
<1>7. QED
  BY <1>3, <1>4, <1>5, <1>6 DEF IInv

\* What a step gives the stacks of thread t must be stacks within its bases and
\* consistent; then the invariant's parts about stacks hold of all threads.
LEMMA OneThread ==
    ASSUME IInv, NEW t \in Thread,
           NEW r \in Seq(FramesAt(Bases[t])), NEW c \in Seq(FramesAt(Bases[t])), Consistent(r, c),
           real' = [real EXCEPT ![t] = r], calls' = [calls EXCEPT ![t] = c]
    PROVE  /\ Placed'
           /\ \A u \in Thread : Consistent(real[u], calls[u])'
<1>1. real'[t] = r /\ calls'[t] = c
  BY DEF IInv, TypeOK
<1>2. \A u \in Thread \ {t} : real'[u] = real[u] /\ calls'[u] = calls[u]
  BY DEF IInv, TypeOK
<1>3. r \in Seq(Frames) /\ c \in Seq(Frames)
  BY FramesOfThread
<1>4. Placed'
  BY <1>1, <1>2, <1>3 DEF IInv, Placed
<1>5. \A u \in Thread : Consistent(real'[u], calls'[u])
  BY <1>1, <1>2 DEF IInv
<1>6. QED
  BY <1>4, <1>5

\* The stacks of one thread, as IInv gives them.
LEMMA StacksOf ==
    ASSUME IInv, NEW t \in Thread
    PROVE  /\ Bases[t] \in SUBSET Int
           /\ real[t] \in Seq(FramesAt(Bases[t]))
           /\ calls[t] \in Seq(FramesAt(Bases[t]))
           /\ Consistent(real[t], calls[t])
           /\ silent[t] = 0 /\ ~failed => calls[t] = real[t]
BY FramesOfThread DEF IInv, Placed, ExactStacks

\* A Call event of thread t.
LEMMA CallIInv ==
    ASSUME IInv, NEW t \in Thread, NEW f \in Func, NEW base \in Bases[t], Call(t, f, base)
    PROVE  IInv'
<1> DEFINE call == FuncCall(f, base)
           r == Append(real[t], call)
           c == Push(calls[t], call)
<1>1. /\ call \in FramesAt(Bases[t])
      /\ call.frameBase = base
  BY DEF FuncCall, FramesAt
<1>2. HasRoom(real[t], call)
  BY <1>1 DEF Call, Room, HasRoom
<1>3. r \in Seq(FramesAt(Bases[t]))
  BY <1>1, StacksOf, AppendProperties
<1>4. c \in Seq(FramesAt(Bases[t]))
  BY <1>1, StacksOf, FrameFacts, PushIs DEF Consistent
<1>5. Consistent(r, c)
  BY <1>1, <1>2, StacksOf, CallKeeps
<1>6. silent[t] = 0 => c = r
  <2> SUFFICES ASSUME silent[t] = 0 PROVE c = r
    OBVIOUS
  <2>1. calls[t] = real[t]
    BY StacksOf DEF Call
  <2>2. StaleUpTo(real[t], calls[t], call.frameBase)
    BY <2>1 DEF StaleUpTo
  <2>3. QED
    BY <1>1, <1>2, <2>2, StacksOf, CallMakesEqual
<1>7. /\ real' = [real EXCEPT ![t] = r]
      /\ calls' = [calls EXCEPT ![t] = c]
      /\ UNCHANGED <<silent, failed>> /\ ~failed
  BY DEF Call
<1> HIDE DEF call, r, c
<1>8. Placed' /\ \A u \in Thread : Consistent(real[u], calls[u])'
  BY <1>3, <1>4, <1>5, <1>7, OneThread
<1>9. TypeOK'
  BY <1>7, <1>8 DEF IInv, TypeOK, Placed
<1>10. ExactStacks'
  BY <1>6, <1>7 DEF IInv, TypeOK, ExactStacks
<1>11. QED
  BY <1>8, <1>9, <1>10 DEF IInv

\* A tail call of thread t: as if the last frame left and the new one was called.
LEMMA TailCallIInv ==
    ASSUME IInv, NEW t \in Thread, NEW f \in Func, TailCall(t, f)
    PROVE  IInv'
<1> DEFINE call == FuncCall(f, Last(real[t]).frameBase)
           left == Front(real[t])
           r == Append(left, call)
           c == Push(calls[t], call)
<1>1. /\ Len(real[t]) \in Nat \ {0}
      /\ Last(real[t]) = real[t][Len(real[t])]
      /\ left \in Seq(FramesAt(Bases[t]))
      /\ Len(left) = Len(real[t]) - 1
      /\ \A i \in 1 .. Len(real[t]) - 1 : left[i] = real[t][i]
  BY StacksOf, FrontIs DEF TailCall
<1>2. Last(real[t]) \in FramesAt(Bases[t])
  BY <1>1, StacksOf, ElementOfSeq
<1>3. call \in FramesAt(Bases[t]) /\ call.frameBase = Last(real[t]).frameBase
  BY <1>2, StacksOf, FrameFacts DEF FuncCall, FramesAt
<1>4. Consistent(left, calls[t]) /\ HasRoom(left, call)
  <2>1. Consistent(left, calls[t]) /\ HasRoom(left, Last(real[t]))
    BY StacksOf, LeaveKeeps DEF TailCall
  <2>2. Top(call) <= Top(Last(real[t]))
    <3>1. ArgSize[f] <= ArgSize[Last(real[t]).func]
      BY DEF TailCall
    <3>2. /\ Last(real[t]).frameBase \in Int
          /\ ArgSize[f] \in Nat /\ ArgSize[Last(real[t]).func] \in Nat
      BY <1>2, StacksOf, FrameFacts, FrameAssumption
    <3>3. QED
      BY <3>1, <3>2 DEF Top, FuncCall
  <2>3. ASSUME left # <<>> PROVE Top(call) <= Bottom(Last(left))
    <3>1. Top(Last(real[t])) <= Bottom(Last(left))
      BY <2>1, <2>3 DEF HasRoom
    <3>2. Last(left) \in FramesAt(Bases[t])
      <4>1. Last(left) = left[Len(left)] /\ Len(left) \in 1 .. Len(left)
        BY <1>1, <2>3, EmptySeq DEF Last
      <4>2. QED
        BY <1>1, <4>1, ElementOfSeq
    <3>3. /\ Top(call) \in Int /\ Top(Last(real[t])) \in Int
          /\ Bottom(Last(left)) \in Int
      BY <1>2, <1>3, <3>2, StacksOf, FrameFacts
    <3>4. QED
      BY <2>2, <3>1, <3>3
  <2>4. QED
    BY <2>1, <2>3 DEF HasRoom
<1> HIDE DEF call, left
<1>5. r \in Seq(FramesAt(Bases[t]))
  BY <1>1, <1>3, AppendProperties
<1>6. c \in Seq(FramesAt(Bases[t]))
  BY <1>3, StacksOf, FrameFacts, PushIs DEF Consistent
<1>7. Consistent(r, c)
  BY <1>1, <1>3, <1>4, StacksOf, CallKeeps
<1>8. silent[t] = 0 => c = r
  <2> SUFFICES ASSUME silent[t] = 0 PROVE c = r
    OBVIOUS
  <2>1. calls[t] = real[t]
    BY StacksOf DEF TailCall
  <2>2. StaleUpTo(left, calls[t], call.frameBase)
    <3> SUFFICES ASSUME NEW k \in 1 .. Len(real[t]),
                        \A i \in 1 .. Len(left) : left[i] # real[t][k]
                 PROVE  real[t][k].frameBase <= call.frameBase
      BY <2>1 DEF StaleUpTo
    <3>1. k = Len(real[t])
      BY <1>1
    <3>2. call.frameBase \in Int
      BY <1>3, StacksOf, FrameFacts
    <3>3. QED
      BY <1>1, <1>3, <3>1, <3>2
  <2>3. QED
    BY <1>1, <1>3, <1>4, <2>2, StacksOf, CallMakesEqual
<1>9. /\ real' = [real EXCEPT ![t] = r]
      /\ calls' = [calls EXCEPT ![t] = c]
      /\ UNCHANGED <<silent, failed>> /\ ~failed
  BY DEF TailCall, call, left
<1> HIDE DEF r, c
<1>10. Placed' /\ \A u \in Thread : Consistent(real[u], calls[u])'
  BY <1>5, <1>6, <1>7, <1>9, OneThread
<1>11. TypeOK'
  BY <1>9, <1>10 DEF IInv, TypeOK, Placed
<1>12. ExactStacks'
  BY <1>8, <1>9 DEF IInv, TypeOK, ExactStacks
<1>13. QED
  BY <1>10, <1>11, <1>12 DEF IInv

\* A Ret event of thread t; when it does not meet its Call the rebuilt stack
\* stays as it is and the tool ends.
LEMMA RetIInv ==
    ASSUME IInv, NEW t \in Thread, Ret(t)
    PROVE  IInv'
<1> DEFINE r == Front(real[t])
           c == IF failed' THEN calls[t] ELSE Pop(calls[t])
<1>1. /\ real[t] # <<>> /\ ~failed
      /\ failed' = ~PopMatches(calls[t], Last(real[t]))
      /\ UNCHANGED silent
  BY DEF Ret
<1>2. /\ Len(real[t]) \in Nat \ {0}
      /\ Last(real[t]) = real[t][Len(real[t])]
      /\ r \in Seq(FramesAt(Bases[t]))
      /\ r = Pop(real[t])
  BY <1>1, StacksOf, FrontIs
<1>3. c \in Seq(FramesAt(Bases[t]))
  BY <1>1, StacksOf, PopIs DEF PopMatches
<1>4. Consistent(r, c)
  <2>1. CASE PopMatches(calls[t], Last(real[t]))
    BY <1>1, <2>1, StacksOf, RetKeeps
  <2>2. CASE ~PopMatches(calls[t], Last(real[t]))
    BY <1>1, <2>2, StacksOf, LeaveKeeps
  <2>3. QED
    BY <2>1, <2>2
<1>5. silent[t] = 0 => ~failed' /\ c = r
  <2> SUFFICES ASSUME silent[t] = 0 PROVE ~failed' /\ c = r
    OBVIOUS
  <2>1. calls[t] = real[t]
    BY <1>1, StacksOf
  <2>2. PopMatches(calls[t], Last(real[t]))
    BY <1>1, <1>2, <2>1 DEF PopMatches
  <2>3. QED
    BY <1>1, <1>2, <2>1, <2>2
<1>6. real' = [real EXCEPT ![t] = r]
  BY DEF Ret
<1>7. calls' = [calls EXCEPT ![t] = c]
  BY DEF Ret, IInv, TypeOK
<1> HIDE DEF r, c
<1>8. Placed' /\ \A u \in Thread : Consistent(real[u], calls[u])'
  BY <1>2, <1>3, <1>4, <1>6, <1>7, OneThread
<1>9. TypeOK'
  <2>1. failed' \in BOOLEAN
    BY <1>1
  <2>2. QED
    BY <1>1, <1>8, <2>1 DEF IInv, TypeOK, Placed
<1>10. ExactStacks'
  BY <1>1, <1>5, <1>6, <1>7 DEF IInv, TypeOK, ExactStacks
<1>11. QED
  BY <1>8, <1>9, <1>10 DEF IInv

\* A frame of thread t leaves without an event.
LEMMA LeaveSilentlyIInv ==
    ASSUME IInv, NEW t \in Thread, LeaveSilently(t)
    PROVE  IInv'
<1> DEFINE r == Front(real[t])
<1>1. /\ real[t] # <<>> /\ ~failed
      /\ silent[t] < MaxSilent
      /\ silent' = [silent EXCEPT ![t] = @ + 1]
      /\ real' = [real EXCEPT ![t] = r]
      /\ UNCHANGED <<calls, failed>>
  BY DEF LeaveSilently
<1>2. r \in Seq(FramesAt(Bases[t]))
  BY <1>1, StacksOf, FrontIs
<1>3. Consistent(r, calls[t])
  BY <1>1, StacksOf, LeaveKeeps
<1> HIDE DEF r
<1>4. calls' = [calls EXCEPT ![t] = calls[t]]
  BY <1>1 DEF IInv, TypeOK
<1>5. Placed' /\ \A u \in Thread : Consistent(real[u], calls[u])'
  BY <1>1, <1>2, <1>3, <1>4, StacksOf, OneThread
<1>6. silent[t] \in 0 .. MaxSilent /\ silent'[t] = silent[t] + 1
  BY <1>1 DEF IInv, TypeOK
<1>7. TypeOK'
  <2>1. silent[t] + 1 \in 0 .. MaxSilent
    BY <1>1, <1>6, SilentAssumption
  <2>2. silent' \in [Thread -> 0 .. MaxSilent]
    BY <1>1, <2>1 DEF IInv, TypeOK
  <2>3. QED
    BY <1>1, <1>5, <2>2 DEF IInv, TypeOK, Placed
<1>8. ExactStacks'
  <2>1. silent'[t] # 0
    BY <1>6
  <2>2. \A u \in Thread \ {t} : /\ silent'[u] = silent[u]
                                /\ real'[u] = real[u]
    BY <1>1 DEF IInv, TypeOK
  <2>3. QED
    BY <1>1, <2>1, <2>2 DEF IInv, ExactStacks
<1>9. QED
  BY <1>5, <1>7, <1>8 DEF IInv

\* No step leaves the invariant.
LEMMA NextIInv == IInv /\ [Next]_vars => IInv'
<1> SUFFICES ASSUME IInv, [Next]_vars PROVE IInv'
  OBVIOUS
<1>1. ASSUME NEW t \in Thread, NEW f \in Func, NEW base \in Bases[t], Call(t, f, base)
      PROVE  IInv'
  BY <1>1, CallIInv
<1>2. ASSUME NEW t \in Thread, NEW f \in Func, TailCall(t, f)
      PROVE  IInv'
  BY <1>2, TailCallIInv
<1>3. ASSUME NEW t \in Thread, Ret(t)
      PROVE  IInv'
  BY <1>3, RetIInv
<1>4. ASSUME NEW t \in Thread, LeaveSilently(t)
      PROVE  IInv'
  BY <1>4, LeaveSilentlyIInv
<1>5. CASE UNCHANGED vars
  BY <1>5 DEF vars, IInv, TypeOK, Placed, ExactStacks
<1>6. QED
  BY <1>1, <1>2, <1>3, <1>4, <1>5 DEF Next

\* The invariant holds in every state.
THEOREM Invariant == Spec => []IInv
BY InitIInv, NextIInv, PTL DEF Spec
-----------------------------------------------------------------------------
(* What the runs check, for all threads, functions and frames *)

\* The stacks hold frames of known functions at the frame bases of the threads.
THEOREM TypeCorrect == Spec => []TypeOK
<1>1. IInv => TypeOK
  BY DEF IInv
<1>2. QED
  BY <1>1, Invariant, PTL

\* Whatever leaves without an event, in any number and order: a live frame is on
\* the rebuilt stack of its thread, in its place.
THEOREM LiveFrames == Spec => []LiveFramesFound
<1>1. IInv => LiveFramesFound
  <2> SUFFICES ASSUME IInv PROVE LiveFramesFound
    OBVIOUS
  <2>1. BasesDecrease
    BY DEF IInv, Consistent, Decreasing, BasesDecrease
  <2>2. ASSUME NEW t \in Thread PROVE ToSet(real[t]) \subseteq ToSet(calls[t])
    <3>1. DOMAIN real[t] = 1 .. Len(real[t]) /\ DOMAIN calls[t] = 1 .. Len(calls[t])
      BY StacksOf, LenProperties
    <3>2. Among(real[t], calls[t])
      BY StacksOf DEF Consistent
    <3>3. QED
      BY <3>1, <3>2 DEF Among, ToSet
  <2>3. QED
    BY <2>1, <2>2 DEF LiveFramesFound
<1>2. QED
  BY <1>1, Invariant, PTL

\* As long as every frame leaves with an event the rebuilt stack is the program's,
\* and the assertions of pop hold.
THEOREM Exact == Spec => []ExactStacks
<1>1. IInv => ExactStacks
  BY DEF IInv
<1>2. QED
  BY <1>1, Invariant, PTL

\* A call from the surviving frame heals the stack when no stale frame lies above
\* the new one, whatever left silently before.
THEOREM Heals == Spec => CallHeals
<1> DEFINE Heal == \A t \in Thread :
         (/\ Len(real'[t]) = Len(real[t]) + 1
          /\ \A c \in ToSet(calls[t]) \ ToSet(real[t]) : c.frameBase <= Last(real'[t]).frameBase)
         => calls'[t] = real'[t]
<1>1. ASSUME IInv, [Next]_vars PROVE [Heal]_vars
  <2> SUFFICES ASSUME Next, NEW t \in Thread,
                      Len(real'[t]) = Len(real[t]) + 1,
                      \A c \in ToSet(calls[t]) \ ToSet(real[t]) : c.frameBase <= Last(real'[t]).frameBase
               PROVE  calls'[t] = real'[t]
    BY <1>1 DEF Heal
  <2>1. Len(real[t]) \in Nat /\ real \in [Thread -> Seq(Frames)] /\ calls \in [Thread -> Seq(Frames)]
    BY <1>1, StacksOf, LenProperties DEF IInv, TypeOK
  <2>2. ASSUME NEW f \in Func, NEW base \in Bases[t], Call(t, f, base)
        PROVE  calls'[t] = real'[t]
    <3> DEFINE call == FuncCall(f, base)
    <3>1. /\ call \in FramesAt(Bases[t])
          /\ call.frameBase = base
      BY DEF FuncCall, FramesAt
    <3>2. HasRoom(real[t], call)
      BY <2>2, <3>1 DEF Call, Room, HasRoom
    <3>3. real'[t] = Append(real[t], call) /\ calls'[t] = Push(calls[t], call)
      BY <2>1, <2>2 DEF Call
    <3> HIDE DEF call
    <3>4. Last(real'[t]) = call
      BY <1>1, <3>1, <3>3, StacksOf, AppendProperties DEF Last
    <3>5. StaleUpTo(real[t], calls[t], call.frameBase)
      <4>1. DOMAIN real[t] = 1 .. Len(real[t]) /\ DOMAIN calls[t] = 1 .. Len(calls[t])
        BY <1>1, StacksOf, LenProperties
      <4>2. SUFFICES ASSUME NEW k \in 1 .. Len(calls[t]),
                            \A i \in 1 .. Len(real[t]) : real[t][i] # calls[t][k]
                     PROVE  calls[t][k].frameBase <= call.frameBase
        BY DEF StaleUpTo
      <4>3. calls[t][k] \in ToSet(calls[t]) \ ToSet(real[t])
        BY <4>1, <4>2 DEF ToSet
      <4>4. QED
        BY <3>4, <4>3
    <3>6. QED
      BY <1>1, <3>1, <3>2, <3>3, <3>5, StacksOf, CallMakesEqual
  <2>3. ASSUME NEW f \in Func, TailCall(t, f) PROVE FALSE
    <3> DEFINE left == Front(real[t])
               call == FuncCall(f, Last(real[t]).frameBase)
    <3>1. real'[t] = Append(left, call) /\ real[t] # <<>>
      BY <2>1, <2>3 DEF TailCall
    <3>2. left \in Seq(FramesAt(Bases[t])) /\ Len(left) = Len(real[t]) - 1
      BY <1>1, <3>1, StacksOf, FrontIs
    <3> HIDE DEF left, call
    <3>3. left \in Seq(FramesAt(Bases[t]) \cup {call})
      BY <3>2, SeqMonotonic
    <3>4. Len(real'[t]) = Len(left) + 1
      BY <3>1, <3>3, AppendProperties
    <3>5. QED
      BY <2>1, <3>2, <3>4
  <2>4. ASSUME Ret(t) \/ LeaveSilently(t) PROVE FALSE
    <3>1. real'[t] = Front(real[t]) /\ real[t] # <<>>
      BY <2>1, <2>4 DEF Ret, LeaveSilently
    <3>2. Len(Front(real[t])) = Len(real[t]) - 1
      BY <1>1, <3>1, StacksOf, FrontIs
    <3>3. QED
      BY <2>1, <3>1, <3>2
  <2>5. ASSUME NEW u \in Thread \ {t},
               \/ \E f \in Func, base \in Bases[u] : Call(u, f, base)
               \/ \E f \in Func : TailCall(u, f)
               \/ Ret(u)
               \/ LeaveSilently(u)
        PROVE  FALSE
    <3>1. real'[t] = real[t]
      BY <2>1, <2>5 DEF Call, TailCall, Ret, LeaveSilently
    <3>2. QED
      BY <2>1, <3>1
  <2>6. QED
    BY <2>2, <2>3, <2>4, <2>5 DEF Next
<1>2. QED
  BY <1>1, Invariant, PTL DEF CallHeals, Spec
-----------------------------------------------------------------------------
(* The lookup of the variable at an address *)

\* The bytes of a variable lie in its frame: below the frame base those of a local,
\* from it on those of a parameter.
LEMMA VarInFrame ==
    ASSUME NEW f \in Func, NEW i \in 1 .. Len(Vars[f])
    PROVE  /\ Vars[f][i].offset \in Int /\ Vars[f][i].size \in Nat
           /\ \/ -FrameSize[f] <= Vars[f][i].offset /\ Vars[f][i].offset + Vars[f][i].size <= 0
              \/ 0 <= Vars[f][i].offset /\ Vars[f][i].offset + Vars[f][i].size <= ArgSize[f]
<1>1. Vars[f] \in Seq([offset : Int, size : Nat])
  BY VarsAssumption
<1>2. Vars[f][i] \in [offset : Int, size : Nat]
  BY <1>1, ElementOfSeq
<1>3. QED
  BY <1>2, VarsAssumption

\* VarAt finds the first variable that covers the address.
LEMMA VarAtIs ==
    ASSUME NEW B \in SUBSET Int, NEW call \in FramesAt(B), NEW addr \in Int
    PROVE  /\ VarAt(call, addr) # 0 =>
                /\ VarAt(call, addr) \in 1 .. Len(Vars[call.func])
                /\ Covers(call, Vars[call.func][VarAt(call, addr)], addr)
           /\ \A i \in 1 .. Len(Vars[call.func]) :
                IsFirst(call, i, addr) => VarAt(call, addr) = i /\ i # 0
<1> DEFINE n == Len(Vars[call.func])
           I == {k \in 1 .. n : Covers(call, Vars[call.func][k], addr)}
<1>1. call.func \in Func
  BY FrameFacts
<1>2. VarAt(call, addr) = IF I # {} THEN Min(I) ELSE 0
  BY DEF VarAt, SelectInSeq
<1>3. n \in Nat
  BY <1>1, VarsAssumption, LenProperties
<1>4. VarAt(call, addr) # 0 => VarAt(call, addr) \in I
  <2> SUFFICES ASSUME I # {} PROVE Min(I) \in I
    BY <1>2
  <2> HIDE DEF n
  <2>1. I \subseteq 0 .. n
    OBVIOUS
  <2> HIDE DEF I
  <2>2. PICK k \in I : \A m \in I : k <= m
    BY <1>3, <2>1, LeastExists
  <2>3. QED
    BY <2>2 DEF Min
<1>5. ASSUME NEW i \in 1 .. n, IsFirst(call, i, addr)
      PROVE  VarAt(call, addr) = i /\ i # 0
  <2>1. i \in I /\ I \subseteq Int
    BY <1>3, <1>5 DEF IsFirst
  <2>2. \A k \in I : i <= k
    <3> SUFFICES ASSUME NEW k \in I, k < i PROVE FALSE
      BY <1>3
    <3>1. k \in 1 .. i
      BY <1>3
    <3>2. QED
      BY <1>5, <3>1 DEF IsFirst
  <2> HIDE DEF I
  <2>3. ASSUME NEW x \in I, \A k \in I : x <= k PROVE x = i
    <3>1. x <= i /\ i <= x /\ x \in Int /\ i \in Int
      BY <2>1, <2>2, <2>3
    <3>2. QED
      BY <3>1
  <2>4. Min(I) = i
    BY <2>1, <2>2, <2>3 DEF Min
  <2>5. QED
    BY <1>2, <1>3, <2>1, <2>4
<1>6. QED
  BY <1>4, <1>5

\* An address that a variable of a frame covers lies within the frame.
LEMMA CoveredInFrame ==
    ASSUME NEW B \in SUBSET Int, NEW call \in FramesAt(B), NEW addr \in Int,
           NEW i \in 1 .. Len(Vars[call.func]), Covers(call, Vars[call.func][i], addr)
    PROVE  /\ Bottom(call) <= addr
           /\ addr < Top(call)
<1> DEFINE v == Vars[call.func][i]
           size == FrameSize[call.func]
           args == ArgSize[call.func]
           base == call.frameBase
<1>1. base \in Int /\ call.func \in Func
  BY FrameFacts
<1>2. size \in Nat /\ args \in Nat
  BY <1>1, FrameAssumption
<1>3. /\ v.offset \in Int /\ v.size \in Nat
      /\ \/ -size <= v.offset /\ v.offset + v.size <= 0
         \/ 0 <= v.offset /\ v.offset + v.size <= args
  BY <1>1, VarInFrame
<1>4. base + v.offset <= addr /\ addr <= base + v.offset + v.size - 1
  BY DEF Covers
<1> HIDE DEF v, size, args, base
<1>5. base - size <= addr /\ addr < base + args
  <2>1. CASE -size <= v.offset /\ v.offset + v.size <= 0
    BY <1>1, <1>2, <1>3, <1>4, <2>1
  <2>2. CASE 0 <= v.offset /\ v.offset + v.size <= args
    BY <1>1, <1>2, <1>3, <1>4, <2>2
  <2>3. QED
    BY <1>3, <2>1, <2>2
<1>6. QED
  BY <1>5 DEF Bottom, Top, size, args, base

\* The calls of thread 0's rebuilt stack that findStackObject looks for.
Candidates(addr) ==
    {k \in 1 .. Len(calls[Thread0]) :
       addr <= calls[Thread0][k].frameBase /\ VarAt(calls[Thread0][k], addr) # 0}

\* findStackObject takes the last of them.
LEMMA FindStackObjectIs ==
    ASSUME NEW addr
    PROVE  FindStackObject(addr) =
             LET i == IF Candidates(addr) # {} THEN Max(Candidates(addr)) ELSE 0
             IN IF i = 0 THEN NoObject
                ELSE [call |-> calls[Thread0][i], var |-> VarAt(calls[Thread0][i], addr)]
BY DEF FindStackObject, SelectLastInSeq, Candidates

\* What lies above a live frame on the rebuilt stack has no variable at the addresses
\* of that frame.
LEMMA NotAbove ==
    ASSUME IInv, NEW a \in 1 .. Len(real[Thread0]), NEW addr \in Int,
           Bottom(real[Thread0][a]) <= addr,
           NEW j \in 1 .. Len(calls[Thread0]), calls[Thread0][j] = real[Thread0][a],
           NEW k \in Candidates(addr)
    PROVE  k <= j
<1> DEFINE B == Bases[Thread0]
           r == real[Thread0]
           c == calls[Thread0]
<1>1. /\ B \in SUBSET Int
      /\ r \in Seq(FramesAt(B))
      /\ c \in Seq(FramesAt(B))
      /\ Consistent(r, c)
  BY ThreadAssumption, StacksOf
<1>2. Len(c) \in Nat /\ c[j] \in FramesAt(B)
  BY <1>1, ElementOfSeq, LenProperties
<1>3. /\ k \in 1 .. Len(c)
      /\ c[k] \in FramesAt(B)
      /\ VarAt(c[k], addr) # 0
  <2>1. k \in 1 .. Len(c) /\ VarAt(c[k], addr) # 0
    BY DEF Candidates
  <2>2. QED
    BY <1>1, <2>1, ElementOfSeq
<1> SUFFICES ASSUME j < k PROVE FALSE
  BY <1>2, <1>3
<1>4. Top(c[k]) <= Bottom(c[j])
  BY <1>1, <1>3 DEF Consistent, LiveApart
<1>5. /\ VarAt(c[k], addr) \in 1 .. Len(Vars[c[k].func])
      /\ Covers(c[k], Vars[c[k].func][VarAt(c[k], addr)], addr)
  BY <1>1, <1>3, VarAtIs
<1>6. addr < Top(c[k])
  BY <1>1, <1>3, <1>5, CoveredInFrame
<1>7. Top(c[k]) \in Int /\ Bottom(c[j]) \in Int /\ Bottom(c[j]) <= addr
  BY <1>1, <1>2, <1>3, FrameFacts
<1>8. QED
  BY <1>4, <1>6, <1>7

\* Up to the frame base the frame that findStackObject takes is the live one, and
\* the variable the first one there: nothing above it on the rebuilt stack reaches
\* down into it.
LEMMA StackObjectIs ==
    ASSUME IInv, NEW a \in 1 .. Len(real[Thread0]), NEW addr \in Int,
           addr <= real[Thread0][a].frameBase,
           NEW i \in 1 .. Len(Vars[real[Thread0][a].func]),
           IsFirst(real[Thread0][a], i, addr)
    PROVE  FindStackObject(addr) = [call |-> real[Thread0][a], var |-> i]
<1> DEFINE B == Bases[Thread0]
           r == real[Thread0]
           c == calls[Thread0]
           I == Candidates(addr)
<1>1. /\ B \in SUBSET Int
      /\ r \in Seq(FramesAt(B))
      /\ c \in Seq(FramesAt(B))
      /\ Consistent(r, c)
  BY ThreadAssumption, StacksOf
<1>2. r[a] \in FramesAt(B) /\ r[a].func \in Func /\ Len(c) \in Nat
  BY <1>1, FrameFacts, ElementOfSeq, LenProperties
<1>3. PICK j \in 1 .. Len(c) : c[j] = r[a]
  BY <1>1 DEF Consistent, Among
<1>4. VarAt(c[j], addr) = i /\ i # 0
  BY <1>1, <1>2, <1>3, VarAtIs
<1>5. Bottom(r[a]) <= addr
  <2>1. Len(Vars[r[a].func]) \in Nat
    BY <1>2, VarsAssumption, LenProperties
  <2>2. Covers(r[a], Vars[r[a].func][i], addr)
    BY <2>1 DEF IsFirst
  <2>3. QED
    BY <1>1, <1>2, <2>2, CoveredInFrame
<1>6. j \in I
  BY <1>3, <1>4 DEF Candidates
<1>7. \A k \in I : k <= j
  BY <1>3, <1>5, NotAbove
<1>8. I \subseteq Int
  BY <1>2 DEF Candidates
<1> HIDE DEF I
<1>9. ASSUME NEW x \in I, \A k \in I : x >= k PROVE x = j
  <2>1. x >= j /\ x <= j /\ x \in Int /\ j \in Int
    BY <1>6, <1>7, <1>8, <1>9
  <2>2. QED
    BY <2>1
<1>10. Max(I) = j
  <2>1. \A k \in I : j >= k
    BY <1>6, <1>7, <1>8
  <2>2. QED
    BY <1>6, <1>9, <2>1 DEF Max
<1>11. j # 0 /\ I # {}
  BY <1>2, <1>6
<1>12. FindStackObject(addr) = [call |-> c[j], var |-> VarAt(c[j], addr)]
  BY <1>10, <1>11, FindStackObjectIs DEF I
<1>13. QED
  BY <1>3, <1>4, <1>12

\* Above the frame base a live frame is not found; what is, is a frame that has left.
LEMMA ParameterObjectIs ==
    ASSUME IInv, NEW a \in 1 .. Len(real[Thread0]), NEW addr \in Int,
           addr > real[Thread0][a].frameBase, addr < Top(real[Thread0][a])
    PROVE  \/ FindStackObject(addr) = NoObject
           \/ FindStackObject(addr).call \in ToSet(calls[Thread0]) \ ToSet(real[Thread0])
<1> DEFINE B == Bases[Thread0]
           r == real[Thread0]
           c == calls[Thread0]
           I == Candidates(addr)
<1>1. /\ B \in SUBSET Int
      /\ r \in Seq(FramesAt(B))
      /\ c \in Seq(FramesAt(B))
      /\ Consistent(r, c)
  BY ThreadAssumption, StacksOf
<1>2. /\ Len(r) \in Nat /\ \A m \in 1 .. Len(r) : r[m] \in FramesAt(B)
      /\ Len(c) \in Nat /\ DOMAIN c = 1 .. Len(c) /\ DOMAIN r = 1 .. Len(r)
  BY <1>1, ElementOfSeq, LenProperties
<1>3. \A f \in FramesAt(B) : /\ f.frameBase \in Int
                            /\ Bottom(f) \in Int /\ Top(f) \in Int
                            /\ Bottom(f) < f.frameBase /\ f.frameBase <= Top(f)
  BY <1>1, FrameFacts
<1>4. ASSUME NEW k \in I PROVE c[k] \in ToSet(c) \ ToSet(r)
  <2>1. /\ k \in 1 .. Len(c)
        /\ addr <= c[k].frameBase
        /\ VarAt(c[k], addr) # 0
    BY DEF Candidates
  <2>2. ASSUME NEW m \in 1 .. Len(r), r[m] = c[k] PROVE FALSE
    <3>1. /\ VarAt(r[m], addr) \in 1 .. Len(Vars[r[m].func])
          /\ Covers(r[m], Vars[r[m].func][VarAt(r[m], addr)], addr)
      BY <1>1, <1>2, <2>1, <2>2, VarAtIs
    <3>2. Bottom(r[m]) <= addr
      BY <1>1, <1>2, <3>1, CoveredInFrame
    <3>3. r[m].frameBase > r[a].frameBase
      <4>1. addr <= r[m].frameBase
        BY <2>1, <2>2
      <4>2. r[m].frameBase \in Int /\ r[a].frameBase \in Int
        BY <1>2, <1>3
      <4>3. QED
        BY <4>1, <4>2
    <3>4. CASE m = a
      BY <1>2, <1>3, <3>3, <3>4
    <3>5. CASE m < a
      <4>1. Top(r[a]) <= Bottom(r[m])
        BY <1>1, <3>5 DEF Consistent, RoomKept
      <4>2. Top(r[a]) \in Int /\ Bottom(r[m]) \in Int
        BY <1>2, <1>3
      <4>3. QED
        BY <3>2, <4>1, <4>2
    <3>6. CASE a < m
      <4>1. Top(r[m]) <= Bottom(r[a])
        BY <1>1, <3>6 DEF Consistent, RoomKept
      <4>2. /\ Top(r[m]) \in Int /\ r[m].frameBase \in Int /\ r[m].frameBase <= Top(r[m])
            /\ Bottom(r[a]) \in Int /\ r[a].frameBase \in Int /\ Bottom(r[a]) < r[a].frameBase
        BY <1>2, <1>3
      <4>3. QED
        BY <3>3, <4>1, <4>2
    <3>7. QED
      BY <1>2, <3>4, <3>5, <3>6
  <2>3. QED
    BY <1>2, <2>1, <2>2 DEF ToSet
<1>5. I \subseteq 0 .. Len(c)
  BY <1>2 DEF Candidates
<1> HIDE DEF I
<1>6. CASE I = {}
  BY <1>6, FindStackObjectIs DEF I
<1>7. CASE I # {}
  <2>1. PICK k \in I : \A m \in I : k >= m
    BY <1>2, <1>5, <1>7, GreatestExists
  <2>2. Max(I) \in I
    BY <2>1 DEF Max
  <2>3. CASE Max(I) = 0
    BY <1>7, <2>3, FindStackObjectIs DEF I
  <2>4. CASE Max(I) # 0
    <3>1. FindStackObject(addr) = [call |-> c[Max(I)], var |-> VarAt(c[Max(I)], addr)]
      BY <1>7, <2>4, FindStackObjectIs DEF I
    <3>2. QED
      BY <1>4, <2>2, <3>1
  <2>5. QED
    BY <2>3, <2>4
<1>8. QED
  BY <1>6, <1>7

\* An address in another thread's frame is none of thread 0's.
LEMMA OtherThreadsObject ==
    ASSUME IInv, NEW t \in Thread \ {Thread0}, NEW a \in 1 .. Len(real[t]), NEW addr \in Int,
           NEW i \in 1 .. Len(Vars[real[t][a].func]),
           Covers(real[t][a], Vars[real[t][a].func][i], addr)
    PROVE  FindStackObject(addr) = NoObject
<1> DEFINE c == calls[Thread0]
           d == real[t][a]
<1>1. /\ Bases[Thread0] \in SUBSET Int
      /\ Bases[t] \in SUBSET Int
      /\ c \in Seq(FramesAt(Bases[Thread0]))
      /\ d \in FramesAt(Bases[t])
  BY ThreadAssumption, StacksOf, ElementOfSeq
<1>2. Candidates(addr) = {}
  <2> SUFFICES ASSUME NEW k \in 1 .. Len(c), VarAt(c[k], addr) # 0
               PROVE  FALSE
    BY DEF Candidates
  <2>1. c[k] \in FramesAt(Bases[Thread0])
    BY <1>1, ElementOfSeq
  <2>2. /\ VarAt(c[k], addr) \in 1 .. Len(Vars[c[k].func])
        /\ Covers(c[k], Vars[c[k].func][VarAt(c[k], addr)], addr)
    BY <1>1, <2>1, VarAtIs
  <2>3. Bottom(c[k]) <= addr /\ addr < Top(c[k])
    BY <1>1, <2>1, <2>2, CoveredInFrame
  <2>4. Bottom(d) <= addr /\ addr < Top(d)
    BY <1>1, CoveredInFrame
  <2>5. /\ c[k].frameBase \in Bases[Thread0] /\ c[k].func \in Func
        /\ d.frameBase \in Bases[t] /\ d.func \in Func
        /\ Bottom(c[k]) \in Int /\ Top(c[k]) \in Int
        /\ Bottom(d) \in Int /\ Top(d) \in Int
    BY <1>1, <2>1, FrameFacts
  <2>6. Top(d) <= Bottom(c[k]) \/ Top(c[k]) <= Bottom(d)
    BY <2>5, StackAssumption DEF Top, Bottom
  <2>7. QED
    BY <2>3, <2>4, <2>5, <2>6
<1>3. QED
  BY <1>2, FindStackObjectIs

\* The byte of a static variable is found by findVarByAddress.
LEMMA StaticObjectIs ==
    ASSUME NEW i \in 1 .. Len(StaticVars), NEW addr \in Int,
           StaticVars[i].addr <= addr, addr < StaticVars[i].addr + StaticVars[i].size
    PROVE  FindObject(addr) = [call |-> "static", var |-> i]
<1> DEFINE I == {k \in 1 .. Len(StaticVars) :
                   StaticVars[k].addr <= addr /\ addr < StaticVars[k].addr + StaticVars[k].size}
<1>1. /\ Len(StaticVars) \in Nat
      /\ \A k \in 1 .. Len(StaticVars) : StaticVars[k].addr \in Int /\ StaticVars[k].size \in Nat
  <2>1. StaticVars \in Seq([addr : Int, size : Nat])
    BY StaticAssumption
  <2>2. \A k \in 1 .. Len(StaticVars) : StaticVars[k] \in [addr : Int, size : Nat]
    BY <2>1, ElementOfSeq
  <2>3. QED
    BY <2>1, <2>2, LenProperties
<1>2. ~(addr > StackBound)
  <2>1. StaticVars[i].addr + StaticVars[i].size <= StackBound + 1
    BY StaticAssumption
  <2>2. StackBound \in Int
    BY StackAssumption
  <2>3. QED
    BY <1>1, <2>1, <2>2
<1>3. i \in I
  OBVIOUS
<1>4. \A k \in I : k = i
  <2> SUFFICES ASSUME NEW k \in I, k # i PROVE FALSE
    OBVIOUS
  <2>1. \/ StaticVars[i].addr + StaticVars[i].size <= StaticVars[k].addr
        \/ StaticVars[k].addr + StaticVars[k].size <= StaticVars[i].addr
    <3>1. i < k \/ k < i
      BY <1>1
    <3>2. QED
      BY <3>1, StaticAssumption
  <2>2. QED
    BY <1>1, <2>1, SMTT(30)
<1>5. Min(I) = i
  <2>1. I = {i}
    BY <1>3, <1>4
  <2>2. i \in Int
    BY <1>1
  <2>3. QED
    BY <2>1, <2>2 DEF Min
<1>6. SelectInSeq(StaticVars, LAMBDA v : v.addr <= addr /\ addr < v.addr + v.size)
        = IF I # {} THEN Min(I) ELSE 0
  BY DEF SelectInSeq
<1>7. FindNonStackObject(addr) = [call |-> "static", var |-> i]
  <2>1. SelectInSeq(StaticVars, LAMBDA v : v.addr <= addr /\ addr < v.addr + v.size) = i /\ i # 0
    BY <1>1, <1>3, <1>5, <1>6
  <2>2. QED
    BY <2>1 DEF FindNonStackObject
<1>8. QED
  BY <1>2, <1>7 DEF FindObject

\* Whichever frames are stale: a byte of a live variable up to the frame base is
\* attributed to the first variable of its frame there; one above it, of a parameter,
\* to none, or to a frame that has left; a byte of another thread's stack to none;
\* and a byte of a static variable to that variable.
THEOREM Attribution == Spec => []AttributionIsRight
<1>1. IInv => AttributionIsRight
  <2> SUFFICES ASSUME IInv PROVE AttributionIsRight
    OBVIOUS
  <2>1. ASSUME NEW t \in Thread, NEW c \in ToSet(real[t]), NEW i \in 1 .. Len(Vars[c.func]),
               NEW addr \in c.frameBase + Vars[c.func][i].offset ..
                            c.frameBase + Vars[c.func][i].offset + Vars[c.func][i].size - 1
        PROVE  LET found == FindObject(addr)
               IN IF t # Thread0 THEN found = NoObject
                  ELSE IF addr <= c.frameBase
                  THEN IsFirst(c, i, addr) => found = [call |-> c, var |-> i]
                  ELSE \/ found = NoObject
                       \/ found.call \in ToSet(calls[Thread0]) \ ToSet(real[Thread0])
    <3>1. DOMAIN real[t] = 1 .. Len(real[t]) /\ Bases[t] \in SUBSET Int
      BY StacksOf, LenProperties
    <3>2. PICK a \in 1 .. Len(real[t]) : real[t][a] = c
      BY <3>1 DEF ToSet
    <3>3. c \in FramesAt(Bases[t])
      BY <3>2, StacksOf, ElementOfSeq
    <3>4. c.frameBase \in Bases[t] /\ c.frameBase \in Int /\ c.func \in Func
      BY <3>1, <3>3, FrameFacts
    <3>5. Vars[c.func][i].offset \in Int /\ Vars[c.func][i].size \in Nat
      BY <3>4, VarInFrame
    <3>6. addr \in Int /\ Covers(c, Vars[c.func][i], addr)
      BY <3>4, <3>5 DEF Covers
    <3>7. Bottom(c) <= addr /\ addr < Top(c)
      BY <3>1, <3>3, <3>6, CoveredInFrame
    <3>8. FindObject(addr) = FindStackObject(addr)
      <4>1. Bottom(c) > StackBound /\ StackBound \in Int
        BY <3>4, StackAssumption DEF Bottom
      <4>2. Bottom(c) \in Int
        BY <3>1, <3>3, FrameFacts
      <4>3. addr > StackBound
        BY <3>6, <3>7, <4>1, <4>2
      <4>4. QED
        BY <4>3 DEF FindObject
    <3>9. CASE t # Thread0
      BY <3>2, <3>6, <3>8, <3>9, OtherThreadsObject
    <3>10. CASE t = Thread0 /\ addr <= c.frameBase
      <4>1. IsFirst(c, i, addr) => FindObject(addr) = [call |-> c, var |-> i]
        BY <3>2, <3>6, <3>8, <3>10, StackObjectIs
      <4>2. QED
        BY <3>10, <4>1
    <3>11. CASE t = Thread0 /\ ~(addr <= c.frameBase)
      <4>1. addr > c.frameBase
        BY <3>4, <3>6, <3>11
      <4>2. \/ FindObject(addr) = NoObject
            \/ FindObject(addr).call \in ToSet(calls[Thread0]) \ ToSet(real[Thread0])
        BY <3>2, <3>6, <3>7, <3>8, <3>11, <4>1, ParameterObjectIs
      <4>3. QED
        BY <3>11, <4>2
    <3>12. QED
      BY <3>9, <3>10, <3>11
  <2>2. ASSUME NEW i \in 1 .. Len(StaticVars),
               NEW addr \in StaticVars[i].addr .. StaticVars[i].addr + StaticVars[i].size - 1
        PROVE  FindObject(addr) = [call |-> "static", var |-> i]
    <3>1. StaticVars[i] \in [addr : Int, size : Nat]
      BY StaticAssumption, ElementOfSeq
    <3>2. addr \in Int /\ StaticVars[i].addr <= addr /\ addr < StaticVars[i].addr + StaticVars[i].size
      BY <3>1
    <3>3. QED
      BY <3>2, StaticObjectIs
  <2>3. QED
    BY <2>1, <2>2 DEF AttributionIsRight
<1>2. QED
  BY <1>1, Invariant, PTL
=============================================================================
