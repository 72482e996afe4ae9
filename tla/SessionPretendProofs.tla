------------------------- MODULE SessionPretendProofs -------------------------
(* The dry run of SessionPretend, for every set of queries and depth of          *)
(* callbacks, for a program that does not call pretend inside a pretend and     *)
(* stops at an error.                                                           *)
EXTENDS SessionPretend, TLAPS, SequenceTheorems

IsCall(i, call) == frames[i].call = call

(* The state of the dry run has its type; a frame is dry when pretend made it.   *)
PretendTypeOK ==
  /\ isPretending \in BOOLEAN /\ loggingQueries \in BOOLEAN /\ ended \in BOOLEAN
  /\ queryLog \in Seq(Queries)
  /\ frames \in Seq(Frame)
  /\ executed \in SUBSET Queries /\ ran \in SUBSET Queries /\ wanted \in SUBSET Queries
  /\ returned \in [log : Seq(Queries), issued : Seq(Queries)]

(* The callbacks in progress: at most one dry run, backed up from a session that *)
(* was not logging; right above it a frame of withoutPretending that suspended   *)
(* it, above every other frame one that had nothing to suspend.                 *)
FrameOK(i) ==
  /\ frames[i].dry <=> IsCall(i, "pretend")
  /\ IsCall(i, "pretend") => ~frames[i].logging
  /\ IsCall(i, "without") => i > 1 /\ IsCall(i - 1, "pretend")
  /\ IsCall(i, "plain") => i = 1 \/ ~IsCall(i - 1, "pretend")

FramesInv ==
  /\ ended => frames = <<>>
  /\ \A i \in DOMAIN frames : FrameOK(i)
  /\ \A i, j \in DOMAIN frames : IsCall(i, "pretend") /\ IsCall(j, "pretend") => i = j

(* The flags are what the innermost callback needs, and the log is what its dry  *)
(* run issued.                                                                  *)
FlagsInv ==
  /\ ~ended => (isPretending <=> DryRun) /\ (loggingQueries <=> isPretending)
  /\ \A i \in DOMAIN frames : IsCall(i, "pretend") => queryLog = frames[i].issued
  /\ returned.log = returned.issued
  /\ executed = wanted

PretendInv == PretendTypeOK /\ FramesInv /\ FlagsInv

-------------------------------------------------------------------------------
(* What entering, leaving and issuing a query do to the callbacks in progress.   *)

LEMMA FramesType ==
  ASSUME PretendTypeOK
  PROVE  /\ Depth \in Nat /\ DOMAIN frames = 1 .. Depth
         /\ \A i \in 1 .. Depth : frames[i] \in Frame
         /\ Depth > 0 => Depth \in 1 .. Depth
         /\ Depth = 0 <=> frames = <<>>
BY DEF PretendTypeOK, Depth

LEMMA Pushed ==
  ASSUME PretendTypeOK, NEW call \in {"pretend", "without", "plain"}, NEW dry \in BOOLEAN,
         Push(call, dry)
  PROVE  /\ frames' \in Seq(Frame) /\ Depth' = Depth + 1
         /\ \A i \in 1 .. Depth : frames'[i] = frames[i]
         /\ frames'[Depth + 1].call = call /\ frames'[Depth + 1].logging = loggingQueries
         /\ frames'[Depth + 1].dry = dry /\ frames'[Depth + 1].issued = <<>>
<1> DEFINE frame == [call |-> call, logging |-> loggingQueries, dry |-> dry, issued |-> <<>>]
<1>1. <<>> \in Seq(Queries)
  OBVIOUS
<1>2. frame \in Frame
  BY <1>1 DEF PretendTypeOK, Frame
<1>3. /\ frame.call = call /\ frame.logging = loggingQueries
      /\ frame.dry = dry /\ frame.issued = <<>>
  OBVIOUS
<1>4. frames' = Append(frames, frame)
  BY DEF Push
<1> HIDE DEF frame
<1>5. /\ frames' \in Seq(Frame) /\ Depth' = Depth + 1
      /\ \A i \in 1 .. Depth : frames'[i] = frames[i]
      /\ frames'[Depth + 1] = frame
  BY <1>2, <1>4 DEF PretendTypeOK, Depth
<1> QED BY <1>3, <1>5

LEMMA Popped ==
  ASSUME PretendTypeOK, Depth > 0, Pop
  PROVE  /\ frames' \in Seq(Frame) /\ Depth' = Depth - 1
         /\ \A i \in 1 .. Depth - 1 : frames'[i] = frames[i]
<1>1. Depth \in Nat /\ Depth - 1 \in Nat /\ \A i \in 1 .. Depth - 1 : frames[i] \in Frame
  BY FramesType
<1>2. /\ SubSeq(frames, 1, Depth - 1) \in Seq(Frame)
      /\ Len(SubSeq(frames, 1, Depth - 1)) = Depth - 1
      /\ \A i \in 1 .. Depth - 1 : SubSeq(frames, 1, Depth - 1)[i] = frames[i]
  BY <1>1, SubSeqProperties
<1> QED BY <1>2 DEF Pop, Depth

LEMMA Issued ==
  ASSUME PretendTypeOK, Depth > 0, NEW q \in Queries,
         frames' = [frames EXCEPT ![Depth].issued = Append(@, q)]
  PROVE  /\ frames' \in Seq(Frame) /\ Depth' = Depth
         /\ \A i \in 1 .. Depth :
              /\ frames'[i].call = frames[i].call /\ frames'[i].dry = frames[i].dry
              /\ frames'[i].logging = frames[i].logging
         /\ Top.issued \in Seq(Queries)
         /\ frames'[Depth].issued = Append(Top.issued, q)
<1>1. Top \in Frame /\ Top.issued \in Seq(Queries) /\ Depth \in 1 .. Depth
  BY FramesType DEF Top, Frame
<1> DEFINE top == [Top EXCEPT !.issued = Append(@, q)]
<1>2. /\ top \in Frame /\ top.issued = Append(Top.issued, q)
      /\ top.call = Top.call /\ top.dry = Top.dry /\ top.logging = Top.logging
  <2>1. Append(Top.issued, q) \in Seq(Queries)
    BY <1>1
  <2>2. /\ top.issued = Append(Top.issued, q)
        /\ top.call = Top.call /\ top.dry = Top.dry /\ top.logging = Top.logging
    BY <1>1 DEF Frame
  <2>3. top = [call |-> Top.call, logging |-> Top.logging, dry |-> Top.dry,
               issued |-> Append(Top.issued, q)]
    BY <1>1 DEF Frame
  <2>4. top \in Frame
    BY <1>1, <2>1, <2>3 DEF Frame
  <2> QED BY <2>2, <2>4
<1>3. frames' = [frames EXCEPT ![Depth] = top]
  BY DEF Top
<1> HIDE DEF top
<1>4. /\ frames' \in Seq(Frame) /\ Len(frames') = Len(frames)
      /\ \A i \in 1 .. Len(frames) : frames'[i] = IF i = Depth THEN top ELSE frames[i]
  <2>1. frames \in Seq(Frame) /\ Depth \in 1 .. Len(frames)
    BY <1>1 DEF PretendTypeOK, Depth
  <2>2. Len(frames) \in Nat /\ frames \in [1 .. Len(frames) -> Frame]
    BY <2>1, LenProperties
  <2>3. frames' \in [1 .. Len(frames) -> Frame]
    BY <1>2, <1>3, <2>2
  <2>4. frames' \in Seq(Frame)
    BY <2>2, <2>3, SeqDef
  <2>5. Len(frames') = Len(frames)
    BY <2>2, <2>3, <2>4, LenProperties
  <2>6. \A i \in 1 .. Len(frames) : frames'[i] = IF i = Depth THEN top ELSE frames[i]
    BY <1>3, <2>1, <2>2
  <2> QED BY <2>4, <2>5, <2>6
<1>5. frames'[Depth] = top /\ frames[Depth] = Top
  BY <1>1, <1>4 DEF Top, Depth
<1> QED BY <1>1, <1>2, <1>4, <1>5 DEF Depth

(* A frame that stays, with the one below it, stays as it must be.              *)
LEMMA FrameKept ==
  ASSUME NEW i, FrameOK(i),
         frames'[i].call = frames[i].call, frames'[i].dry = frames[i].dry,
         frames'[i].logging = frames[i].logging,
         i # 1 => frames'[i - 1].call = frames[i - 1].call
  PROVE  FrameOK(i)'
BY DEF FrameOK, IsCall

-------------------------------------------------------------------------------
(* Each action keeps the invariant.                                             *)

LEMMA QueryKeepsPretend ==
  ASSUME PretendInv, NEW q \in Queries, RunQuery(q)
  PROVE  PretendInv'
<1>0. /\ PretendTypeOK /\ ~ended /\ ~ended' /\ Depth \in Nat /\ DOMAIN frames = 1 .. Depth
      /\ \A i \in 1 .. Depth : frames[i] \in Frame
  BY FramesType DEF PretendInv, RunQuery, PretendTypeOK
<1>1. (isPretending <=> DryRun) /\ (loggingQueries <=> isPretending)
  BY <1>0 DEF PretendInv, FlagsInv
<1>2. CASE ~DryRun
  <2>1. /\ UNCHANGED <<frames, queryLog, isPretending, loggingQueries, returned, ended>>
        /\ wanted' = wanted \union {q} /\ executed' = executed \union {q}
        /\ ran' = ran \union {q}
    BY <1>1, <1>2 DEF RunQuery, LogQuery
  <2> QED BY <2>1 DEF PretendInv, PretendTypeOK, FramesInv, FrameOK, FlagsInv, IsCall, DryRun, Depth, Top
<1>3. CASE DryRun
  <2>1. /\ frames' = [frames EXCEPT ![Depth].issued = Append(@, q)]
        /\ queryLog' = Append(queryLog, q)
        /\ UNCHANGED <<isPretending, loggingQueries, returned, ended, wanted, executed>>
        /\ ran' = ran \union {q}
    BY <1>1, <1>3 DEF RunQuery, LogQuery
  <2>2. Depth > 0 /\ Depth \in 1 .. Depth /\ Top.dry
    BY <1>0, <1>3 DEF DryRun
  <2>3. /\ frames' \in Seq(Frame) /\ Depth' = Depth
        /\ \A i \in 1 .. Depth :
              /\ frames'[i].call = frames[i].call /\ frames'[i].dry = frames[i].dry
              /\ frames'[i].logging = frames[i].logging
        /\ frames'[Depth].issued = Append(Top.issued, q)
    BY <1>0, <2>1, <2>2, Issued
  <2>4. DOMAIN frames' = 1 .. Depth
    BY <2>3 DEF Depth
  <2>5. PretendTypeOK'
    BY <1>0, <2>1, <2>3 DEF PretendTypeOK
  <2>6. \A i, call : i \in 1 .. Depth => (IsCall(i, call)' <=> IsCall(i, call))
    BY <2>3 DEF IsCall
  <2>7. FramesInv'
    <3>1. ASSUME NEW i \in 1 .. Depth PROVE FrameOK(i)'
      <4>1. FrameOK(i) /\ (i # 1 => i - 1 \in 1 .. Depth)
        BY <1>0 DEF PretendInv, FramesInv
      <4> QED BY <2>3, <4>1, FrameKept
    <3>2. \A i, j \in 1 .. Depth : IsCall(i, "pretend")' /\ IsCall(j, "pretend")' => i = j
      BY <1>0, <2>6 DEF PretendInv, FramesInv
    <3> QED BY <1>0, <2>4, <3>1, <3>2 DEF FramesInv
  <2>8. FlagsInv'
    <3>1. IsCall(Depth, "pretend") /\ queryLog = Top.issued
      BY <1>0, <2>2 DEF PretendInv, FramesInv, FrameOK, FlagsInv, Top
    <3>2. \A i \in 1 .. Depth : IsCall(i, "pretend")' => i = Depth
      BY <1>0, <2>2, <2>6, <3>1 DEF PretendInv, FramesInv
    <3>3. \A i \in 1 .. Depth : IsCall(i, "pretend")' => queryLog' = frames'[i].issued
      BY <2>1, <2>3, <3>1, <3>2
    <3>4. DryRun'
      BY <2>2, <2>3 DEF DryRun, Top
    <3> QED BY <1>1, <1>3, <2>1, <2>4, <3>3, <3>4 DEF PretendInv, FlagsInv
  <2> QED BY <2>5, <2>7, <2>8 DEF PretendInv
<1> QED BY <1>2, <1>3

LEMMA PretendKeepsPretend ==
  ASSUME PretendInv, ~NestedPretend, Pretend
  PROVE  PretendInv'
<1>0. /\ PretendTypeOK /\ ~ended /\ ~ended' /\ Depth \in Nat /\ DOMAIN frames = 1 .. Depth
      /\ \A i \in 1 .. Depth : FrameOK(i) /\ ~IsCall(i, "pretend")
  BY FramesType DEF PretendInv, FramesInv, Pretend, Push, PretendTypeOK, IsCall
<1>1. /\ frames' \in Seq(Frame) /\ Depth' = Depth + 1
      /\ \A i \in 1 .. Depth : frames'[i] = frames[i]
      /\ frames'[Depth + 1].call = "pretend" /\ frames'[Depth + 1].logging = loggingQueries
      /\ frames'[Depth + 1].dry = TRUE /\ frames'[Depth + 1].issued = <<>>
  BY <1>0, Pushed DEF Pretend
<1>2. ~loggingQueries
  <2>1. ~DryRun
    BY <1>0 DEF DryRun, Top, FrameOK
  <2> QED BY <1>0, <2>1 DEF PretendInv, FlagsInv
<1>3. /\ isPretending' = TRUE /\ loggingQueries' = TRUE /\ queryLog' = <<>>
      /\ UNCHANGED <<executed, ran, wanted, returned, ended>>
  BY DEF Pretend
<1>4. PretendTypeOK'
  BY <1>0, <1>1, <1>3 DEF PretendTypeOK
<1>5. DOMAIN frames' = 1 .. Depth + 1 /\ \A i \in 1 .. Depth + 1 : i \in 1 .. Depth \/ i = Depth + 1
  BY <1>0, <1>1 DEF Depth
<1>6. \A i \in 1 .. Depth : FrameOK(i)' /\ ~IsCall(i, "pretend")'
  <2> SUFFICES ASSUME NEW i \in 1 .. Depth PROVE FrameOK(i)' /\ ~IsCall(i, "pretend")'
    OBVIOUS
  <2>1. i # 1 => i - 1 \in 1 .. Depth
    BY <1>0
  <2>2. FrameOK(i)'
    BY <1>0, <1>1, <2>1, FrameKept
  <2> QED BY <1>0, <1>1, <2>2 DEF IsCall
<1>7. ASSUME NEW k, k = Depth + 1
      PROVE  FrameOK(k)' /\ IsCall(k, "pretend")'
  BY <1>1, <1>2, <1>7 DEF FrameOK, IsCall
<1>8. FramesInv'
  BY <1>0, <1>5, <1>6, <1>7 DEF FramesInv
<1>9. FlagsInv'
  <2>1. DryRun'
    <3>1. Depth' > 0 /\ frames'[Depth'].dry
      BY <1>0, <1>1
    <3> QED BY <3>1 DEF DryRun, Top
  <2>2. \A i \in 1 .. Depth + 1 : IsCall(i, "pretend")' => queryLog' = frames'[i].issued
    BY <1>1, <1>3, <1>5, <1>6
  <2> QED BY <1>3, <1>5, <2>1, <2>2 DEF PretendInv, FlagsInv
<1> QED BY <1>4, <1>8, <1>9 DEF PretendInv

LEMMA WithoutKeepsPretend ==
  ASSUME PretendInv, WithoutPretending
  PROVE  PretendInv'
<1>0. PICK call \in {"without", "plain"} :
        /\ Push(call, FALSE) /\ call = IF isPretending THEN "without" ELSE "plain"
  BY DEF WithoutPretending
<1>1. /\ PretendTypeOK /\ ~ended /\ ~ended' /\ Depth \in Nat /\ DOMAIN frames = 1 .. Depth
      /\ \A i \in 1 .. Depth : FrameOK(i)
  BY <1>0, FramesType DEF PretendInv, FramesInv, WithoutPretending, Push, PretendTypeOK
<1>2. /\ frames' \in Seq(Frame) /\ Depth' = Depth + 1
      /\ \A i \in 1 .. Depth : frames'[i] = frames[i]
      /\ frames'[Depth + 1].call = call /\ frames'[Depth + 1].dry = FALSE
  BY <1>0, <1>1, Pushed
<1>3. (isPretending <=> DryRun) /\ (loggingQueries <=> isPretending)
  BY <1>1 DEF PretendInv, FlagsInv
<1>4. /\ isPretending' = FALSE /\ loggingQueries' = FALSE
      /\ UNCHANGED <<queryLog, executed, ran, wanted, returned, ended>>
  BY <1>1, <1>3 DEF WithoutPretending, PretendTypeOK
<1>5. PretendTypeOK'
  BY <1>1, <1>2, <1>4 DEF PretendTypeOK
<1>6. DOMAIN frames' = 1 .. Depth + 1 /\ \A i \in 1 .. Depth + 1 : i \in 1 .. Depth \/ i = Depth + 1
  BY <1>1, <1>2 DEF Depth
<1>7. \A i \in 1 .. Depth : FrameOK(i)' /\ (IsCall(i, "pretend")' <=> IsCall(i, "pretend"))
  <2> SUFFICES ASSUME NEW i \in 1 .. Depth
               PROVE  FrameOK(i)' /\ (IsCall(i, "pretend")' <=> IsCall(i, "pretend"))
    OBVIOUS
  <2>1. i # 1 => i - 1 \in 1 .. Depth
    BY <1>1
  <2>2. FrameOK(i)'
    BY <1>1, <1>2, <2>1, FrameKept
  <2> QED BY <1>2, <2>2 DEF IsCall
<1>8. ASSUME NEW k, k = Depth + 1
      PROVE  FrameOK(k)' /\ ~IsCall(k, "pretend")'
  <2>1. ~IsCall(k, "pretend")' /\ ~frames'[k].dry
    BY <1>2, <1>8 DEF IsCall
  <2>2. Depth > 0 => (IsCall(Depth, "pretend") <=> isPretending)
    BY <1>1, <1>3 DEF DryRun, Top, FrameOK
  <2>3. Depth > 0 => (frames'[Depth].call = "pretend" <=> isPretending)
    BY <1>1, <1>2, <2>2 DEF IsCall
  <2>4. CASE isPretending
    <3>1. Depth > 0 /\ k > 1 /\ k - 1 = Depth /\ k # 1
      BY <1>1, <1>3, <1>8, <2>4 DEF DryRun
    <3> QED BY <1>0, <1>2, <1>8, <2>1, <2>3, <2>4, <3>1 DEF FrameOK, IsCall
  <2>5. CASE ~isPretending
    <3>1. k = 1 \/ (Depth > 0 /\ k - 1 = Depth)
      BY <1>1, <1>8
    <3> QED BY <1>0, <1>2, <1>8, <2>1, <2>3, <2>5, <3>1 DEF FrameOK, IsCall
  <2> QED BY <2>4, <2>5
<1>9. FramesInv'
  <2>1. \A i, j \in 1 .. Depth + 1 : IsCall(i, "pretend")' /\ IsCall(j, "pretend")' => i = j
    BY <1>1, <1>6, <1>7, <1>8 DEF PretendInv, FramesInv
  <2> QED BY <1>1, <1>6, <1>7, <1>8, <2>1 DEF FramesInv
<1>10. FlagsInv'
  <2>1. ~DryRun'
    <3>1. ~frames'[Depth'].dry
      BY <1>2
    <3> QED BY <3>1 DEF DryRun, Top
  <2>2. \A i \in 1 .. Depth + 1 : IsCall(i, "pretend")' => queryLog' = frames'[i].issued
    BY <1>1, <1>2, <1>4, <1>6, <1>7, <1>8 DEF PretendInv, FlagsInv
  <2> QED BY <1>4, <1>6, <2>1, <2>2 DEF PretendInv, FlagsInv
<1> QED BY <1>5, <1>9, <1>10 DEF PretendInv

(* When the innermost callback returns, the frames below stay as they were.     *)
LEMMA PopKeepsFrames ==
  ASSUME PretendInv, Depth > 0, Pop, ~ended, UNCHANGED ended
  PROVE  /\ frames' \in Seq(Frame) /\ DOMAIN frames' = 1 .. Depth - 1 /\ Depth' = Depth - 1
         /\ \A i \in 1 .. Depth - 1 : frames'[i] = frames[i] /\ i \in DOMAIN frames
         /\ FramesInv'
         /\ DryRun' <=> IsCall(Depth, "without")
<1>0. /\ PretendTypeOK /\ Depth \in Nat /\ DOMAIN frames = 1 .. Depth
      /\ \A i \in 1 .. Depth : FrameOK(i) /\ frames[i] \in Frame
  BY FramesType DEF PretendInv, FramesInv
<1>1. /\ frames' \in Seq(Frame) /\ Depth' = Depth - 1
      /\ \A i \in 1 .. Depth - 1 : frames'[i] = frames[i]
  BY <1>0, Popped
<1>2. DOMAIN frames' = 1 .. Depth - 1
  BY <1>1 DEF Depth
<1>3. \A i \in 1 .. Depth - 1 : i \in 1 .. Depth
  BY <1>0
<1>4. \A i \in 1 .. Depth - 1 : FrameOK(i)' /\ (IsCall(i, "pretend")' <=> IsCall(i, "pretend"))
  <2> SUFFICES ASSUME NEW i \in 1 .. Depth - 1
               PROVE  FrameOK(i)' /\ (IsCall(i, "pretend")' <=> IsCall(i, "pretend"))
    OBVIOUS
  <2>1. i # 1 => i - 1 \in 1 .. Depth - 1
    BY <1>0
  <2>2. FrameOK(i)'
    BY <1>0, <1>1, <1>3, <2>1, FrameKept
  <2> QED BY <1>1, <2>2 DEF IsCall
<1>5. FramesInv'
  BY <1>0, <1>2, <1>3, <1>4 DEF PretendInv, FramesInv
<1>6. DryRun' <=> Depth > 1 /\ frames[Depth - 1].dry
  <2>1. CASE Depth = 1
    BY <1>1, <2>1 DEF DryRun
  <2>2. CASE Depth > 1
    <3>1. Depth - 1 \in 1 .. Depth - 1 /\ Depth' > 0
      BY <1>0, <1>1, <2>2
    <3> QED BY <1>1, <2>2, <3>1 DEF DryRun, Top
  <2> QED BY <1>0, <2>1, <2>2
<1>7. Depth > 1 /\ frames[Depth - 1].dry <=> IsCall(Depth, "without")
  <2>1. FrameOK(Depth) /\ frames[Depth] \in Frame
    BY <1>0
  <2>2. CASE Depth = 1
    BY <2>1, <2>2 DEF FrameOK
  <2>3. CASE Depth > 1
    <3>1. Depth - 1 \in 1 .. Depth /\ Depth # Depth - 1 /\ Depth \in 1 .. Depth /\ Depth # 1
      BY <1>0, <2>3
    <3>2. frames[Depth - 1].dry <=> IsCall(Depth - 1, "pretend")
      BY <1>0, <3>1 DEF FrameOK
    <3>3. IsCall(Depth, "pretend") => ~IsCall(Depth - 1, "pretend")
      BY <1>0, <3>1 DEF PretendInv, FramesInv
    <3>4. IsCall(Depth, "pretend") \/ IsCall(Depth, "without") \/ IsCall(Depth, "plain")
      BY <2>1 DEF Frame, IsCall
    <3>5. IsCall(Depth, "without") => ~IsCall(Depth, "plain")
      BY DEF IsCall
    <3> QED BY <2>1, <2>3, <3>1, <3>2, <3>3, <3>4, <3>5 DEF FrameOK
  <2> QED BY <1>0, <2>2, <2>3
<1> QED BY <1>0, <1>1, <1>2, <1>3, <1>5, <1>6, <1>7

LEMMA EndKeepsPretend ==
  ASSUME PretendInv, PretendEnds \/ WithoutPretendingEnds
  PROVE  PretendInv'
<1>0. /\ PretendTypeOK /\ Depth \in Nat /\ DOMAIN frames = 1 .. Depth /\ Depth > 0
      /\ Depth \in 1 .. Depth /\ FrameOK(Depth) /\ Top \in Frame /\ Pop
      /\ ~ended /\ UNCHANGED ended
  <2>1. /\ PretendTypeOK /\ Depth \in Nat /\ DOMAIN frames = 1 .. Depth /\ Depth > 0
        /\ Depth \in 1 .. Depth /\ frames # <<>>
    BY FramesType DEF PretendInv, PretendEnds, WithoutPretendingEnds
  <2>2. FrameOK(Depth) /\ Top \in Frame
    BY <2>1, FramesType DEF PretendInv, FramesInv, Top
  <2> QED BY <2>1, <2>2 DEF PretendInv, FramesInv, PretendEnds, WithoutPretendingEnds
<1>1. /\ frames' \in Seq(Frame) /\ DOMAIN frames' = 1 .. Depth - 1 /\ Depth' = Depth - 1
      /\ \A i \in 1 .. Depth - 1 : frames'[i] = frames[i] /\ i \in DOMAIN frames
      /\ FramesInv'
      /\ DryRun' <=> IsCall(Depth, "without")
  BY <1>0, PopKeepsFrames
<1>2. (isPretending <=> DryRun) /\ (loggingQueries <=> isPretending)
  BY <1>0 DEF PretendInv, FlagsInv
<1>3. /\ UNCHANGED <<queryLog, executed, ran, wanted, ended>>
      /\ IsCall(Depth, "pretend") =>
           /\ isPretending' = FALSE /\ loggingQueries' = Top.logging
           /\ returned' = [log |-> queryLog, issued |-> Top.issued]
      /\ IsCall(Depth, "without") =>
           isPretending' = TRUE /\ loggingQueries' = TRUE /\ returned' = returned
      /\ IsCall(Depth, "plain") => UNCHANGED <<isPretending, loggingQueries, returned>>
      /\ IsCall(Depth, "pretend") \/ IsCall(Depth, "without") \/ IsCall(Depth, "plain")
  BY DEF PretendEnds, WithoutPretendingEnds, IsCall, Top
<1>4. IsCall(Depth, "pretend") => ~Top.logging /\ queryLog = Top.issued
  BY <1>0 DEF PretendInv, FlagsInv, FrameOK, Top
<1>5. IsCall(Depth, "plain") => ~DryRun
  BY <1>0 DEF FrameOK, IsCall, DryRun, Top
<1>6. IsCall(Depth, "pretend") => ~IsCall(Depth, "without")
  BY DEF IsCall
<1>7. IsCall(Depth, "plain") => ~IsCall(Depth, "without")
  BY DEF IsCall
<1>8. PretendTypeOK'
  <2>1. Top.issued \in Seq(Queries) /\ Top.logging \in BOOLEAN
    BY <1>0 DEF Frame
  <2>2. isPretending' \in BOOLEAN /\ loggingQueries' \in BOOLEAN
    BY <1>0, <1>3, <2>1 DEF PretendTypeOK
  <2>3. returned' \in [log : Seq(Queries), issued : Seq(Queries)]
    BY <1>0, <1>3, <2>1 DEF PretendTypeOK
  <2> QED BY <1>0, <1>1, <1>3, <2>2, <2>3 DEF PretendTypeOK
<1>9. (isPretending' <=> DryRun') /\ (loggingQueries' <=> isPretending')
  <2>1. CASE IsCall(Depth, "pretend")
    BY <1>1, <1>3, <1>4, <1>6, <2>1
  <2>2. CASE IsCall(Depth, "without")
    BY <1>1, <1>3, <2>2
  <2>3. CASE IsCall(Depth, "plain")
    BY <1>1, <1>2, <1>3, <1>5, <1>7, <2>3
  <2> QED BY <1>3, <2>1, <2>2, <2>3
<1>10. FlagsInv'
  <2>1. \A i \in 1 .. Depth - 1 : IsCall(i, "pretend")' => queryLog' = frames'[i].issued
    BY <1>1, <1>3 DEF PretendInv, FlagsInv, IsCall
  <2>2. returned'.log = returned'.issued
    BY <1>3, <1>4 DEF PretendInv, FlagsInv
  <2> QED BY <1>1, <1>3, <1>9, <2>1, <2>2 DEF PretendInv, FlagsInv
<1> QED BY <1>1, <1>8, <1>10 DEF PretendInv

LEMMA ThrowKeepsPretend ==
  ASSUME PretendInv, ~MayCatch, Throw
  PROVE  PretendInv'
<1>1. <<>> \in Seq(Frame) /\ DOMAIN <<>> = {}
  OBVIOUS
<1>2. /\ frames' = <<>> /\ ended' = TRUE
      /\ UNCHANGED <<isPretending, loggingQueries, queryLog, executed, ran, wanted, returned>>
  BY DEF Throw, flags
<1>3. PretendTypeOK'
  BY <1>1, <1>2 DEF PretendInv, PretendTypeOK
<1>4. FramesInv'
  BY <1>1, <1>2 DEF FramesInv
<1>5. FlagsInv'
  BY <1>1, <1>2 DEF PretendInv, FlagsInv
<1> QED BY <1>3, <1>4, <1>5 DEF PretendInv

(* The flags and the log are at every moment what the callbacks in progress      *)
(* need: the inductive invariant the properties of the dry run rest on.         *)
THEOREM PretendInvariant ==
  ASSUME ~NestedPretend, ~MayCatch
  PROVE  Spec => []PretendInv
<1>1. Init => PretendInv
  <2> SUFFICES ASSUME Init PROVE PretendInv
    OBVIOUS
  <2>1. <<>> \in Seq(Frame) /\ <<>> \in Seq(Queries) /\ DOMAIN <<>> = {} /\ Len(<<>>) = 0
    OBVIOUS
  <2>2. PretendTypeOK
    BY <2>1 DEF Init, PretendTypeOK
  <2>3. FramesInv /\ FlagsInv
    BY <2>1 DEF Init, FramesInv, FlagsInv, DryRun, Depth
  <2> QED BY <2>2, <2>3 DEF PretendInv
<1>2. PretendInv /\ [Next]_vars => PretendInv'
  <2> SUFFICES ASSUME PretendInv, [Next]_vars PROVE PretendInv'
    OBVIOUS
  <2>1. ASSUME UNCHANGED vars PROVE PretendInv'
    BY <2>1 DEF vars, flags, PretendInv, PretendTypeOK, FramesInv, FrameOK, FlagsInv,
                IsCall, DryRun, Depth, Top
  <2> QED
    BY <2>1, QueryKeepsPretend, PretendKeepsPretend, WithoutKeepsPretend, EndKeepsPretend,
       ThrowKeepsPretend DEF Next, Rest
<1> QED BY <1>1, <1>2, PTL DEF Spec

(* No query of a dry run reaches the database, whatever callbacks ran before.    *)
THEOREM DryRunIsDry ==
  ASSUME ~NestedPretend, ~MayCatch
  PROVE  Spec => []DryRunExecutesNothing
<1>1. PretendInv => DryRunExecutesNothing
  BY DEF PretendInv, FlagsInv, DryRunExecutesNothing
<1> QED BY <1>1, PretendInvariant, PTL

(* Every query run outside a dry run, or suspending one, reaches the database.   *)
THEOREM OthersAreExecuted ==
  ASSUME ~NestedPretend, ~MayCatch
  PROVE  Spec => []OthersExecuted
<1>1. PretendInv => OthersExecuted
  BY DEF PretendInv, FlagsInv, OthersExecuted
<1> QED BY <1>1, PretendInvariant, PTL

(* pretend returns the queries its dry run issued, in their order, and no other. *)
THEOREM PretendReturnsTheLog ==
  ASSUME ~NestedPretend, ~MayCatch
  PROVE  Spec => []PretendReturnsItsQueries
<1>1. PretendInv => PretendReturnsItsQueries
  BY DEF PretendInv, FlagsInv, PretendReturnsItsQueries
<1> QED BY <1>1, PretendInvariant, PTL

(* Outside every callback the session is not pretending and not logging.         *)
THEOREM FlagsRestored ==
  ASSUME ~NestedPretend, ~MayCatch
  PROVE  Spec => []RestoredOutside
<1>1. PretendInv => RestoredOutside
  BY DEF PretendInv, PretendTypeOK, FlagsInv, RestoredOutside, DryRun, Depth
<1> QED BY <1>1, PretendInvariant, PTL

===============================================================================
