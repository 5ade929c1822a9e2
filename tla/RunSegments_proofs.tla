-------------------------- MODULE RunSegments_proofs --------------------------
(***************************************************************************)
(* What the reducer of a run does to its segments, for any list of them:   *)
(* whose they are, which can be open, and what an outcome leaves.          *)
(***************************************************************************)
EXTENDS RunSegments, Extremes, SequenceTheorems, TLAPS

(* The steps that stream.  A form, a diagnostic and the terminal segment    *)
(* never do, and an outcome need not close them.                            *)
Closable == {"tool", "asking", "assistant", "reasoning"}

(* The segments of runs in R, open only where an outcome can close them.    *)
SegmentOf(R) == {g \in [kind : SegmentKind, run : R, status : SegmentStatus] :
                   IsOpen(g) => g.kind \in Closable}

-----------------------------------------------------------------------------
(* Leaving out the segments of a kind.                                      *)

(* The recursion of Without, as a property of the function it defines.      *)
Keeps(kept, segs, kind, m) ==
  kept = [n \in 0 .. m |->
            IF n = 0 THEN << >>
            ELSE IF segs[n].kind = kind THEN kept[n - 1] ELSE Append(kept[n - 1], segs[n])]

LEMMA KeepsExists ==
  ASSUME NEW segs, NEW kind, NEW m \in Nat
  PROVE  \E kept : Keeps(kept, segs, kind, m)
<1> DEFINE Bad == {n \in Nat : ~ \E kept : Keeps(kept, segs, kind, n)}
<1>1. SUFFICES ASSUME Bad # {} PROVE FALSE
  OBVIOUS
<1>2. PICK n \in Bad : \A k \in Bad : n <= k
  <2>1. Bad \subseteq Nat
    OBVIOUS
  <2> HIDE DEF Bad
  <2>2. QED
    BY <1>1, <2>1, LeastNatural
<1>3. CASE n = 0
  <2>1. Keeps([i \in 0 .. 0 |-> << >>], segs, kind, 0)
    BY DEF Keeps
  <2>2. QED
    BY <1>2, <1>3, <2>1
<1>4. CASE n # 0
  <2>1. n - 1 \in Nat /\ n - 1 \notin Bad
    BY <1>2, <1>4
  <2>2. PICK kept : Keeps(kept, segs, kind, n - 1)
    BY <2>1
  <2> DEFINE last == IF segs[n].kind = kind THEN kept[n - 1] ELSE Append(kept[n - 1], segs[n])
             more == [i \in 0 .. n |-> IF i = n THEN last ELSE kept[i]]
  <2>3. \A i \in 0 .. n - 1 : more[i] = kept[i]
    BY <1>2
  <2>4. more[n] = last
    BY <1>2
  <2>5. ASSUME NEW i \in 0 .. n - 1
        PROVE  kept[i] = IF i = 0 THEN << >>
                         ELSE IF segs[i].kind = kind THEN kept[i - 1]
                              ELSE Append(kept[i - 1], segs[i])
    BY <2>2 DEF Keeps
  <2>6. ASSUME NEW i \in 0 .. n
        PROVE  more[i] = IF i = 0 THEN << >>
                         ELSE IF segs[i].kind = kind THEN more[i - 1]
                              ELSE Append(more[i - 1], segs[i])
    <3>1. CASE i = n
      <4>1. n - 1 \in 0 .. n - 1 /\ i # 0
        BY <1>2, <1>4, <3>1
      <4>2. more[i - 1] = kept[n - 1]
        BY <2>3, <3>1, <4>1
      <4> HIDE DEF more
      <4>3. QED
        BY <2>4, <3>1, <4>1, <4>2
    <3>2. CASE i # n
      <4>1. i \in 0 .. n - 1 /\ (i # 0 => i - 1 \in 0 .. n - 1)
        BY <1>2, <3>2
      <4>2. more[i] = kept[i] /\ (i # 0 => more[i - 1] = kept[i - 1])
        BY <2>3, <4>1
      <4> HIDE DEF more
      <4>3. QED
        BY <2>5, <4>1, <4>2
    <3>3. QED
      BY <3>1, <3>2
  <2>7. Keeps(more, segs, kind, n)
    BY <2>6 DEF Keeps
  <2>8. QED
    BY <1>2, <2>7
<1>5. QED
  BY <1>3, <1>4

(* What is left is a list of the segments of the other kinds.               *)
LEMMA WithoutKeeps ==
  ASSUME NEW S, NEW segs \in Seq(S), NEW kind
  PROVE  Without(segs, kind) \in Seq({g \in S : g.kind # kind})
<1> DEFINE G == {g \in S : g.kind # kind}
           kept == CHOOSE f : Keeps(f, segs, kind, Len(segs))
<1>1. Without(segs, kind) = kept[Len(segs)]
  BY DEF Without, Keeps
<1>2. Keeps(kept, segs, kind, Len(segs))
  BY KeepsExists
<1> HIDE DEF kept
<1>3. \A n \in 0 .. Len(segs) :
        kept[n] = IF n = 0 THEN << >>
                  ELSE IF segs[n].kind = kind THEN kept[n - 1] ELSE Append(kept[n - 1], segs[n])
  BY <1>2 DEF Keeps
<1> DEFINE Bad == {n \in 0 .. Len(segs) : kept[n] \notin Seq(G)}
<1>4. Bad = {}
  <2>1. SUFFICES ASSUME Bad # {} PROVE FALSE
    OBVIOUS
  <2>2. PICK n \in Bad : \A k \in Bad : n <= k
    <3>1. Bad \subseteq Nat
      OBVIOUS
    <3> HIDE DEF Bad
    <3>2. QED
      BY <2>1, <3>1, LeastNatural
  <2>3. n # 0
    <3>1. kept[0] = << >>
      BY <1>3
    <3>2. << >> \in Seq(G)
      OBVIOUS
    <3>3. QED
      BY <2>2, <3>1, <3>2
  <2>4. kept[n - 1] \in Seq(G)
    BY <2>2, <2>3
  <2>5. segs[n] \in S
    BY <2>2, <2>3
  <2>6. segs[n].kind # kind => segs[n] \in G
    BY <2>5
  <2>7. kept[n] = IF segs[n].kind = kind THEN kept[n - 1] ELSE Append(kept[n - 1], segs[n])
    BY <1>3, <2>2, <2>3
  <2> HIDE DEF G
  <2>8. kept[n] \in Seq(G)
    BY <2>4, <2>6, <2>7
  <2>9. QED
    BY <2>2, <2>8
<1>5. QED
  BY <1>1, <1>4

-----------------------------------------------------------------------------
(* Every operation of the reducer yields segments of the same runs.         *)

LEMMA MapType ==
  ASSUME NEW S, NEW segs \in Seq(S), NEW f, DOMAIN f = DOMAIN segs,
         \A i \in DOMAIN segs : f[i] \in S, f = [i \in DOMAIN segs |-> f[i]]
  PROVE  f \in Seq(S) /\ Len(f) = Len(segs)
<1>1. DOMAIN segs = 1 .. Len(segs) /\ Len(segs) \in Nat
  OBVIOUS
<1>2. f \in [1 .. Len(segs) -> S]
  BY <1>1
<1>3. QED
  BY <1>1, <1>2

(* Closing changes the status of the open segments of some kinds.           *)
LEMMA CloseKindsFacts ==
  ASSUME NEW R, NEW segs \in Seq(SegmentOf(R)), NEW kinds,
         NEW status \in SegmentStatus, status # "streaming"
  PROVE  /\ CloseKinds(segs, kinds, status) \in Seq(SegmentOf(R))
         /\ Len(CloseKinds(segs, kinds, status)) = Len(segs)
         /\ \A i \in DOMAIN segs :
              /\ CloseKinds(segs, kinds, status)[i].kind = segs[i].kind
              /\ IsOpen(CloseKinds(segs, kinds, status)[i]) => segs[i].kind \notin kinds
<1> DEFINE closed == CloseKinds(segs, kinds, status)
<1>1. DOMAIN closed = DOMAIN segs
  BY DEF CloseKinds
<1>2. ASSUME NEW i \in DOMAIN segs
      PROVE  /\ closed[i] \in SegmentOf(R)
             /\ closed[i].kind = segs[i].kind
             /\ IsOpen(closed[i]) => segs[i].kind \notin kinds
  <2>1. segs[i] \in SegmentOf(R)
    OBVIOUS
  <2>2. CASE IsOpen(segs[i]) /\ segs[i].kind \in kinds
    <3>1. closed[i] = [segs[i] EXCEPT !.status = status]
      BY <2>2 DEF CloseKinds
    <3>2. QED
      BY <2>1, <2>2, <3>1 DEF SegmentOf, IsOpen
  <2>3. CASE ~ (IsOpen(segs[i]) /\ segs[i].kind \in kinds)
    <3>1. closed[i] = segs[i]
      BY <2>3 DEF CloseKinds
    <3>2. QED
      BY <2>1, <2>3, <3>1
  <2>4. QED
    BY <2>2, <2>3
<1>3. closed = [i \in DOMAIN segs |-> closed[i]]
  BY DEF CloseKinds
<1> HIDE DEF closed
<1>4. closed \in Seq(SegmentOf(R)) /\ Len(closed) = Len(segs)
  BY <1>1, <1>2, <1>3, MapType
<1>5. QED
  BY <1>2, <1>4 DEF closed

LEMMA SegmentType ==
  ASSUME NEW R, NEW run \in R, NEW kind \in SegmentKind, NEW status \in SegmentStatus,
         status = "streaming" => kind \in Closable
  PROVE  Segment(kind, run, status) \in SegmentOf(R)
BY DEF SegmentOf, Segment, IsOpen

LEMMA WithoutType ==
  ASSUME NEW R, NEW segs \in Seq(SegmentOf(R)), NEW kind
  PROVE  /\ Without(segs, kind) \in Seq(SegmentOf(R))
         /\ \A i \in DOMAIN Without(segs, kind) : Without(segs, kind)[i].kind # kind
<1> DEFINE G == {g \in SegmentOf(R) : g.kind # kind}
           rest == Without(segs, kind)
<1>1. rest \in Seq(G)
  BY WithoutKeeps
<1>2. G \subseteq SegmentOf(R)
  OBVIOUS
<1> HIDE DEF rest
<1>3. \A i \in DOMAIN rest : rest[i] \in G
  BY <1>1
<1>4. \A i \in DOMAIN rest : rest[i].kind # kind
  BY <1>3
<1> HIDE DEF G
<1>5. rest \in Seq(SegmentOf(R))
  BY <1>1, <1>2
<1>6. QED
  BY <1>4, <1>5 DEF rest

LEMMA AppendDeltaType ==
  ASSUME NEW R, NEW segs \in Seq(SegmentOf(R)), NEW run \in R,
         NEW kind \in {"assistant", "reasoning"}
  PROVE  AppendDelta(segs, kind, run) \in Seq(SegmentOf(R))
<1>1. Segment(kind, run, "streaming") \in SegmentOf(R)
  BY SegmentType DEF SegmentKind, SegmentStatus, Closable
<1>2. QED
  BY <1>1 DEF AppendDelta

LEMMA UpsertToolType ==
  ASSUME NEW R, NEW segs \in Seq(SegmentOf(R)), NEW run \in R,
         NEW kind \in {"tool", "asking"}, NEW status \in {"streaming", "completed"}
  PROVE  UpsertTool(segs, kind, run, status) \in Seq(SegmentOf(R))
<1>1. Segment(kind, run, status) \in SegmentOf(R)
  BY SegmentType DEF SegmentKind, SegmentStatus, Closable, Outcome
<1>2. CASE Holds(segs, kind, run)
  <2> DEFINE new == [i \in DOMAIN segs |->
                       IF segs[i].kind = kind /\ segs[i].run = run
                       THEN Segment(kind, run, status) ELSE segs[i]]
  <2>1. \A i \in DOMAIN segs : new[i] \in SegmentOf(R)
    BY <1>1
  <2>2. DOMAIN new = DOMAIN segs /\ new = [i \in DOMAIN segs |-> new[i]]
    OBVIOUS
  <2>3. UpsertTool(segs, kind, run, status) = new
    BY <1>2 DEF UpsertTool
  <2> HIDE DEF new
  <2>4. QED
    BY <2>1, <2>2, <2>3, MapType
<1>3. CASE ~ Holds(segs, kind, run)
  BY <1>1, <1>3 DEF UpsertTool
<1>4. QED
  BY <1>2, <1>3

LEMMA UpsertInlineFormType ==
  ASSUME NEW R, NEW segs \in Seq(SegmentOf(R)), NEW run \in R
  PROVE  UpsertInlineForm(segs, run) \in Seq(SegmentOf(R))
<1>1. Segment("form", run, "pending") \in SegmentOf(R)
  BY SegmentType DEF SegmentKind, SegmentStatus
<1>2. Without(segs, "asking") \in Seq(SegmentOf(R))
  BY WithoutType
<1>3. QED
  BY <1>1, <1>2 DEF UpsertInlineForm

LEMMA ApplyContentType ==
  ASSUME NEW R, NEW segs \in Seq(SegmentOf(R)), NEW run \in R, NEW kind \in ContentEvent
  PROVE  ApplyContent(segs, kind, run) \in Seq(SegmentOf(R))
<1>1. CompleteReasoning(segs) \in Seq(SegmentOf(R))
  BY CloseKindsFacts DEF CompleteReasoning, SegmentStatus, Outcome
<1>2. Segment("diagnostic", run, "completed") \in SegmentOf(R)
  BY SegmentType DEF SegmentKind, SegmentStatus, Outcome
<1>3. CASE kind = "text"
  BY <1>1, <1>3, AppendDeltaType DEF ApplyContent
<1>4. CASE kind = "reasoning"
  BY <1>4, AppendDeltaType DEF ApplyContent
<1>5. CASE kind \in {"tool", "toolDone", "asking"}
  BY <1>1, <1>5, UpsertToolType DEF ApplyContent
<1>6. CASE kind = "form"
  BY <1>1, <1>6, UpsertInlineFormType DEF ApplyContent
<1>7. CASE kind = "diagnostic"
  BY <1>1, <1>2, <1>7 DEF ApplyContent
<1>8. QED
  BY <1>3, <1>4, <1>5, <1>6, <1>7 DEF ContentEvent


-----------------------------------------------------------------------------
(* The outcomes.                                                            *)

(* Only steps of some kinds stream.                                         *)
OpenIn(segs, kinds) == \A i \in DOMAIN segs : IsOpen(segs[i]) => segs[i].kind \in kinds

(* The last segment, and no other, says how the run ended.                  *)
EndsWith(segs, last) ==
  /\ segs # << >>
  /\ \A i \in DOMAIN segs : segs[i].kind = "terminal" <=> i = Len(segs)
  /\ segs[Len(segs)] = last

(* What an outcome leaves of a run.                                         *)
Concluded(segs, run, outcome) ==
  /\ OpenIn(segs, LeftOpen(outcome))
  /\ outcome # "awaiting" => EndsWith(segs, Segment("terminal", run, outcome))

LEMMA AppendTerminalFacts ==
  ASSUME NEW R, NEW segs \in Seq(SegmentOf(R)), NEW run \in R, NEW status \in Outcome,
         NEW kinds
  PROVE  /\ AppendTerminal(segs, run, status) \in Seq(SegmentOf(R))
         /\ EndsWith(AppendTerminal(segs, run, status), Segment("terminal", run, status))
         /\ OpenIn(segs, kinds) => OpenIn(AppendTerminal(segs, run, status), kinds)
<1> DEFINE C == {g \in SegmentOf(R) : IsOpen(g) => g.kind \in kinds}
           rest == Without(segs, "terminal")
           last == Segment("terminal", run, status)
<1>1. last \in SegmentOf(R)
  BY SegmentType DEF SegmentKind, SegmentStatus, Outcome
<1>2. /\ rest \in Seq(SegmentOf(R))
      /\ \A i \in DOMAIN rest : rest[i].kind # "terminal"
  BY WithoutType
<1>3. AppendTerminal(segs, run, status) = Append(rest, last)
  BY DEF AppendTerminal
<1>4. last.kind = "terminal" /\ ~IsOpen(last)
  BY DEF Segment, IsOpen, Outcome
<1>5. ASSUME OpenIn(segs, kinds)
      PROVE  OpenIn(rest, kinds)
  <2>1. \A i \in DOMAIN segs : segs[i] \in C
    BY <1>5 DEF OpenIn
  <2> HIDE DEF C
  <2>2. segs \in Seq(C)
    <3>1. segs = [i \in DOMAIN segs |-> segs[i]]
      OBVIOUS
    <3>2. QED
      BY <2>1, <3>1, MapType
  <2>3. rest \in Seq({g \in C : g.kind # "terminal"})
    BY <2>2, WithoutKeeps
  <2> HIDE DEF rest
  <2>4. \A i \in DOMAIN rest : rest[i] \in C
    BY <2>3
  <2>5. QED
    BY <2>4 DEF C, OpenIn
<1> HIDE DEF rest, last
<1>6. Append(rest, last) \in Seq(SegmentOf(R))
  BY <1>1, <1>2
<1>7. /\ Len(Append(rest, last)) = Len(rest) + 1 /\ Len(rest) \in Nat
      /\ DOMAIN Append(rest, last) = 1 .. Len(rest) + 1
      /\ DOMAIN rest = 1 .. Len(rest)
  BY <1>1, <1>2
<1>8. /\ Append(rest, last)[Len(rest) + 1] = last
      /\ \A i \in DOMAIN rest : Append(rest, last)[i] = rest[i]
  BY <1>1, <1>2
<1>9. EndsWith(Append(rest, last), last)
  BY <1>2, <1>4, <1>7, <1>8 DEF EndsWith
<1>10. ASSUME OpenIn(segs, kinds) PROVE OpenIn(Append(rest, last), kinds)
  <2>1. OpenIn(rest, kinds)
    BY <1>5, <1>10
  <2>2. QED
    BY <1>4, <1>7, <1>8, <2>1 DEF OpenIn
<1>11. QED
  BY <1>3, <1>6, <1>9, <1>10 DEF last

(* A completed run closes its text and its thinking.                        *)
LEMMA CompleteAssistantFacts ==
  ASSUME NEW R, NEW segs \in Seq(SegmentOf(R)), NEW run \in R
  PROVE  /\ CompleteAssistant(segs, run) \in Seq(SegmentOf(R))
         /\ OpenIn(CompleteAssistant(segs, run), {"tool", "asking"})
<1> DEFINE closed == CompleteReasoning(segs)
           done == CloseKinds(closed, {"assistant"}, "completed")
           new == Segment("assistant", run, "completed")
<1>1. /\ closed \in Seq(SegmentOf(R)) /\ Len(closed) = Len(segs)
      /\ \A i \in DOMAIN segs : /\ closed[i].kind = segs[i].kind
                                /\ IsOpen(closed[i]) => segs[i].kind # "reasoning"
  BY CloseKindsFacts DEF CompleteReasoning, SegmentStatus, Outcome
<1> HIDE DEF closed
<1>2. /\ done \in Seq(SegmentOf(R)) /\ Len(done) = Len(closed)
      /\ \A i \in DOMAIN closed : /\ done[i].kind = closed[i].kind
                                  /\ IsOpen(done[i]) => closed[i].kind # "assistant"
  BY <1>1, CloseKindsFacts DEF SegmentStatus, Outcome
<1>3. new \in SegmentOf(R) /\ ~IsOpen(new)
  <2>1. new \in SegmentOf(R)
    BY SegmentType DEF SegmentKind, SegmentStatus, Outcome
  <2>2. QED
    BY <2>1 DEF Segment, IsOpen
<1>4. DOMAIN closed = DOMAIN segs /\ DOMAIN done = DOMAIN segs
  BY <1>1, <1>2
<1>5. ASSUME NEW i \in DOMAIN segs PROVE IsOpen(closed[i]) => closed[i].kind \in Closable \ {"reasoning"}
  <2>1. closed[i] \in SegmentOf(R)
    BY <1>1, <1>4
  <2>2. QED
    BY <1>1, <2>1 DEF SegmentOf
<1>6. CASE \E i \in DOMAIN segs : segs[i].kind = "assistant"
  <2>1. CompleteAssistant(segs, run) = done
    BY <1>6 DEF CompleteAssistant, closed
  <2>2. ASSUME NEW i \in DOMAIN segs, IsOpen(done[i]) PROVE done[i].kind \in {"tool", "asking"}
    <3>1. done[i] \in SegmentOf(R) /\ closed[i].kind # "assistant" /\ done[i].kind = closed[i].kind
      BY <1>2, <1>4, <2>2
    <3>2. done[i].kind \in Closable
      BY <2>2, <3>1 DEF SegmentOf
    <3>3. done[i].kind # "reasoning"
      <4>1. IsOpen(closed[i]) \/ done[i] = [closed[i] EXCEPT !.status = "completed"]
        BY <1>4, <2>2 DEF CloseKinds
      <4>2. QED
        BY <1>5, <2>2, <4>1, <3>1, <1>4 DEF CloseKinds
    <3>4. QED
      BY <3>1, <3>2, <3>3 DEF Closable
  <2>3. QED
    BY <1>2, <1>4, <2>1, <2>2 DEF OpenIn
<1>7. CASE ~ \E i \in DOMAIN segs : segs[i].kind = "assistant"
  <2>1. CompleteAssistant(segs, run) = Append(closed, new)
    BY <1>7 DEF CompleteAssistant, closed
  <2> HIDE DEF new
  <2>2. /\ Append(closed, new) \in Seq(SegmentOf(R))
        /\ DOMAIN Append(closed, new) = 1 .. Len(closed) + 1 /\ Len(closed) \in Nat
        /\ DOMAIN closed = 1 .. Len(closed)
        /\ Append(closed, new)[Len(closed) + 1] = new
        /\ \A i \in DOMAIN closed : Append(closed, new)[i] = closed[i]
    BY <1>1, <1>3
  <2>3. ASSUME NEW i \in DOMAIN closed, IsOpen(closed[i])
        PROVE  closed[i].kind \in {"tool", "asking"}
    BY <1>1, <1>4, <1>5, <1>7, <2>3 DEF Closable
  <2>4. QED
    BY <1>3, <2>1, <2>2, <2>3 DEF OpenIn
<1>8. QED
  BY <1>6, <1>7

(* A run that waits for its form leaves the tool that asks for it open.     *)
LEMMA FinalizeFacts ==
  ASSUME NEW R, NEW segs \in Seq(SegmentOf(R))
  PROVE  /\ FinalizeForAwaitingInput(segs) \in Seq(SegmentOf(R))
         /\ OpenIn(FinalizeForAwaitingInput(segs), {"asking"})
<1> DEFINE closed == CloseKinds(segs, {"tool"}, "cancelled")
           done == CloseKinds(closed, {"assistant", "reasoning"}, "completed")
<1>1. /\ closed \in Seq(SegmentOf(R)) /\ Len(closed) = Len(segs)
      /\ \A i \in DOMAIN segs : /\ closed[i].kind = segs[i].kind
                                /\ IsOpen(closed[i]) => segs[i].kind \notin {"tool"}
  BY CloseKindsFacts DEF SegmentStatus, Outcome
<1> HIDE DEF closed
<1>2. /\ done \in Seq(SegmentOf(R)) /\ Len(done) = Len(closed)
      /\ \A i \in DOMAIN closed : /\ done[i].kind = closed[i].kind
                                  /\ IsOpen(done[i]) => closed[i].kind \notin {"assistant", "reasoning"}
  BY <1>1, CloseKindsFacts DEF SegmentStatus, Outcome
<1>3. DOMAIN closed = DOMAIN segs /\ DOMAIN done = DOMAIN segs
  BY <1>1, <1>2
<1>4. ASSUME NEW i \in DOMAIN segs, IsOpen(done[i]) PROVE IsOpen(closed[i])
  BY <1>3, <1>4 DEF CloseKinds, IsOpen
<1> HIDE DEF done
<1>5. ASSUME NEW i \in DOMAIN segs, IsOpen(done[i]) PROVE done[i].kind = "asking"
  <2>1. done[i] \in SegmentOf(R) /\ IsOpen(closed[i])
    BY <1>2, <1>3, <1>4, <1>5
  <2>2. done[i].kind \in Closable
    BY <1>5, <2>1 DEF SegmentOf
  <2>3. QED
    BY <1>1, <1>2, <1>3, <1>5, <2>1, <2>2 DEF Closable
<1>6. FinalizeForAwaitingInput(segs) = done
  BY DEF FinalizeForAwaitingInput, done, closed
<1>7. QED
  BY <1>2, <1>3, <1>5, <1>6 DEF OpenIn

(* After a failure or a cancellation nothing streams.                       *)
LEMMA StoppedFacts ==
  ASSUME NEW R, NEW segs \in Seq(SegmentOf(R)), NEW status \in {"failed", "cancelled"}
  PROVE  LET closed == CloseKinds(segs, {"tool", "asking", "assistant", "reasoning"}, status)
         IN  /\ closed \in Seq(SegmentOf(R))
             /\ OpenIn(closed, {})
<1> DEFINE closed == CloseKinds(segs, {"tool", "asking", "assistant", "reasoning"}, status)
<1>1. /\ closed \in Seq(SegmentOf(R)) /\ Len(closed) = Len(segs)
      /\ \A i \in DOMAIN segs : /\ closed[i].kind = segs[i].kind
                                /\ IsOpen(closed[i]) => segs[i].kind \notin Closable
  BY CloseKindsFacts DEF SegmentStatus, Outcome, Closable
<1> HIDE DEF closed
<1>2. ASSUME NEW i \in DOMAIN closed PROVE ~IsOpen(closed[i])
  <2>1. closed[i] \in SegmentOf(R) /\ i \in DOMAIN segs
    BY <1>1
  <2>2. QED
    BY <1>1, <2>1 DEF SegmentOf
<1>3. OpenIn(closed, {})
  BY <1>2 DEF OpenIn
<1>4. QED
  BY <1>1, <1>3 DEF closed

(* An outcome, whichever segments the run has shown before it: they stay    *)
(* segments of the same runs, closed as the outcome demands.                *)
LEMMA OutcomeFacts ==
  ASSUME NEW R, NEW view, view.segs \in Seq(SegmentOf(R)), NEW run \in R,
         NEW outcome \in Outcome, NEW thread
  PROVE  LET v == ViewOutcome(view, outcome, run, thread)
         IN  /\ v.phase = outcome /\ v.run = run /\ v.thread = thread
             /\ v.segs \in Seq(SegmentOf(R))
             /\ Concluded(v.segs, run, outcome)
<1> DEFINE v == ViewOutcome(view, outcome, run, thread)
<1>1. v.phase = outcome /\ v.run = run /\ v.thread = thread
  BY DEF ViewOutcome
<1>2. CASE outcome = "completed"
  <2> DEFINE closed == CompleteAssistant(view.segs, run)
  <2>1. closed \in Seq(SegmentOf(R)) /\ OpenIn(closed, {"tool", "asking"})
    BY CompleteAssistantFacts
  <2>2. v.segs = AppendTerminal(closed, run, "completed")
    BY <1>2 DEF ViewOutcome
  <2> HIDE DEF closed
  <2>3. /\ v.segs \in Seq(SegmentOf(R)) /\ OpenIn(v.segs, {"tool", "asking"})
        /\ EndsWith(v.segs, Segment("terminal", run, "completed"))
    BY <2>1, <2>2, AppendTerminalFacts DEF Outcome
  <2>4. QED
    BY <1>1, <1>2, <2>3 DEF Concluded, LeftOpen
<1>3. CASE outcome \in {"failed", "cancelled"}
  <2> DEFINE closed == CloseKinds(view.segs, {"tool", "asking", "assistant", "reasoning"}, outcome)
  <2>1. closed \in Seq(SegmentOf(R)) /\ OpenIn(closed, {})
    BY <1>3, StoppedFacts
  <2>2. v.segs = AppendTerminal(closed, run, outcome)
    BY <1>3 DEF ViewOutcome, FailStreaming, CancelStreaming
  <2> HIDE DEF closed
  <2>3. /\ v.segs \in Seq(SegmentOf(R)) /\ OpenIn(v.segs, {})
        /\ EndsWith(v.segs, Segment("terminal", run, outcome))
    BY <2>1, <2>2, AppendTerminalFacts
  <2>4. QED
    BY <1>1, <1>3, <2>3 DEF Concluded, LeftOpen
<1>4. CASE outcome = "awaiting"
  <2>1. v.segs = FinalizeForAwaitingInput(view.segs)
    BY <1>4 DEF ViewOutcome
  <2>2. v.segs \in Seq(SegmentOf(R)) /\ OpenIn(v.segs, {"asking"})
    BY <2>1, FinalizeFacts
  <2>3. QED
    BY <1>1, <1>4, <2>2 DEF Concluded, LeftOpen
<1>5. QED
  BY <1>2, <1>3, <1>4 DEF Outcome

=============================================================================
