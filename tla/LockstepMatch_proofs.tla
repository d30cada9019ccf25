------------------------ MODULE LockstepMatch_proofs ------------------------
(***************************************************************************)
(* Proofs about LockstepMatch for any number of slots, any action space    *)
(* and any legality masks.  The screening boundary of match.ts holds: a    *)
(* submission is screened under the mask in force, the mask changes only   *)
(* with the tick, and a tick starts with nothing submitted.  Further: the  *)
(* first ending stands, an honest report ends no match as a desync on a    *)
(* host without raids, every variable keeps its type, each batch is the    *)
(* canonical one for what was submitted, raids follow requests, and the    *)
(* recorded batches account for the universes, with the raids.             *)
(***************************************************************************)
EXTENDS LockstepMatch, TLAPS

-----------------------------------------------------------------------------
(* What the ordering rule of packages/server/src/ordering.ts gives every   *)
(* match, whatever its slots, actions and sequence numbers.                *)

\* An assembly is one again after any operation on it.
LEMMA EmptyIsTyped == EmptyAssembly \in Assemblies
BY DEF EmptyAssembly, Assemblies

LEMMA RefuseIsTyped ==
  ASSUME NEW asm \in Assemblies, NEW s \in Slots, NEW reason \in Reasons
  PROVE  Refuse(asm, s, reason) \in Assemblies /\ Refuse(asm, s, reason).winning = asm.winning
<1>1. asm.winning \in [Slots -> SUBSET Submissions]
      /\ asm.refused \in [Slots -> Reasons \union {NoReason}]
      /\ asm = [winning |-> asm.winning, refused |-> asm.refused]
  BY DEF Assemblies
<1>2. QED
  BY <1>1 DEF Assemblies, Refuse

\* A closed assembly is a batch: one entry per slot, which is either what
\* that slot submitted or a no-op.
LEMMA CloseIsTyped ==
  ASSUME NEW asm \in Assemblies
  PROVE  /\ Close(asm) \in [Slots -> Entries]
         /\ \A s \in Slots : \/ Close(asm)[s].kind = NoOp
                              \/ \E w \in asm.winning[s] : Close(asm)[s].kind = w.kind
<1>1. asm.winning \in [Slots -> SUBSET Submissions]
      /\ asm.refused \in [Slots -> Reasons \union {NoReason}]
  BY DEF Assemblies
<1>2. ASSUME NEW s \in Slots
      PROVE  /\ Close(asm)[s] \in Entries
             /\ \/ Close(asm)[s].kind = NoOp
                \/ \E w \in asm.winning[s] : Close(asm)[s].kind = w.kind
  <2>1. CASE asm.winning[s] = {}
    BY <1>1, <2>1, AssemblyAssumption DEF Close, Entries
  <2>2. CASE asm.winning[s] # {}
    <3>1. PICK w \in asm.winning[s] : w = (CHOOSE x \in asm.winning[s] : TRUE)
      BY <2>2
    <3>2. w \in Submissions
      BY <1>1
    <3>3. Close(asm)[s] = [kind |-> w.kind, source |-> "submitted", rejection |-> NoReason]
      BY <2>2, <3>1 DEF Close
    <3>4. QED
      BY <3>2, <3>3 DEF Entries, Submissions
  <2>3. QED
    BY <2>1, <2>2
<1>3. QED
  BY <1>2 DEF Close

LEMMA OfferIsTyped ==
  ASSUME NEW asm \in Assemblies, NEW t \in Int, NEW sub \in Submissions
  PROVE  Offer(asm, t, sub) \in Assemblies
<1>1. asm.winning \in [Slots -> SUBSET Submissions]
      /\ asm.refused \in [Slots -> Reasons \union {NoReason}]
  BY DEF Assemblies
<1>2. sub.slot \in Slots /\ {sub} \in SUBSET Submissions
  BY DEF Submissions
<1>3. [asm EXCEPT !.winning[sub.slot] = {sub}] \in Assemblies
  BY <1>1, <1>2 DEF Assemblies
<1>4. Refuse(asm, sub.slot, "late") \in Assemblies
  BY <1>1, <1>2 DEF Assemblies, Refuse, Reasons
<1>5. QED
  BY <1>3, <1>4 DEF Offer

\* What an offer leaves in a slot: the submission, if it names the open tick
\* and undercuts what is there, and otherwise what was there.
LEMMA OfferDecides ==
  ASSUME NEW asm \in Assemblies, NEW t \in Int, NEW sub \in Submissions, NEW s \in Slots
  PROVE  Offer(asm, t, sub).winning[s] =
           IF sub.slot = s /\ sub.tick = t /\ Wins(asm, sub)
           THEN {sub} ELSE asm.winning[s]
<1>1. asm = [winning |-> asm.winning, refused |-> asm.refused]
      /\ asm.winning \in [Slots -> SUBSET Submissions]
  BY DEF Assemblies
<1>2. sub.slot \in Slots
  BY DEF Submissions
<1>3. CASE sub.tick # t
  BY <1>1, <1>2, <1>3 DEF Offer, Refuse
<1>4. CASE sub.tick = t /\ Wins(asm, sub)
  BY <1>1, <1>2, <1>4 DEF Offer
<1>5. CASE sub.tick = t /\ ~Wins(asm, sub)
  BY <1>1, <1>2, <1>5 DEF Offer
<1>6. QED
  BY <1>3, <1>4, <1>5

\* ordering.ts 30-34 and the lockstep specification's "Arrival time MUST NOT
\* be an input to any ordering decision".  Two submissions that arrive at an
\* assembly one after the other leave the same winners whichever came first,
\* unless they are for one slot under one sequence number.
THEOREM ArrivalOrderIsNoInput ==
  ASSUME NEW asm \in Assemblies, NEW t \in Int,
         NEW x \in Submissions, NEW y \in Submissions,
         x.slot = y.slot => x.sequence # y.sequence
  PROVE  Offer(Offer(asm, t, x), t, y).winning = Offer(Offer(asm, t, y), t, x).winning
<1> DEFINE ax == Offer(asm, t, x)
           ay == Offer(asm, t, y)
           xy == Offer(ax, t, y)
           yx == Offer(ay, t, x)
<1>1. ax \in Assemblies /\ ay \in Assemblies
  BY OfferIsTyped
<1>2. xy \in Assemblies /\ yx \in Assemblies
  BY <1>1, OfferIsTyped
<1>3. x.slot \in Slots /\ y.slot \in Slots /\ x.sequence \in Int /\ y.sequence \in Int
  BY DEF Submissions
<1>4. ASSUME NEW s \in Slots PROVE xy.winning[s] = yx.winning[s]
  <2>1. xy.winning[s] = IF y.slot = s /\ y.tick = t /\ Wins(ax, y) THEN {y} ELSE ax.winning[s]
    BY <1>1, OfferDecides
  <2>2. yx.winning[s] = IF x.slot = s /\ x.tick = t /\ Wins(ay, x) THEN {x} ELSE ay.winning[s]
    BY <1>1, OfferDecides
  <2>3. ax.winning[s] = IF x.slot = s /\ x.tick = t /\ Wins(asm, x) THEN {x} ELSE asm.winning[s]
    BY OfferDecides
  <2>4. ay.winning[s] = IF y.slot = s /\ y.tick = t /\ Wins(asm, y) THEN {y} ELSE asm.winning[s]
    BY OfferDecides
  <2>5. asm.winning[s] \in SUBSET Submissions
    BY DEF Assemblies
  <2>6. \A h \in asm.winning[s] : h.sequence \in Int
    BY <2>5 DEF Submissions
  <2>7. CASE x.slot # s
    <3>1. yx.winning[s] = ay.winning[s] /\ ax.winning[s] = asm.winning[s]
      BY <2>2, <2>3, <2>7
    <3>2. y.slot = s => (Wins(ax, y) <=> Wins(asm, y))
      BY <3>1 DEF Wins
    <3>3. QED
      BY <2>1, <2>4, <3>1, <3>2
  <2>8. CASE y.slot # s
    <3>1. xy.winning[s] = ax.winning[s] /\ ay.winning[s] = asm.winning[s]
      BY <2>1, <2>4, <2>8
    <3>2. x.slot = s => (Wins(ay, x) <=> Wins(asm, x))
      BY <3>1 DEF Wins
    <3>3. QED
      BY <2>2, <2>3, <3>1, <3>2
  <2>9. CASE x.slot = s /\ y.slot = s
    <3>1. CASE x.tick # t
      <4>1. ax.winning[s] = asm.winning[s] /\ yx.winning[s] = ay.winning[s]
        BY <2>2, <2>3, <3>1
      <4>2. Wins(ax, y) <=> Wins(asm, y)
        BY <4>1, <2>9 DEF Wins
      <4>3. QED
        BY <4>1, <4>2, <2>1, <2>4
    <3>2. CASE y.tick # t
      <4>1. ay.winning[s] = asm.winning[s] /\ xy.winning[s] = ax.winning[s]
        BY <2>1, <2>4, <3>2
      <4>2. Wins(ay, x) <=> Wins(asm, x)
        BY <4>1, <2>9 DEF Wins
      <4>3. QED
        BY <4>1, <4>2, <2>2, <2>3
    <3>3. CASE x.tick = t /\ y.tick = t /\ x.sequence < y.sequence
      <4>1. Wins(asm, y) => Wins(asm, x)
        BY <1>3, <2>6, <2>9, <3>3 DEF Wins
      <4>2. Wins(asm, x) => ~Wins(ax, y)
        BY <1>3, <2>3, <2>9, <3>3 DEF Wins
      <4>3. Wins(asm, x) => Wins(ay, x)
        BY <1>3, <2>4, <2>9, <3>3 DEF Wins
      <4>4. ~Wins(asm, x) => (Wins(ax, y) <=> Wins(asm, y)) /\ (Wins(ay, x) <=> Wins(asm, x))
        BY <4>1, <2>3, <2>4, <2>9 DEF Wins
      <4>5. QED
        BY <4>1, <4>2, <4>3, <4>4, <2>1, <2>2, <2>3, <2>4, <2>9, <3>3
    <3>4. CASE x.tick = t /\ y.tick = t /\ y.sequence < x.sequence
      <4>1. Wins(asm, x) => Wins(asm, y)
        BY <1>3, <2>6, <2>9, <3>4 DEF Wins
      <4>2. Wins(asm, y) => ~Wins(ay, x)
        BY <1>3, <2>4, <2>9, <3>4 DEF Wins
      <4>3. Wins(asm, y) => Wins(ax, y)
        BY <1>3, <2>3, <2>9, <3>4 DEF Wins
      <4>4. ~Wins(asm, y) => (Wins(ax, y) <=> Wins(asm, y)) /\ (Wins(ay, x) <=> Wins(asm, x))
        BY <4>1, <2>3, <2>4, <2>9 DEF Wins
      <4>5. QED
        BY <4>1, <4>2, <4>3, <4>4, <2>1, <2>2, <2>3, <2>4, <2>9, <3>4
    <3>5. QED
      BY <3>1, <3>2, <3>3, <3>4, <2>9, <1>3
  <2>10. QED
    BY <2>7, <2>8, <2>9
<1>5. xy.winning \in [Slots -> SUBSET Submissions] /\ yx.winning \in [Slots -> SUBSET Submissions]
  BY <1>2 DEF Assemblies
<1>6. QED
  BY <1>4, <1>5

-----------------------------------------------------------------------------
(* The match. *)

\* What waits in the open tick is legal in the state it will be applied to.
Screened ==
  /\ tick \in Nat
  /\ record \in Seq([Slots -> Entries]) /\ Len(record) = tick
  /\ mask \in [Slots -> Masks]
  /\ assembly \in Assemblies
  /\ \A s \in Slots : \A w \in assembly.winning[s] : w.kind \in mask[s]

LEMMA InitScreened == Init => Screened
BY EmptyIsTyped DEF Init, Screened, EmptyAssembly

\* A frame that passes the screen is in the mask; one that does not leaves
\* the winners alone.
LEMMA SubmittedScreened ==
  ASSUME Screened, NEW sub \in [slot : Slots, tick : Int, sequence : Int,
                                kind : Kinds \union {Malformed}]
  PROVE  /\ Submitted(sub.slot, sub) \in Assemblies
         /\ \A s \in Slots : \A w \in Submitted(sub.slot, sub).winning[s] : w.kind \in mask[s]
<1> DEFINE why == Screen(sub.slot, sub.kind)
<1>1. mask[sub.slot] \in Masks /\ mask[sub.slot] \subseteq Kinds
  BY LockstepAssumption DEF Screened
<1>2. why \in Reasons \union {NoReason} /\ (why = NoReason => sub.kind \in mask[sub.slot])
  BY DEF Screen, Reasons, NoReason
<1>3. CASE why = NoReason
  <2>1. sub \in Submissions
    BY <1>1, <1>2, <1>3 DEF Submissions
  <2>2. Submitted(sub.slot, sub) = Offer(assembly, tick, sub)
    BY <1>3 DEF Submitted
  <2>3. tick \in Int /\ assembly \in Assemblies
    BY DEF Screened
  <2>4. ASSUME NEW s \in Slots, NEW w \in Offer(assembly, tick, sub).winning[s]
        PROVE  w.kind \in mask[s]
    <3>1. Offer(assembly, tick, sub).winning[s] =
            IF sub.slot = s /\ sub.tick = tick /\ Wins(assembly, sub)
            THEN {sub} ELSE assembly.winning[s]
      BY <2>1, <2>3, OfferDecides
    <3>2. (w = sub /\ sub.slot = s) \/ w \in assembly.winning[s]
      BY <2>4, <3>1
    <3>3. QED
      BY <1>2, <1>3, <3>2 DEF Screened
  <2>5. QED
    BY <2>1, <2>2, <2>3, <2>4, OfferIsTyped
<1>4. CASE why # NoReason
  <2>1. Submitted(sub.slot, sub) = Refuse(assembly, sub.slot, why) /\ why \in Reasons
    BY <1>2, <1>4 DEF Submitted
  <2>2. QED
    BY <2>1, RefuseIsTyped DEF Screened
<1>5. QED
  BY <1>3, <1>4

LEMMA OnActionScreened ==
  ASSUME Screened, NEW s \in Slots, NEW t \in Int, NEW q \in 0 .. MaxSequence,
         NEW kind \in Kinds, OnAction(s, t, q, kind)
  PROVE  Screened' /\ record' = record
<1> DEFINE sub == Submission(s, t, q, kind)
<1>1. sub \in [slot : Slots, tick : Int, sequence : Int, kind : Kinds \union {Malformed}]
      /\ sub.slot = s /\ sub.kind = kind
  BY LockstepAssumption DEF Submission
<1>2. [sub EXCEPT !.kind = Malformed]
        \in [slot : Slots, tick : Int, sequence : Int, kind : Kinds \union {Malformed}]
      /\ [sub EXCEPT !.kind = Malformed].slot = s
      /\ [sub EXCEPT !.kind = Malformed].kind = Malformed
  BY <1>1
<1>3. UNCHANGED <<tick, record, mask>>
  BY DEF OnAction, sessions
<1>4. \/ assembly' = Submitted(s, [sub EXCEPT !.kind = Malformed])
      \/ assembly' = assembly
      \/ assembly' = Submitted(s, sub)
  BY DEF OnAction
<1>5. /\ Submitted(s, sub) \in Assemblies
      /\ \A x \in Slots : \A w \in Submitted(s, sub).winning[x] : w.kind \in mask[x]
  BY <1>1, SubmittedScreened
<1>6. /\ Submitted(s, [sub EXCEPT !.kind = Malformed]) \in Assemblies
      /\ \A x \in Slots : \A w \in Submitted(s, [sub EXCEPT !.kind = Malformed]).winning[x] :
           w.kind \in mask[x]
  BY <1>2, SubmittedScreened
<1>7. assembly' \in Assemblies
      /\ \A x \in Slots : \A w \in assembly'.winning[x] : w.kind \in mask[x]
  BY <1>4, <1>5, <1>6 DEF Screened
<1>8. QED
  BY <1>3, <1>7 DEF Screened

\* The batch an advance records is legal, slot by slot, under the masks it
\* was submitted to; and the next tick starts empty.
LEMMA AdvanceScreened ==
  ASSUME Screened, Advance
  PROVE  /\ Screened'
         /\ \A s \in Slots : record'[tick + 1][s].kind \in mask[s]
<1> DEFINE batch == Close(assembly)
<1>1. batch \in [Slots -> Entries]
      /\ \A s \in Slots : batch[s].kind = NoOp \/ \E w \in assembly.winning[s] : batch[s].kind = w.kind
  BY CloseIsTyped DEF Screened
<1>2. record' = Append(record, batch) /\ tick' = tick + 1 /\ assembly' = EmptyAssembly
  BY DEF Advance
<1>3. record' \in Seq([Slots -> Entries]) /\ Len(record') = tick' /\ tick' \in Nat
      /\ record'[tick + 1] = batch
  BY <1>1, <1>2 DEF Screened
<1>4. mask' \in [Slots -> Masks]
  BY DEF Advance, Screened
<1>5. Screened'
  BY <1>2, <1>3, <1>4, EmptyIsTyped DEF Screened, EmptyAssembly
<1>6. \A s \in Slots : NoOp \in mask[s]
  BY LockstepAssumption DEF Screened
<1>7. QED
  BY <1>1, <1>3, <1>5, <1>6 DEF Screened

LEMMA NextScreened ==
  ASSUME Screened, [Next]_vars
  PROVE  /\ Screened'
         /\ record' # record => \A s \in Slots : record'[tick + 1][s].kind \in mask[s]
<1>1. CASE \E s \in Slots, t \in {tick - 1, tick}, q \in 0 .. MaxSequence, kind \in Kinds :
             OnAction(s, t, q, kind)
  <2>1. PICK s \in Slots, t \in {tick - 1, tick}, q \in 0 .. MaxSequence, kind \in Kinds :
          OnAction(s, t, q, kind)
    BY <1>1
  <2>2. t \in Int
    BY DEF Screened
  <2>3. QED
    BY <2>1, <2>2, OnActionScreened
<1>2. CASE Advance
  BY <1>2, AdvanceScreened
<1>3. CASE UNCHANGED <<tick, assembly, record, mask>>
  BY <1>3 DEF Screened
<1>4. DeadlinePasses => UNCHANGED <<tick, assembly, record, mask>>
  BY DEF DeadlinePasses, match, sessions
<1>5. AdvanceThrows => UNCHANGED <<tick, assembly, record, mask>>
  BY DEF AdvanceThrows, match
<1>6. (\E s \in Slots, t \in -1 .. lastTick :
         \E hash \in {Mirror(s, t), Lie} : OnCheckpoint(s, t, hash))
        => UNCHANGED <<tick, assembly, record, mask>>
  BY DEF OnCheckpoint, sessions
<1>7. OnLeave => UNCHANGED <<tick, assembly, record, mask>>
  BY DEF OnLeave, sessions
<1>8. UNCHANGED vars => UNCHANGED <<tick, assembly, record, mask>>
  BY DEF vars, match, sessions
<1>9. QED
  BY <1>1, <1>2, <1>3, <1>4, <1>5, <1>6, <1>7, <1>8 DEF Next

\* match.ts 86-108.  Nothing illegal ever reaches the core, on either path
\* through advance and however many ticks lie between two masks.
THEOREM LegalAtTheCore == Spec => OnlyLegalActionsReachTheCore
<1>1. Init => Screened
  BY InitScreened
<1>2. Screened /\ [Next]_vars => Screened'
  BY NextScreened
<1>3. Screened /\ [Next]_vars =>
        [record' # record => \A s \in Slots : record'[tick + 1][s].kind \in mask[s]]_vars
  BY NextScreened
<1>4. QED
  BY <1>1, <1>2, <1>3, PTL DEF Spec, OnlyLegalActionsReachTheCore

\* match.ts 283-293.  A leave, a desync, a conquest and the tick limit may all
\* be told of at once: the reason that came first stands, whatever is still
\* reported, and what it ended is left as it was.
THEOREM FirstEndStands == Spec => FirstEndWins
<1>1. ASSUME [Next]_vars, ended # "none"
      PROVE  UNCHANGED <<ended, universe, record, published>>
  <2>1. ~Live /\ ~Ready
    BY <1>1 DEF Live, Ready
  <2>2. CASE \E s \in Slots, t \in -1 .. lastTick :
               \E hash \in {Mirror(s, t), Lie} : OnCheckpoint(s, t, hash)
    BY <1>1, <2>2 DEF OnCheckpoint, Ending, sessions
  <2>3. CASE UNCHANGED vars
    BY <2>3 DEF vars, match, sessions, published
  <2>4. ~DeadlinePasses /\ ~OnLeave
    BY <2>1 DEF DeadlinePasses, OnLeave
  <2>5. ~Advance /\ ~AdvanceThrows
    BY <2>1 DEF Advance, AdvanceThrows
  <2>6. \A s \in Slots, t \in {tick - 1, tick}, q \in 0 .. MaxSequence, kind \in Kinds :
          ~OnAction(s, t, q, kind)
    BY <2>1 DEF OnAction
  <2> QED BY <1>1, <2>2, <2>3, <2>4, <2>5, <2>6 DEF Next
<1>2. [Next]_vars => [ended # "none" => UNCHANGED <<ended, universe, record, published>>]_vars
  BY <1>1
<1> QED BY <1>2, PTL DEF Spec, FirstEndWins
-----------------------------------------------------------------------------
(* What the mirrors show on a host without raids: the hash published for a *)
(* tick is the one an honest mirror computes for it, so that a report      *)
(* which disagrees was never computed.                                     *)

MirrorsHold ==
  \A s \in Slots : /\ lastHashes[s] = Mirror(s, lastTick)
                   /\ up => universe[s] = lastHashes[s]

MirrorInv ==
  /\ Screened
  /\ lastTick = tick - 1
  /\ ~hasResolver => portalPending = NoSlot /\ MirrorsHold
  /\ DesyncIsDeserved

\* The mirror of a batch more is the mirror with the slot's entry at its end.
LEMMA MirrorGrows ==
  ASSUME Screened, lastTick = tick - 1, NEW s \in Slots,
         NEW batch \in [Slots -> Entries],
         record' = Append(record, batch), lastTick' = tick
  PROVE  Mirror(s, lastTick)' = Append(Mirror(s, lastTick), batch[s].kind)
<1> DEFINE log == [i \in 1 .. tick |-> record[i][s].kind]
           longer == [i \in 1 .. tick + 1 |-> record'[i][s].kind]
<1>1. tick \in Nat /\ record \in Seq([Slots -> Entries]) /\ Len(record) = tick
  BY DEF Screened
<1>2. \A i \in 1 .. tick : record[i] \in [Slots -> Entries] /\ record'[i] = record[i]
  BY <1>1
<1>3. record'[tick + 1] = batch
  BY <1>1
<1>4. \A i \in 1 .. tick : record[i][s].kind \in Kinds
  BY <1>2 DEF Entries
<1>5. log \in Seq(Kinds) /\ Len(log) = tick
  BY <1>1, <1>4
<1>6. batch[s].kind \in Kinds
  BY DEF Entries
<1>7. Append(log, batch[s].kind) =
        [i \in 1 .. tick + 1 |-> IF i \in 1 .. tick THEN log[i] ELSE batch[s].kind]
  BY <1>1, <1>5, <1>6
<1>8. \A i \in 1 .. tick + 1 :
        longer[i] = IF i \in 1 .. tick THEN log[i] ELSE batch[s].kind
  BY <1>1, <1>2, <1>3
<1>9. longer = Append(log, batch[s].kind)
  BY <1>7, <1>8
<1>10. Mirror(s, lastTick) = log
  BY <1>1 DEF Mirror
<1> QED BY <1>9, <1>10 DEF Mirror

LEMMA InitMirrors == Init => MirrorInv
<1> SUFFICES ASSUME Init PROVE MirrorInv
  OBVIOUS
<1>1. Screened
  BY InitScreened
<1>2. \A s \in Slots : universe[s] = <<>> /\ lastHashes[s] = <<>> /\ Mirror(s, lastTick) = <<>>
  BY DEF Init, Mirror
<1>3. lastTick = tick - 1 /\ portalPending = NoSlot /\ ended = "none" /\ retained
  BY DEF Init
<1> QED BY <1>1, <1>2, <1>3 DEF MirrorInv, MirrorsHold, DesyncIsDeserved

\* Without a resolver no raid is due, and what is published is what was
\* applied.
LEMMA AdvanceMirrors ==
  ASSUME MirrorInv, Advance
  PROVE  MirrorInv'
<1> DEFINE batch == Close(assembly)
           u == Applied(batch)
<1>1. Screened' /\ batch \in [Slots -> Entries]
  BY AdvanceScreened, CloseIsTyped DEF MirrorInv, Screened
<1>2. /\ record' = Append(record, batch) /\ lastTick' = tick /\ tick' = tick + 1
      /\ portalPending' = NoSlot /\ UNCHANGED <<hasResolver, up, lied, retained>>
      /\ ended = "none" /\ up
  BY DEF Advance, Ready, Live
<1>3. ended' # "desync"
  BY DEF Advance, EndedBy
<1>4. lastTick' = tick' - 1
  BY <1>2 DEF MirrorInv, Screened
<1>5. ASSUME ~hasResolver, NEW s \in Slots
      PROVE  lastHashes'[s] = Mirror(s, lastTick)' /\ universe'[s] = lastHashes'[s]
  <2>1. portalPending = NoSlot /\ MirrorsHold
    BY <1>5 DEF MirrorInv
  <2>2. universe' = u /\ lastHashes' = u
    BY <2>1 DEF Advance, RaidDue
  <2>3. u[s] = Append(Mirror(s, lastTick), batch[s].kind)
    BY <1>2, <2>1 DEF MirrorsHold, Applied
  <2>4. Mirror(s, lastTick)' = Append(Mirror(s, lastTick), batch[s].kind)
    BY <1>1, <1>2, MirrorGrows DEF MirrorInv
  <2> QED BY <2>2, <2>3, <2>4
<1>6. ~hasResolver' => portalPending' = NoSlot /\ MirrorsHold'
  BY <1>2, <1>5 DEF MirrorsHold
<1>7. DesyncIsDeserved'
  BY <1>2, <1>3 DEF MirrorInv, DesyncIsDeserved
<1> QED BY <1>1, <1>4, <1>6, <1>7 DEF MirrorInv

\* Only a report about the last tick is compared, and it is compared with
\* what its mirror would show.
LEMMA CheckpointMirrors ==
  ASSUME MirrorInv, NEW s \in Slots, NEW t \in -1 .. lastTick,
         NEW hash \in {Mirror(s, t), Lie}, OnCheckpoint(s, t, hash)
  PROVE  DesyncIsDeserved'
<1>1. t = lastTick /\ hash # lastHashes[s] /\ UNCHANGED hasResolver
  BY DEF OnCheckpoint, Compared
<1>2. ~hasResolver => hash = Lie
  BY <1>1 DEF MirrorInv, MirrorsHold
<1>3. hash = Lie => lied'
  BY DEF OnCheckpoint
<1> QED BY <1>1, <1>2, <1>3 DEF DesyncIsDeserved

LEMMA NextMirrors ==
  ASSUME MirrorInv, [Next]_vars
  PROVE  MirrorInv'
<1>0. Screened /\ Screened'
  BY NextScreened DEF MirrorInv
<1>1. CASE /\ UNCHANGED <<hasResolver, tick, record, lastTick, lastHashes>>
           /\ ~hasResolver => UNCHANGED portalPending
           /\ up' => up /\ UNCHANGED universe
           /\ DesyncIsDeserved'
  <2>1. \A s \in Slots : Mirror(s, lastTick)' = Mirror(s, lastTick)
    BY <1>1 DEF Mirror
  <2> QED BY <1>0, <1>1, <2>1 DEF MirrorInv, MirrorsHold
<1>3. CASE \E s \in Slots, t \in {tick - 1, tick}, q \in 0 .. MaxSequence, kind \in Kinds :
             OnAction(s, t, q, kind)
  <2>1. /\ UNCHANGED <<hasResolver, tick, record, lastTick, lastHashes, universe, up,
                       ended, retained, lied>>
        /\ ~hasResolver => UNCHANGED portalPending
    BY <1>3 DEF OnAction, sessions, published
  <2>2. DesyncIsDeserved'
    BY <2>1 DEF MirrorInv, DesyncIsDeserved
  <2> QED BY <1>1, <2>1, <2>2
<1>4. CASE DeadlinePasses \/ UNCHANGED vars
  <2>1. UNCHANGED <<hasResolver, tick, record, lastTick, lastHashes, universe, up,
                    portalPending, ended, retained, lied>>
    BY <1>4 DEF DeadlinePasses, vars, match, sessions, published
  <2>2. DesyncIsDeserved'
    BY <2>1 DEF MirrorInv, DesyncIsDeserved
  <2> QED BY <1>1, <2>1, <2>2
<1>5. CASE Advance
  BY <1>5, AdvanceMirrors
<1>6. CASE AdvanceThrows
  <2>1. /\ UNCHANGED <<hasResolver, tick, record, lastTick, lastHashes,
                       portalPending, ended, retained, lied>>
        /\ ~up'
    BY <1>6 DEF AdvanceThrows, match, published
  <2>2. DesyncIsDeserved'
    BY <2>1 DEF MirrorInv, DesyncIsDeserved
  <2> QED BY <1>1, <2>1, <2>2
<1>7. CASE \E s \in Slots, t \in -1 .. lastTick :
             \E hash \in {Mirror(s, t), Lie} : OnCheckpoint(s, t, hash)
  <2>1. UNCHANGED <<hasResolver, tick, record, lastTick, lastHashes, universe, up, portalPending>>
    BY <1>7 DEF OnCheckpoint, sessions, published
  <2>2. DesyncIsDeserved'
    BY <1>7, CheckpointMirrors
  <2> QED BY <1>1, <2>1, <2>2
<1>8. CASE OnLeave
  <2>1. /\ UNCHANGED <<hasResolver, tick, record, lastTick, lastHashes, universe, up,
                       portalPending, retained, lied>>
        /\ ended' = "abandoned"
    BY <1>8 DEF OnLeave, sessions, published, Live, Ending
  <2>2. DesyncIsDeserved'
    BY <2>1 DEF MirrorInv, DesyncIsDeserved
  <2> QED BY <1>1, <2>1, <2>2
<1> QED BY <1>3, <1>4, <1>5, <1>6, <1>7, <1>8 DEF Next

\* host.ts, onCheckpoint.  However late its honest reports arrive, and whatever
\* its rival does, on a host without raids a match is not ended as a desync,
\* nor its final hash disputed, unless somebody reported a hash no mirror shows.
THEOREM HonestReportsAgree == Spec => []DesyncIsDeserved
<1>1. MirrorInv => DesyncIsDeserved
  BY DEF MirrorInv
<1> QED BY InitMirrors, NextMirrors, <1>1, PTL DEF Spec

-----------------------------------------------------------------------------
(* Types.  The tick stays below the limit while the match runs, since the  *)
(* tick that would reach it ends the match.                                *)

TypeInv ==
  /\ TypeOK
  /\ ended = "none" => tick < StepLimit

LEMMA InitTypes == Init => TypeInv
<1> SUFFICES ASSUME Init PROVE TypeInv
  OBVIOUS
<1>1. assembly \in Assemblies
  BY EmptyIsTyped DEF Init
<1>2. record \in Seq([Slots -> Entries]) /\ Len(record) = tick /\ tick = 0
  BY DEF Init
<1>3. universe \in [Slots -> Seq(Kinds \union {Raided})] /\ lastHashes = universe
  BY DEF Init
<1>4. StepLimit \in Nat \ {0} /\ MaxSubmissions \in Nat /\ MaxSequence \in Nat /\ MaxFrames \in Nat
  BY LockstepAssumption
<1>5. lastSequence \in [Slots -> -1 .. MaxSequence]
  BY <1>4 DEF Init
<1>6. budget \in [Slots -> [tick : -1 .. StepLimit, used : 0 .. MaxSubmissions + 1]]
  <2>1. [tick |-> -1, used |-> 0] \in [tick : -1 .. StepLimit, used : 0 .. MaxSubmissions + 1]
    BY <1>4
  <2> QED BY <2>1 DEF Init
<1>7. /\ hasResolver \in BOOLEAN /\ ended = "none" /\ mask \in [Slots -> Masks] /\ over = {}
      /\ deadlinePassed = FALSE /\ answered = {} /\ lastTick = -1 /\ portalPending = NoSlot
      /\ retained = TRUE /\ up = TRUE /\ frames = 0 /\ heard = {} /\ raids = {} /\ lied = FALSE
  BY DEF Init
<1>8. 0 \in 0 .. StepLimit /\ 0 \in 0 .. MaxFrames /\ 0 < StepLimit
  BY <1>4
<1>9. /\ tick \in 0 .. StepLimit /\ lastTick = tick - 1 /\ frames \in 0 .. MaxFrames
      /\ lastSequence \in [Slots -> -1 .. MaxSequence]
  BY <1>2, <1>5, <1>7, <1>8
<1>10. TypeOK
  BY <1>1, <1>2, <1>3, <1>6, <1>7, <1>9 DEF TypeOK, Assemblies
<1> QED BY <1>2, <1>8, <1>10 DEF TypeInv

LEMMA ChargedIsTyped ==
  ASSUME TypeOK, NEW s \in Slots, NEW t \in -1 .. StepLimit
  PROVE  Charged(s, t) \in [tick : -1 .. StepLimit, used : 0 .. MaxSubmissions + 1]
<1>1. budget[s] \in [tick : -1 .. StepLimit, used : 0 .. MaxSubmissions + 1]
  BY DEF TypeOK
<1>2. budget[s].used \in 0 .. MaxSubmissions + 1 /\ MaxSubmissions \in Nat
  BY <1>1, LockstepAssumption
<1> QED BY <1>2 DEF Charged

LEMMA OnActionTypes ==
  ASSUME TypeInv, Screened, NEW s \in Slots, NEW t \in {tick - 1, tick},
         NEW q \in 0 .. MaxSequence, NEW kind \in Kinds, OnAction(s, t, q, kind), Screened'
  PROVE  TypeInv'
<1>1. tick \in Nat /\ tick < StepLimit /\ StepLimit \in Nat /\ MaxSequence \in Nat
  BY LockstepAssumption DEF OnAction, Live, TypeInv, TypeOK
<1>2. t \in -1 .. StepLimit /\ tick \in -1 .. StepLimit
  BY <1>1
<1>3. budget' \in [Slots -> [tick : -1 .. StepLimit, used : 0 .. MaxSubmissions + 1]]
  BY <1>2, ChargedIsTyped DEF OnAction, TypeInv, TypeOK
<1>4. lastSequence' \in [Slots -> -1 .. MaxSequence]
  <2>1. lastSequence \in [Slots -> -1 .. MaxSequence] /\ q \in -1 .. MaxSequence
    BY <1>1 DEF TypeInv, TypeOK
  <2>2. lastSequence' = lastSequence \/ lastSequence' = [lastSequence EXCEPT ![s] = q]
    BY DEF OnAction
  <2> QED BY <2>1, <2>2
<1>5. /\ Submission(s, t, q, kind) \in [slot : Slots, tick : -1 .. StepLimit,
                                        sequence : 0 .. MaxSequence, kind : Kinds \union {Malformed}]
      /\ Submission(s, tick, 0, Malformed) \in [slot : Slots, tick : -1 .. StepLimit,
                                        sequence : 0 .. MaxSequence, kind : Kinds \union {Malformed}]
  BY <1>1, <1>2 DEF Submission
<1>6. heard' \subseteq [slot : Slots, tick : -1 .. StepLimit, sequence : 0 .. MaxSequence,
                        kind : Kinds \union {Malformed}]
  BY <1>5 DEF OnAction, TypeInv, TypeOK
<1>7. answered' \subseteq Slots /\ portalPending' \in Slots \union {NoSlot}
  BY DEF OnAction, TypeInv, TypeOK
<1>8. frames' \in 0 .. MaxFrames
  <2>1. frames \in 0 .. MaxFrames /\ frames < MaxFrames /\ frames' = frames + 1 /\ MaxFrames \in Nat
    BY LockstepAssumption DEF OnAction, TypeInv, TypeOK
  <2> QED BY <2>1
<1>9. UNCHANGED <<hasResolver, tick, record, ended, universe, mask, over, deadlinePassed,
                  lastHashes, lastTick, retained, up, raids, lied>>
  BY DEF OnAction, sessions, published
<1>10. assembly' \in [winning : [Slots -> SUBSET Submissions],
                      refused : [Slots -> Reasons \union {NoReason}]]
  BY DEF Screened, Assemblies
<1> QED BY <1>3, <1>4, <1>6, <1>7, <1>8, <1>9, <1>10 DEF TypeInv, TypeOK

LEMMA AppliedIsTyped ==
  ASSUME universe \in [Slots -> Seq(Kinds \union {Raided})], NEW batch \in [Slots -> Entries]
  PROVE  Applied(batch) \in [Slots -> Seq(Kinds \union {Raided})]
<1>1. \A s \in Slots : batch[s].kind \in Kinds \union {Raided}
  BY DEF Entries
<1> QED BY <1>1 DEF Applied

LEMMA AdvanceTypes ==
  ASSUME TypeInv, Screened, Advance, Screened'
  PROVE  TypeInv'
<1> DEFINE batch == Close(assembly)
           u == Applied(batch)
           Logs == [Slots -> Seq(Kinds \union {Raided})]
<1>1. tick \in Nat /\ tick < StepLimit /\ StepLimit \in Nat /\ ended = "none"
  BY LockstepAssumption DEF Advance, Ready, Live, TypeInv, TypeOK
<1>2. batch \in [Slots -> Entries]
  BY CloseIsTyped DEF Screened
<1>3. u \in Logs
  BY <1>2, AppliedIsTyped DEF TypeInv, TypeOK
<1>4. [s \in Slots |-> Append(u[s], Raided)] \in Logs
  BY <1>3
<1>5. universe' \in Logs /\ lastHashes' \in Logs
  BY <1>3, <1>4 DEF Advance, Raid
<1>6. raids' \subseteq 0 .. StepLimit - 1
  <2>1. raids' = raids \/ raids' = raids \union {tick}
    BY DEF Advance
  <2>2. raids \subseteq 0 .. StepLimit - 1 /\ tick \in 0 .. StepLimit - 1
    BY <1>1 DEF TypeInv, TypeOK
  <2> QED BY <2>1, <2>2
<1>7. /\ ended' \in {"none", "terminal", "truncated", "conquest"}
      /\ ended' = "none" => tick + 1 < StepLimit
  <2>1. EndedBy(over') \in {"none", "terminal", "truncated"}
        /\ (EndedBy(over') = "none" => tick + 1 < StepLimit)
    BY <1>1 DEF EndedBy
  <2>2. ended' = EndedBy(over') \/ ended' = "conquest"
    BY DEF Advance
  <2> QED BY <2>1, <2>2
<1>8. /\ tick' = tick + 1 /\ lastTick' = tick /\ answered' = {} /\ heard' = {}
      /\ deadlinePassed' = FALSE /\ portalPending' = NoSlot /\ over' \subseteq Slots
      /\ UNCHANGED <<hasResolver, lastSequence, budget, retained, up, frames, lied>>
  BY DEF Advance, peers
<1>9. /\ mask' \in [Slots -> Masks]
      /\ record' \in Seq([Slots -> Entries]) /\ Len(record') = tick'
      /\ assembly' \in [winning : [Slots -> SUBSET Submissions],
                        refused : [Slots -> Reasons \union {NoReason}]]
  BY DEF Screened, Assemblies
<1>10. tick' \in 0 .. StepLimit /\ lastTick' = tick' - 1
  BY <1>1, <1>8
<1> QED BY <1>5, <1>6, <1>7, <1>8, <1>9, <1>10 DEF TypeInv, TypeOK

LEMMA ThrowTypes ==
  ASSUME TypeInv, Screened, AdvanceThrows
  PROVE  TypeInv'
<1> DEFINE Logs == [Slots -> Seq(Kinds \union {Raided})]
<1>1. universe \in Logs /\ Close(assembly) \in [Slots -> Entries]
  BY CloseIsTyped DEF TypeInv, TypeOK, Screened
<1>2. Applied(Close(assembly)) \in Logs
  BY <1>1, AppliedIsTyped
<1>3. universe' \in Logs
  BY <1>1, <1>2 DEF AdvanceThrows
<1>4. UNCHANGED <<hasResolver, tick, assembly, record, ended, mask, over, deadlinePassed,
                  answered, lastHashes, lastTick, portalPending, lastSequence, budget,
                  retained, frames, heard, raids, lied>>
      /\ up' = FALSE
  BY DEF AdvanceThrows, match, published, peers
<1> QED BY <1>3, <1>4 DEF TypeInv, TypeOK

LEMMA NextTypes ==
  ASSUME TypeInv, Screened, [Next]_vars, Screened'
  PROVE  TypeInv'
<1>1. CASE \E s \in Slots, t \in {tick - 1, tick}, q \in 0 .. MaxSequence, kind \in Kinds :
             OnAction(s, t, q, kind)
  BY <1>1, OnActionTypes
<1>2. CASE DeadlinePasses \/ UNCHANGED vars
  <2>1. UNCHANGED <<hasResolver, match, sessions, answered, published,
                    portalPending, peers, retained, up, frames, heard, raids, lied>>
        /\ deadlinePassed' \in {TRUE, deadlinePassed}
    BY <1>2 DEF DeadlinePasses, vars
  <2> QED BY <2>1 DEF TypeInv, TypeOK, match, sessions, published, peers
<1>3. CASE Advance
  BY <1>3, AdvanceTypes
<1>4. CASE AdvanceThrows
  BY <1>4, ThrowTypes
<1>5. CASE (\/ OnLeave
            \/ \E s \in Slots, t \in -1 .. lastTick :
                 \E hash \in {Mirror(s, t), Lie} : OnCheckpoint(s, t, hash))
  <2>1. /\ ended' \in {"desync", "abandoned", ended} /\ (ended' = "none" => ended = "none")
        /\ retained' \in BOOLEAN /\ lied' \in BOOLEAN
        /\ UNCHANGED <<hasResolver, tick, assembly, record, universe, mask, over,
                       deadlinePassed, answered, lastHashes, lastTick, portalPending,
                       lastSequence, budget, up, frames, heard, raids>>
    BY <1>5 DEF OnLeave, OnCheckpoint, Ending, sessions, published, peers, TypeInv, TypeOK
  <2> QED BY <2>1 DEF TypeInv, TypeOK
<1> QED BY <1>1, <1>2, <1>3, <1>4, <1>5 DEF Next

\* Every variable keeps its type, for any slots, kinds, masks and limits.
THEOREM TypeCorrect == Spec => []TypeOK
<1>1. Init => Screened /\ TypeInv
  BY InitScreened, InitTypes
<1>2. Screened /\ TypeInv /\ [Next]_vars => (Screened /\ TypeInv)'
  BY NextScreened, NextTypes
<1>3. TypeInv => TypeOK
  BY DEF TypeInv
<1> QED BY <1>1, <1>2, <1>3, PTL DEF Spec
-----------------------------------------------------------------------------
(* What the open assembly says of the submissions heard: its winners are   *)
(* the lowest of the legal ones, and a refusal is noted for every slot     *)
(* that was heard and has no winner.                                       *)

Heard == [slot : Slots, tick : Int, sequence : Int, kind : Kinds \union {Malformed}]

Legal(s) == {h \in heard : h.slot = s /\ h.tick = tick /\ h.kind \in mask[s]}
Lowest(s) == {h \in Legal(s) : \A x \in Legal(s) : h.sequence <= x.sequence}

WinnerIsLowest(s) ==
  /\ assembly.winning[s] = {} <=> Legal(s) = {}
  /\ assembly.winning[s] \subseteq Lowest(s)

SilenceIsKnown(s) ==
  assembly.winning[s] = {} /\ assembly.refused[s] = NoReason <=> \A h \in heard : h.slot # s

Heeded == heard \subseteq Heard /\ \A s \in Slots : WinnerIsLowest(s) /\ SilenceIsKnown(s)

\* Who asked for a portal was heard asking.
AskedFor == portalPending # NoSlot => \E h \in heard : h.kind = Portal

HeardInv == Screened /\ Heeded /\ AskedFor

\* A submission the screen or the tick turns away.
LEMMA RefusedHeeds ==
  ASSUME Screened, Heeded, NEW sub \in Heard, NEW why \in Reasons,
         sub.tick # tick \/ sub.kind \notin mask[sub.slot],
         assembly' = Refuse(assembly, sub.slot, why),
         heard' = heard \union {sub}, UNCHANGED <<tick, mask>>
  PROVE  Heeded'
<1>1. /\ assembly.winning \in [Slots -> SUBSET Submissions]
      /\ assembly.refused \in [Slots -> Reasons \union {NoReason}]
      /\ assembly = [winning |-> assembly.winning, refused |-> assembly.refused]
  BY DEF Screened, Assemblies
<1>2. /\ assembly'.winning = assembly.winning
      /\ \A s \in Slots : assembly'.refused[s] =
           IF s = sub.slot /\ assembly.refused[s] = NoReason THEN why ELSE assembly.refused[s]
  BY <1>1 DEF Refuse, Heard
<1>3. heard' \subseteq Heard
  BY DEF Heeded
<1>4. ASSUME NEW s \in Slots
      PROVE  WinnerIsLowest(s)' /\ SilenceIsKnown(s)'
  <2>1. Legal(s)' = Legal(s)
    BY DEF Legal
  <2>2. Lowest(s)' = Lowest(s)
    BY <2>1 DEF Lowest
  <2>3. WinnerIsLowest(s)'
    BY <1>2, <2>1, <2>2 DEF WinnerIsLowest, Heeded
  <2>4. why # NoReason
    BY DEF Reasons, NoReason
  <2>5. SilenceIsKnown(s)'
    BY <1>2, <2>4 DEF SilenceIsKnown, Heeded
  <2> QED BY <2>3, <2>5
<1> QED BY <1>3, <1>4 DEF Heeded

\* A legal submission for the open tick: it wins if it undercuts the winner.
LEMMA OfferedHeeds ==
  ASSUME Screened, Heeded, NEW sub \in Heard,
         sub.tick = tick, sub.kind \in mask[sub.slot],
         assembly' = Offer(assembly, tick, sub),
         heard' = heard \union {sub}, UNCHANGED <<tick, mask>>
  PROVE  Heeded'
<1>1. /\ assembly.winning \in [Slots -> SUBSET Submissions]
      /\ assembly.refused \in [Slots -> Reasons \union {NoReason}]
      /\ assembly = [winning |-> assembly.winning, refused |-> assembly.refused]
  BY DEF Screened, Assemblies
<1>2. sub.slot \in Slots /\ sub.sequence \in Int
  BY DEF Heard
<1>3. /\ assembly'.refused = assembly.refused
      /\ \A s \in Slots : assembly'.winning[s] =
           IF s = sub.slot /\ Wins(assembly, sub) THEN {sub} ELSE assembly.winning[s]
  BY <1>1, <1>2 DEF Offer
<1>4. heard' \subseteq Heard
  BY DEF Heeded
<1>5. ASSUME NEW s \in Slots, s # sub.slot
      PROVE  WinnerIsLowest(s)' /\ SilenceIsKnown(s)'
  <2>1. Legal(s)' = Legal(s)
    BY <1>5 DEF Legal
  <2>2. Lowest(s)' = Lowest(s)
    BY <2>1 DEF Lowest
  <2>3. WinnerIsLowest(s)'
    BY <1>3, <1>5, <2>1, <2>2 DEF WinnerIsLowest, Heeded
  <2>4. SilenceIsKnown(s)'
    BY <1>3, <1>5 DEF SilenceIsKnown, Heeded
  <2> QED BY <2>3, <2>4
<1>6. ASSUME NEW s \in Slots, s = sub.slot
      PROVE  WinnerIsLowest(s)' /\ SilenceIsKnown(s)'
  <2>1. Legal(s)' = Legal(s) \union {sub}
    BY <1>6 DEF Legal
  <2>2. \A x \in Legal(s) : x.sequence \in Int
    BY DEF Legal, Heeded, Heard
  <2>3. CASE Wins(assembly, sub)
    <3>1. assembly'.winning[s] = {sub}
      BY <1>3, <1>6, <2>3
    <3>2. \A x \in Legal(s) : sub.sequence <= x.sequence
      <4>1. SUFFICES ASSUME NEW x \in Legal(s) PROVE sub.sequence <= x.sequence
        OBVIOUS
      <4>2. PICK w \in assembly.winning[s] : w \in Lowest(s)
        BY <4>1 DEF Heeded, WinnerIsLowest
      <4>3. sub.sequence < w.sequence /\ w.sequence <= x.sequence /\ w.sequence \in Int
        BY <1>6, <2>2, <2>3, <4>1, <4>2 DEF Wins, Lowest
      <4> QED BY <1>2, <2>2, <4>1, <4>3
    <3>3. sub \in Lowest(s)'
      BY <1>2, <2>1, <3>2 DEF Lowest
    <3> QED BY <1>6, <2>1, <3>1, <3>3 DEF WinnerIsLowest, SilenceIsKnown
  <2>4. CASE ~Wins(assembly, sub)
    <3>1. assembly'.winning[s] = assembly.winning[s]
      BY <1>3, <2>4
    <3>2. PICK w \in assembly.winning[s] : ~(sub.sequence < w.sequence)
      BY <1>6, <2>4 DEF Wins
    <3>3. w \in Legal(s) /\ w.sequence \in Int
      BY <2>2, <3>2 DEF Heeded, WinnerIsLowest, Lowest
    <3>4. \A y \in Lowest(s) : y \in Lowest(s)'
      BY <1>2, <2>1, <2>2, <3>2, <3>3 DEF Lowest
    <3>5. WinnerIsLowest(s)'
      BY <2>1, <3>1, <3>2, <3>4 DEF WinnerIsLowest, Heeded
    <3>6. SilenceIsKnown(s)'
      BY <1>6, <3>1, <3>2 DEF SilenceIsKnown
    <3> QED BY <3>5, <3>6
  <2> QED BY <2>3, <2>4
<1> QED BY <1>4, <1>5, <1>6 DEF Heeded

LEMMA SubmittedHeeds ==
  ASSUME Screened, Heeded, NEW sub \in Heard,
         assembly' = Submitted(sub.slot, sub),
         heard' = heard \union {sub}, UNCHANGED <<tick, mask>>
  PROVE  Heeded'
<1>1. mask[sub.slot] \subseteq Kinds /\ Malformed \notin Kinds
  BY LockstepAssumption DEF Screened, Heard, Malformed
<1>2. CASE Screen(sub.slot, sub.kind) # NoReason
  <2>1. Screen(sub.slot, sub.kind) \in Reasons /\ sub.kind \notin mask[sub.slot]
    BY <1>1, <1>2 DEF Screen, Reasons, NoReason
  <2> QED BY <1>2, <2>1, RefusedHeeds DEF Submitted
<1>3. CASE Screen(sub.slot, sub.kind) = NoReason
  <2>1. sub.kind \in mask[sub.slot] /\ assembly' = Offer(assembly, tick, sub)
    BY <1>1, <1>3 DEF Screen, NoReason, Submitted
  <2>2. CASE sub.tick = tick
    BY <2>1, <2>2, OfferedHeeds
  <2>3. CASE sub.tick # tick
    <3>1. assembly' = Refuse(assembly, sub.slot, "late") /\ "late" \in Reasons
      BY <2>1, <2>3 DEF Offer, Reasons
    <3> QED BY <2>3, <3>1, RefusedHeeds
  <2> QED BY <2>2, <2>3
<1> QED BY <1>2, <1>3

LEMMA OnActionHeeds ==
  ASSUME HeardInv, NEW s \in Slots, NEW t \in Int, NEW q \in 0 .. MaxSequence,
         NEW kind \in Kinds, OnAction(s, t, q, kind)
  PROVE  HeardInv' /\ record' = record
<1> DEFINE sub == Submission(s, t, q, kind)
           unread == Submission(s, tick, 0, Malformed)
<1>1. sub \in Heard /\ sub.slot = s /\ sub.kind = kind
  BY DEF Heard, Submission
<1>2. unread \in Heard /\ unread.slot = s /\ unread.kind = Malformed
  BY DEF Heard, Submission, HeardInv, Screened
<1>3. UNCHANGED <<tick, mask>> /\ Screened' /\ record' = record
  BY OnActionScreened DEF HeardInv, OnAction, sessions
<1>4. CASE /\ assembly' = Submitted(s, [sub EXCEPT !.kind = Malformed])
           /\ heard' = heard \union {unread} /\ UNCHANGED portalPending
  <2>1. [sub EXCEPT !.kind = Malformed].kind = Malformed
    BY DEF Submission
  <2>2. Submitted(s, [sub EXCEPT !.kind = Malformed]) = Submitted(s, unread)
    BY <1>2, <2>1 DEF Submitted, Screen, NoReason
  <2>3. Heeded'
    BY <1>2, <1>3, <1>4, <2>2, SubmittedHeeds DEF HeardInv
  <2>4. AskedFor'
    BY <1>4 DEF HeardInv, AskedFor
  <2> QED BY <1>3, <2>3, <2>4 DEF HeardInv
<1>5. CASE UNCHANGED <<assembly, heard, portalPending>>
  BY <1>3, <1>5 DEF HeardInv, Heeded, AskedFor, WinnerIsLowest, SilenceIsKnown, Lowest, Legal
<1>6. CASE /\ assembly' = Submitted(s, sub) /\ heard' = heard \union {sub}
           /\ portalPending' = IF kind = Portal /\ hasResolver THEN s ELSE portalPending
  <2>1. Heeded'
    BY <1>1, <1>3, <1>6, SubmittedHeeds DEF HeardInv
  <2>2. AskedFor'
    BY <1>1, <1>6 DEF HeardInv, AskedFor
  <2> QED BY <1>3, <2>1, <2>2 DEF HeardInv
<1>7. \/ /\ assembly' = Submitted(s, [sub EXCEPT !.kind = Malformed])
         /\ heard' = heard \union {unread} /\ UNCHANGED portalPending
      \/ UNCHANGED <<assembly, heard, portalPending>>
      \/ /\ assembly' = Submitted(s, sub) /\ heard' = heard \union {sub}
         /\ portalPending' = IF kind = Portal /\ hasResolver THEN s ELSE portalPending
  BY DEF OnAction
<1> QED BY <1>3, <1>4, <1>5, <1>6, <1>7

\* A tick opens with nothing heard and nothing decided.
LEMMA NothingHeard ==
  ASSUME assembly = EmptyAssembly, heard = {}, portalPending = NoSlot
  PROVE  Heeded /\ AskedFor
<1>1. \A s \in Slots : assembly.winning[s] = {} /\ assembly.refused[s] = NoReason
  BY DEF EmptyAssembly
<1> QED BY <1>1 DEF Heeded, AskedFor, WinnerIsLowest, SilenceIsKnown, Lowest, Legal

\* The batch a heeding assembly closes with is the canonical one.
LEMMA ClosedIsCanonical ==
  ASSUME HeardInv, NEW s \in Slots
  PROVE  Canonical(s, Close(assembly)[s])
<1>1. WinnerIsLowest(s) /\ SilenceIsKnown(s)
  BY DEF HeardInv, Heeded
<1>2. CASE Legal(s) = {}
  <2>1. Close(assembly)[s] =
          [kind |-> NoOp, source |-> "substituted", rejection |-> assembly.refused[s]]
    BY <1>1, <1>2 DEF WinnerIsLowest, Close
  <2>2. assembly.refused[s] = NoReason <=> \A h \in heard : h.slot # s
    BY <1>1, <1>2 DEF WinnerIsLowest, SilenceIsKnown
  <2> QED BY <1>2, <2>1, <2>2 DEF Canonical, Legal
<1>3. CASE Legal(s) # {}
  <2>1. PICK w \in assembly.winning[s] : w = (CHOOSE x \in assembly.winning[s] : TRUE)
    BY <1>1, <1>3 DEF WinnerIsLowest
  <2>2. Close(assembly)[s] = [kind |-> w.kind, source |-> "submitted", rejection |-> NoReason]
    BY <2>1 DEF Close
  <2>3. w \in Lowest(s)
    BY <1>1 DEF WinnerIsLowest
  <2> QED BY <1>3, <2>2, <2>3 DEF Canonical, Legal, Lowest
<1> QED BY <1>2, <1>3

LEMMA AdvanceHeeds ==
  ASSUME HeardInv, Advance
  PROVE  /\ HeardInv'
         /\ \A s \in Slots : Canonical(s, record'[tick + 1][s])
         /\ raids' # raids => /\ \E h \in heard : h.kind = Portal
                              /\ ended' \in {"none", "conquest"}
                              /\ over' # Slots
<1>1. Screened'
  BY AdvanceScreened DEF HeardInv
<1>2. assembly' = EmptyAssembly /\ heard' = {} /\ portalPending' = NoSlot
  BY DEF Advance
<1>3. (Heeded /\ AskedFor)'
  <2>1. \A s \in Slots : assembly'.winning[s] = {} /\ assembly'.refused[s] = NoReason
    BY <1>2 DEF EmptyAssembly
  <2> QED BY <1>2, <2>1 DEF Heeded, AskedFor, WinnerIsLowest, SilenceIsKnown, Lowest, Legal
<1>4. record'[tick + 1] = Close(assembly)
  <2>1. Close(assembly) \in [Slots -> Entries]
    BY CloseIsTyped DEF HeardInv, Screened
  <2> QED BY <2>1 DEF Advance, HeardInv, Screened
<1>5. \A s \in Slots : Canonical(s, record'[tick + 1][s])
  BY <1>4, ClosedIsCanonical
<1>6. ASSUME raids' # raids
      PROVE  /\ \E h \in heard : h.kind = Portal
             /\ ended' \in {"none", "conquest"} /\ over' # Slots
  <2>1. RaidDue(EndedBy(over')) /\ ended' \in {EndedBy(over'), "conquest"}
    BY <1>6 DEF Advance
  <2>2. portalPending # NoSlot /\ EndedBy(over') = "none"
    BY <2>1 DEF RaidDue
  <2>3. over' # Slots
    BY <2>2 DEF EndedBy
  <2> QED BY <2>1, <2>2, <2>3 DEF HeardInv, AskedFor
<1> QED BY <1>1, <1>3, <1>5, <1>6 DEF HeardInv

LEMMA NextHeeds ==
  ASSUME HeardInv, [Next]_vars
  PROVE  /\ HeardInv'
         /\ record' # record => \A s \in Slots : Canonical(s, record'[tick + 1][s])
         /\ raids' # raids => /\ \E h \in heard : h.kind = Portal
                              /\ ended' \in {"none", "conquest"}
                              /\ over' # Slots
<1>1. CASE \E s \in Slots, t \in {tick - 1, tick}, q \in 0 .. MaxSequence, kind \in Kinds :
             OnAction(s, t, q, kind)
  <2>1. PICK s \in Slots, t \in {tick - 1, tick}, q \in 0 .. MaxSequence, kind \in Kinds :
          OnAction(s, t, q, kind)
    BY <1>1
  <2>2. t \in Int /\ UNCHANGED raids
    BY <2>1 DEF HeardInv, Screened, OnAction
  <2> QED BY <2>1, <2>2, OnActionHeeds
<1>2. CASE Advance
  BY <1>2, AdvanceHeeds
<1>3. CASE UNCHANGED <<tick, assembly, record, mask, heard, portalPending, raids>>
  <2>1. Screened'
    BY <1>3 DEF HeardInv, Screened
  <2>2. Heeded' /\ AskedFor'
    BY <1>3 DEF HeardInv, Heeded, AskedFor, WinnerIsLowest, SilenceIsKnown, Lowest, Legal
  <2> QED BY <1>3, <2>1, <2>2 DEF HeardInv
<1>4. DeadlinePasses \/ AdvanceThrows \/ OnLeave
        => UNCHANGED <<tick, assembly, record, mask, heard, portalPending, raids>>
  BY DEF DeadlinePasses, AdvanceThrows, OnLeave, match, sessions
<1>5. (\E s \in Slots, t \in -1 .. lastTick :
         \E hash \in {Mirror(s, t), Lie} : OnCheckpoint(s, t, hash))
        => UNCHANGED <<tick, assembly, record, mask, heard, portalPending, raids>>
  BY DEF OnCheckpoint, sessions
<1>6. UNCHANGED vars => UNCHANGED <<tick, assembly, record, mask, heard, portalPending, raids>>
  BY DEF vars, match, sessions
<1> QED BY <1>1, <1>2, <1>3, <1>4, <1>5, <1>6 DEF Next

LEMMA InitHeeds == Init => HeardInv
BY InitScreened, NothingHeard DEF Init, HeardInv

\* ordering.ts 30-34.  Whatever order the submissions of a tick arrive in, and
\* whichever are refused, repeated or late, each slot's entry is its lowest
\* legal submission for that tick, or a no-op which says if one was refused.
THEOREM BatchesAreCanonical == Spec => BatchIsCanonical
<1>1. HeardInv /\ [Next]_vars =>
        [record' # record => \A s \in Slots : Canonical(s, record'[tick + 1][s])]_vars
  BY NextHeeds
<1>2. HeardInv /\ [Next]_vars => HeardInv'
  BY NextHeeds
<1> QED BY InitHeeds, <1>1, <1>2, PTL DEF Spec, BatchIsCanonical

\* host.ts 968-996.  A request for a portal is kept until the tick closes and
\* no longer, so that no raid follows a tick in which none was made, and none is
\* fought between universes whose match that tick ended.
THEOREM RaidsFollowRequests == Spec => RaidsAreAskedFor
<1>1. HeardInv /\ [Next]_vars =>
        [raids' # raids => /\ \E h \in heard : h.kind = Portal
                           /\ ended' \in {"none", "conquest"}
                           /\ over' # Slots]_vars
  BY NextHeeds
<1>2. HeardInv /\ [Next]_vars => HeardInv'
  BY NextHeeds
<1> QED BY InitHeeds, <1>1, <1>2, PTL DEF Spec, RaidsAreAskedFor
-----------------------------------------------------------------------------
(* What the record and the raids retell.  Retold is a recursive function   *)
(* of the record, so that it exists has to be shown, and is: with every    *)
(* tick the function of the tick before is extended by one value.          *)

\* f is the function that Retold defines.
Tells(f, s) ==
  f = [n \in 0 .. tick |->
         IF n = 0 THEN <<>>
         ELSE LET log == Append(f[n - 1], record[n][s].kind)
              IN  IF n - 1 \in raids THEN Append(log, Raided) ELSE log]

RetoldInv ==
  /\ Screened
  /\ raids \subseteq 0 .. tick - 1
  /\ \A s \in Slots : \E f : Tells(f, s)
  /\ up => /\ lastHashes = universe
           /\ \A s \in Slots : \A f : Tells(f, s) => f[tick] = universe[s]

LEMMA InitRetold == Init => RetoldInv
<1> SUFFICES ASSUME Init PROVE RetoldInv
  OBVIOUS
<1>1. Screened /\ tick = 0 /\ raids = {} /\ lastHashes = universe
  BY InitScreened DEF Init
<1>2. ASSUME NEW s \in Slots
      PROVE  /\ \E f : Tells(f, s)
             /\ \A f : Tells(f, s) => f[tick] = universe[s]
  <2>1. Tells([n \in 0 .. 0 |-> <<>>], s)
    BY <1>1 DEF Tells
  <2>2. ASSUME NEW f, Tells(f, s)
        PROVE  f[tick] = universe[s]
    <3>1. f[0] = <<>>
      BY <1>1, <2>2 DEF Tells
    <3> QED BY <1>1, <3>1 DEF Init
  <2> QED BY <2>1, <2>2
<1> QED BY <1>1, <1>2 DEF RetoldInv

\* What an advance tells in addition.
LEMMA AdvanceTells ==
  ASSUME RetoldInv, NEW s \in Slots, NEW batch \in [Slots -> Entries],
         record' = Append(record, batch), tick' = tick + 1,
         raids' \in {raids, raids \union {tick}}
  PROVE  /\ \E f : Tells(f, s)'
         /\ \A f : Tells(f, s)' =>
              \E g : /\ Tells(g, s)
                     /\ f[tick + 1] =
                          LET log == Append(g[tick], batch[s].kind)
                          IN  IF tick \in raids' THEN Append(log, Raided) ELSE log
<1> DEFINE next(g) == LET log == Append(g[tick], batch[s].kind)
                      IN  IF tick \in raids' THEN Append(log, Raided) ELSE log
<1>1. tick \in Nat /\ Len(record) = tick /\ record \in Seq([Slots -> Entries])
  BY DEF RetoldInv, Screened
<1>2. record'[tick + 1] = batch /\ \A n \in 1 .. tick : record'[n] = record[n]
  BY <1>1
<1>3. \A n \in 1 .. tick : n - 1 \in raids' <=> n - 1 \in raids
  BY <1>1
<1>4. \E f : Tells(f, s)'
  <2>1. PICK g : Tells(g, s)
    BY DEF RetoldInv
  <2> DEFINE f == [n \in 0 .. tick + 1 |-> IF n \in 0 .. tick THEN g[n] ELSE next(g)]
  <2>2. \A n \in 0 .. tick :
          g[n] = IF n = 0 THEN <<>>
                 ELSE LET log == Append(g[n - 1], record[n][s].kind)
                      IN  IF n - 1 \in raids THEN Append(log, Raided) ELSE log
    BY <2>1 DEF Tells
  <2>3. ASSUME NEW n \in 0 .. tick + 1
        PROVE  f[n] = IF n = 0 THEN <<>>
                      ELSE LET log == Append(f[n - 1], record'[n][s].kind)
                           IN  IF n - 1 \in raids' THEN Append(log, Raided) ELSE log
    <3>1. CASE n = 0
      BY <1>1, <2>2, <3>1
    <3>2. CASE n \in 1 .. tick
      <4>1. f[n] = g[n] /\ f[n - 1] = g[n - 1]
        BY <1>1, <3>2
      <4> QED BY <1>1, <1>2, <1>3, <2>2, <3>2, <4>1
    <3>3. CASE n = tick + 1
      <4>1. f[n] = next(g) /\ f[n - 1] = g[tick]
        BY <1>1, <3>3
      <4> QED BY <1>1, <1>2, <3>3, <4>1
    <3> QED BY <1>1, <3>1, <3>2, <3>3
  <2>4. f = [n \in 0 .. tick + 1 |->
               IF n = 0 THEN <<>>
               ELSE LET log == Append(f[n - 1], record'[n][s].kind)
                    IN  IF n - 1 \in raids' THEN Append(log, Raided) ELSE log]
    BY <2>3
  <2> QED BY <2>4 DEF Tells
<1>5. ASSUME NEW f, Tells(f, s)'
      PROVE  \E g : Tells(g, s) /\ f[tick + 1] = next(g)
  <2> DEFINE g == [n \in 0 .. tick |-> f[n]]
  <2>1. \A n \in 0 .. tick + 1 :
          f[n] = IF n = 0 THEN <<>>
                 ELSE LET log == Append(f[n - 1], record'[n][s].kind)
                      IN  IF n - 1 \in raids' THEN Append(log, Raided) ELSE log
    BY <1>5 DEF Tells
  <2>2. ASSUME NEW n \in 0 .. tick
        PROVE  g[n] = IF n = 0 THEN <<>>
                      ELSE LET log == Append(g[n - 1], record[n][s].kind)
                           IN  IF n - 1 \in raids THEN Append(log, Raided) ELSE log
    <3>1. CASE n = 0
      BY <1>1, <2>1, <3>1
    <3>2. CASE n # 0
      <4>1. n \in 1 .. tick /\ n - 1 \in 0 .. tick /\ n \in 0 .. tick + 1
        BY <1>1, <3>2
      <4>2. g[n] = f[n] /\ g[n - 1] = f[n - 1]
        BY <4>1
      <4> QED BY <1>2, <1>3, <2>1, <3>2, <4>1, <4>2
    <3> QED BY <3>1, <3>2
  <2>3. Tells(g, s)
    BY <2>2 DEF Tells
  <2>4. f[tick + 1] = next(g)
    <3>1. tick + 1 \in 0 .. tick + 1 /\ tick + 1 # 0 /\ (tick + 1) - 1 = tick /\ g[tick] = f[tick]
      BY <1>1
    <3> QED BY <1>2, <2>1, <3>1
  <2> QED BY <2>3, <2>4
<1> QED BY <1>4, <1>5

LEMMA AdvanceRetold ==
  ASSUME RetoldInv, Advance
  PROVE  RetoldInv'
<1> DEFINE batch == Close(assembly)
           u == Applied(batch)
<1>1. Screened' /\ batch \in [Slots -> Entries]
  BY AdvanceScreened, CloseIsTyped DEF RetoldInv, Screened
<1>2. /\ record' = Append(record, batch) /\ tick' = tick + 1
      /\ raids' \in {raids, raids \union {tick}} /\ tick \in Nat
      /\ up
  BY DEF Advance, Ready, Live, RetoldInv, Screened
<1>3. raids' \subseteq 0 .. tick' - 1
  BY <1>2 DEF RetoldInv
<1>4. lastHashes' = universe'
  BY DEF Advance, Raid
<1>5. ASSUME NEW s \in Slots
      PROVE  universe'[s] = LET log == Append(universe[s], batch[s].kind)
                            IN  IF tick \in raids' THEN Append(log, Raided) ELSE log
  <2>1. tick \notin raids
    BY <1>2 DEF RetoldInv
  <2>2. \/ universe' = [x \in Slots |-> Append(u[x], Raided)] /\ raids' = raids \union {tick}
        \/ universe' = u /\ raids' = raids
    BY DEF Advance, Raid
  <2>3. u[s] = Append(universe[s], batch[s].kind)
    BY DEF Applied
  <2> QED BY <2>1, <2>2, <2>3
<1>6. ASSUME NEW s \in Slots
      PROVE  /\ \E f : Tells(f, s)'
             /\ \A f : Tells(f, s)' => f[tick'] = universe'[s]
  <2>1. \E f : Tells(f, s)'
    BY <1>1, <1>2, AdvanceTells
  <2>2. ASSUME NEW f, Tells(f, s)'
        PROVE  f[tick'] = universe'[s]
    <3>1. PICK g : /\ Tells(g, s)
                   /\ f[tick + 1] = LET log == Append(g[tick], batch[s].kind)
                                    IN  IF tick \in raids' THEN Append(log, Raided) ELSE log
      BY <1>1, <1>2, <2>2, AdvanceTells
    <3>2. g[tick] = universe[s]
      BY <1>2, <3>1 DEF RetoldInv
    <3> QED BY <1>2, <1>5, <3>1, <3>2
  <2> QED BY <2>1, <2>2
<1> QED BY <1>1, <1>3, <1>4, <1>6 DEF RetoldInv

LEMMA NextRetold ==
  ASSUME RetoldInv, [Next]_vars
  PROVE  RetoldInv'
<1>1. Screened'
  BY NextScreened DEF RetoldInv
<1>2. CASE /\ UNCHANGED <<tick, record, raids>>
           /\ up' => up /\ UNCHANGED <<universe, lastHashes>>
  <2>1. \A s \in Slots : \A f : Tells(f, s)' <=> Tells(f, s)
    BY <1>2 DEF Tells
  <2> QED BY <1>1, <1>2, <2>1 DEF RetoldInv
<1>3. CASE Advance
  BY <1>3, AdvanceRetold
<1>4. (\E s \in Slots, t \in {tick - 1, tick}, q \in 0 .. MaxSequence, kind \in Kinds :
         OnAction(s, t, q, kind))
        => UNCHANGED <<tick, record, raids, up, universe, lastHashes>>
  BY DEF OnAction, sessions, published
<1>5. DeadlinePasses \/ OnLeave \/ UNCHANGED vars
        => UNCHANGED <<tick, record, raids, up, universe, lastHashes>>
  BY DEF DeadlinePasses, OnLeave, vars, match, sessions, published
<1>6. AdvanceThrows => UNCHANGED <<tick, record, raids>> /\ ~up'
  BY DEF AdvanceThrows, match
<1>7. (\E s \in Slots, t \in -1 .. lastTick :
         \E hash \in {Mirror(s, t), Lie} : OnCheckpoint(s, t, hash))
        => UNCHANGED <<tick, record, raids, up, universe, lastHashes>>
  BY DEF OnCheckpoint, sessions, published
<1> QED BY <1>2, <1>3, <1>4, <1>5, <1>6, <1>7 DEF Next

\* match.ts 186 and raid-resolver.ts.  However many ticks were played and raids
\* fought, whatever came late, and however the match ended, the recorded batches
\* and the raids account for all that was done to each universe, and the hashes
\* the server publishes are of exactly that.
THEOREM RecordAccountsForMatch == Spec => []RecordAndRaidsReproduceMatch
<1>1. ASSUME RetoldInv PROVE RecordAndRaidsReproduceMatch
  <2> SUFFICES ASSUME up, NEW s \in Slots
               PROVE  universe[s] = Retold(s) /\ lastHashes[s] = universe[s]
    BY DEF RecordAndRaidsReproduceMatch
  <2> DEFINE told == CHOOSE f : Tells(f, s)
  <2>1. Tells(told, s)
    BY <1>1 DEF RetoldInv
  <2>2. Retold(s) = told[tick]
    BY DEF Retold, Tells
  <2> QED BY <1>1, <2>1, <2>2 DEF RetoldInv
<1> QED BY InitRetold, NextRetold, <1>1, PTL DEF Spec
=============================================================================
