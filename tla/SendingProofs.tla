---------------------------- MODULE SendingProofs ----------------------------
(* Proofs about Sending: types, one copy at the destination, and that the   *)
(* clients implement Delivery.                                              *)
EXTENDS SendingRefinement, SequenceTheorems, TLAPS

\* No insert of a connection event fails: what the theorems on copies assume.
Honest == MaxUpsets = 0

Seens == {"id", "noid", "text", "lost", "unsent", "barred", "refused", "ambiguous"}
CtxRecords == [revision : Revisions, children : Seq(Revisions), container : Nat,
               route : {"direct", "proxy"}, result : Results]
RowRecords == [status : Statuses, unknown : BOOLEAN, made : 0 .. MaxAttempts]
VariantRecords == [revision : Revisions, children : Seq(Revisions), container : Nat]
RemoteRecords == [parts : SUBSET Revisions, published : BOOLEAN]
ReplyRecords == [seen : Seens, done : Nat, route : {"direct", "proxy"}, upset : BOOLEAN]

-----------------------------------------------------------------------------
(* Replies.                                                                 *)

\* What one dispatch may come to.
LEMMA ExchangeType ==
  ASSUME NEW able
  PROVE  \A x \in Exchange(able) :
           /\ x.seen \in Seens \ {"ambiguous"} /\ x.done \in {0, 1}
           /\ x.done = 1 => able /\ x.seen \in {"id", "noid", "text", "lost"}
           /\ x.seen = "id" => x.done = 1
BY DEF Exchange, Seens

\* What a routed request may come to.
LEMMA RoutedType ==
  ASSUME ctx.route \in {"direct", "proxy"}, NEW write \in BOOLEAN, NEW able
  PROVE  \A r \in Routed(write, able) :
           /\ r \in ReplyRecords /\ ~r.upset
           /\ ctx.route = "proxy" => r.route = "proxy"
           /\ r.seen = "id" => r.done # 0
           /\ write => r.done = 0 \/ (r.done = 1 /\ able
                         /\ r.seen \in {"id", "noid", "text", "ambiguous"})
<1>1. TAKE r \in Routed(write, able)
<1>2. CASE \E x \in Exchange(able) : r = Reply(Seen(write, x.seen), x.done, ctx.route)
  BY <1>2, ExchangeType DEF Reply, Seen, ReplyRecords, Seens
<1>3. CASE \E x \in Exchange(able) : /\ FallsBack(x.seen) /\ ~Repeatable(write, x.seen)
                                     /\ r = Reply(Seen(write, x.seen), x.done, "proxy")
  BY <1>3, ExchangeType DEF Reply, Seen, ReplyRecords, Seens
<1>4. CASE \E x, y \in Exchange(able) :
             /\ FallsBack(x.seen) /\ Repeatable(write, x.seen)
             /\ r = Reply(Seen(write, y.seen), (IF write THEN x.done ELSE 0) + y.done, "proxy")
  <2>1. PICK x, y \in Exchange(able) :
             /\ FallsBack(x.seen) /\ Repeatable(write, x.seen)
             /\ r = Reply(Seen(write, y.seen), (IF write THEN x.done ELSE 0) + y.done, "proxy")
    BY <1>4
  <2>2. (IF write THEN x.done ELSE 0) = 0
    BY <2>1, ExchangeType DEF Repeatable
  <2>3. r = Reply(Seen(write, y.seen), y.done, "proxy")
    BY <2>1, <2>2, ExchangeType
  <2> QED BY <2>3, ExchangeType DEF Reply, Seen, ReplyRecords, Seens
<1> QED BY <1>2, <1>3, <1>4 DEF Routed

\* What the channel client may see.
LEMMA RepliesType ==
  ASSUME TypeOK, NEW write \in BOOLEAN, NEW able
  PROVE  \A r \in Replies(write, able) :
           /\ r \in ReplyRecords
           /\ r.upset => upsets < MaxUpsets
           /\ ctx.route = "proxy" => r.route = "proxy"
           /\ r.seen = "id" => r.done # 0
<1>1. TAKE r \in Replies(write, able)
<1>2. CASE r \in Routed(write, able)
  BY <1>2, RoutedType DEF TypeOK
<1>3. CASE r \in Upset(Routed(write, able))
  <2>1. PICK q \in Routed(write, able) :
          /\ r.done = q.done /\ r.route = q.route /\ upsets < MaxUpsets
          /\ \E s \in {"ambiguous", "barred"} :
               r = [seen |-> s, done |-> q.done, route |-> q.route, upset |-> TRUE]
    BY <1>3 DEF Upset
  <2>2. q \in ReplyRecords /\ (ctx.route = "proxy" => q.route = "proxy")
    BY RoutedType DEF TypeOK
  <2> QED BY <2>1, <2>2 DEF ReplyRecords, Seens
<1>4. CASE \E x \in Exchange(able) : r = Reply(x.seen, x.done, ctx.route)
  BY <1>4, ExchangeType DEF TypeOK, Reply, ReplyRecords, Seens
<1> QED BY <1>2, <1>3, <1>4 DEF Replies

\* Without upsets a request takes effect at most once, and what it saw tells
\* whether it may have.
LEMMA RepliesHonest ==
  ASSUME TypeOK, Honest, NEW able
  PROVE  \A r \in Replies(TRUE, able) :
           /\ ~r.upset
           /\ r.done = 0 \/ (r.done = 1 /\ able
                /\ r.seen \in {"id", "noid", "text", "lost", "ambiguous"})
           /\ r.seen = "id" => r.done = 1
<1>1. TAKE r \in Replies(TRUE, able)
<1>2. CASE r \in Routed(TRUE, able)
  BY <1>2, RoutedType DEF TypeOK
<1>3. CASE r \in Upset(Routed(TRUE, able))
  BY <1>3, SendingAssumption DEF Honest, TypeOK, Upset
<1>4. CASE \E x \in Exchange(able) : r = Reply(x.seen, x.done, ctx.route)
  BY <1>4, ExchangeType DEF Reply
<1> QED BY <1>2, <1>3, <1>4 DEF Replies

-----------------------------------------------------------------------------
(* Types.                                                                   *)

LEMMA ReadType ==
  ASSUME TypeOK, NEW able, NEW r \in Replies(FALSE, able)
  PROVE  r \in ReplyRecords /\ (r.upset => upsets < MaxUpsets)
BY RepliesType

LEMMA WriteType ==
  ASSUME TypeOK, NEW able, NEW r \in Replies(TRUE, able)
  PROVE  /\ r \in ReplyRecords /\ (r.upset => upsets < MaxUpsets)
         /\ r.seen = "id" => r.done # 0
BY RepliesType

LEMMA VerdictType ==
  ASSUME NEW s
  PROVE  /\ Verdict(s) \in {"confirmed", "unknown", "failed"}
         /\ PreparationVerdict(s) \in {"confirmed", "unknown", "failed"}
         /\ PreparationVerdict(s) = "confirmed" => s = "id"
         /\ Verdict(s) = "confirmed" => s = "id"
BY DEF Verdict, PreparationVerdict

LEMMA PostsType ==
  ASSUME posts \in Seq(SUBSET Revisions), NEW n \in Nat, NEW parts \in SUBSET Revisions
  PROVE  PostsAfter(n, parts) \in Seq(SUBSET Revisions)
<1>1. [i \in 1 .. n |-> parts] \in Seq(SUBSET Revisions)
  OBVIOUS
<1>2. posts \o [i \in 1 .. n |-> parts] \in Seq(SUBSET Revisions)
  BY <1>1
<1> QED BY <1>2 DEF PostsAfter

LEMMA RowAfterType ==
  ASSUME TypeOK, NEW result
  PROVE  RowAfter(result) \in RowRecords
BY SendingAssumption DEF TypeOK, RowAfter, RowRecords, Statuses

LEMMA TypeInit == Init => TypeOK
BY SendingAssumption DEF Init, TypeOK, IdleCtx, Revisions, PCs, Results, Statuses

\* The sender's side of TypeOK, and what the sender leaves alone.
Local ==
  /\ pc \in PCs /\ ctx \in CtxRecords
  /\ ctx.container \in 0 .. Len(remote)
  /\ pc \in {"saveContainer", "status", "publish"} => ctx.container # 0

Stored ==
  /\ row \in RowRecords
  /\ variant \in VariantRecords /\ variant.container \in 0 .. Len(remote)

World ==
  /\ card \in Cards
  /\ posts \in Seq(SUBSET Revisions) /\ remote \in Seq(RemoteRecords)
  /\ proxy \in BOOLEAN
  /\ faults \in 0 .. MaxFaults /\ upsets \in 0 .. MaxUpsets

LEMMA TypeParts == TypeOK <=> Local /\ Stored /\ World
BY DEF TypeOK, Local, Stored, World, CtxRecords, RowRecords, VariantRecords, RemoteRecords

LEMMA TypePartsNext == Local' /\ Stored' /\ World' => TypeOK'
BY DEF TypeOK, Local, Stored, World, CtxRecords, RowRecords, VariantRecords, RemoteRecords

\* Ending a call ends with a typed context.
LEMMA ConcludeLocal ==
  ASSUME Local, NEW result \in Results, NEW route \in {"direct", "proxy"},
         Conclude(result, route), Len(remote) <= Len(remote'), remote' \in Seq(RemoteRecords),
         remote \in Seq(RemoteRecords)
  PROVE  Local'
<1>1. pc' = "note" /\ ctx' \in CtxRecords /\ ctx'.container = ctx.container
  BY DEF Local, Conclude, CtxRecords
<1> QED BY <1>1 DEF Local, PCs

\* A request changes upsets by its reply only.
LEMMA CountWorld ==
  ASSUME World, NEW r \in ReplyRecords, r.upset => upsets < MaxUpsets, Count(r)
  PROVE  upsets' \in 0 .. MaxUpsets
BY SendingAssumption DEF World, Count, ReplyRecords

LEMMA TypeStep == TypeOK /\ [Next]_vars => TypeOK'
<1> SUFFICES ASSUME TypeOK, [Next]_vars PROVE Local' /\ Stored' /\ World'
  BY TypePartsNext
<1>0. Local /\ Stored /\ World
  BY TypeParts
<1> USE SendingAssumption
<1>1. CASE FailEarly
  BY <1>0, <1>1, RowAfterType DEF FailEarly, Local, Stored, World
<1>2. CASE Depart
  <2>1. ctx' \in CtxRecords /\ ctx'.container = variant.container
    BY <1>0, <1>2 DEF Depart, Reused, Stored, VariantRecords, CtxRecords, Results
  <2>2. pc' \in PCs /\ (pc' \in {"saveContainer", "status", "publish"} => variant.container # 0)
    BY <1>2 DEF Depart, FirstStep, Reused, PCs
  <2>3. row' \in RowRecords
    BY <1>0, <1>2 DEF Depart, Stored, RowRecords, Statuses
  <2>4. UNCHANGED <<card, variant, posts, remote, proxy, faults, upsets>>
    BY <1>2 DEF Depart
  <2> QED BY <1>0, <2>1, <2>2, <2>3, <2>4 DEF Local, Stored, World
<1>3. CASE Post
  <2>1. PICK r \in Replies(TRUE, Len(posts) < MaxPosts) :
          /\ posts' = PostsAfter(r.done, {ctx.revision})
          /\ Conclude(Verdict(r.seen), r.route) /\ Count(r)
    BY <1>3 DEF Post, PublishTelegram, PublishWebsite, PublishEitaa,
               PublishFallbackWebhook, PostAs
  <2>2. r \in ReplyRecords /\ (r.upset => upsets < MaxUpsets)
    BY WriteType
  <2>3. r.done \in Nat /\ r.route \in {"direct", "proxy"} /\ Verdict(r.seen) \in Results
    BY <2>2, VerdictType DEF ReplyRecords, Results
  <2>4. UNCHANGED <<card, row, variant, remote, proxy, faults>>
    BY <1>3 DEF Post, PublishTelegram, PublishWebsite, PublishEitaa,
               PublishFallbackWebhook, PostAs
  <2>5. Local'
    BY <1>0, <2>1, <2>3, <2>4, ConcludeLocal DEF World
  <2>6. Stored'
    BY <1>0, <2>4 DEF Stored
  <2>7. World'
    <3>1. posts' \in Seq(SUBSET Revisions)
      BY <1>0, <2>1, <2>3, PostsType DEF Local, CtxRecords, World
    <3>2. upsets' \in 0 .. MaxUpsets
      BY <1>0, <2>1, <2>2, CountWorld
    <3> QED BY <1>0, <2>4, <3>1, <3>2 DEF World
  <2> QED BY <2>5, <2>6, <2>7
<1>4. CASE CreateChild
  <2>1. PICK r \in Replies(TRUE, TRUE) :
          /\ Count(r)
          /\ IF r.seen = "id"
             THEN /\ ctx' = [ctx EXCEPT !.children = Append(@, ctx.revision), !.route = r.route]
                  /\ pc' = "saveChild"
             ELSE Conclude(PreparationVerdict(r.seen), r.route)
    BY <1>4 DEF CreateChild
  <2>2. r \in ReplyRecords /\ (r.upset => upsets < MaxUpsets)
    BY WriteType
  <2>3. r.route \in {"direct", "proxy"} /\ PreparationVerdict(r.seen) \in Results
    BY <2>2, VerdictType DEF ReplyRecords, Results
  <2>4. UNCHANGED <<card, row, variant, posts, remote, proxy, faults>>
    BY <1>4 DEF CreateChild
  <2>5. Local'
    <3>1. CASE r.seen = "id"
      <4>1. Append(ctx.children, ctx.revision) \in Seq(Revisions)
        BY <1>0 DEF Local, CtxRecords
      <4>2. ctx' \in CtxRecords /\ ctx'.container = ctx.container
        BY <1>0, <3>1, <4>1, <2>1, <2>3 DEF Local, CtxRecords
      <4> QED BY <1>0, <3>1, <4>2, <2>1, <2>4 DEF Local, PCs
    <3> QED BY <1>0, <3>1, <2>1, <2>3, <2>4, ConcludeLocal DEF World
  <2>6. upsets' \in 0 .. MaxUpsets
    BY <1>0, <2>1, <2>2, CountWorld
  <2> QED BY <1>0, <2>4, <2>5, <2>6 DEF Stored, World
<1>5. CASE SaveChild
  <2>1. UNCHANGED <<card, row, posts, remote, proxy, faults, upsets>>
    BY <1>5 DEF SaveChild
  <2>2. CASE SaveFails
    <3>1. Local'
      BY <1>0, <2>1, <2>2, ConcludeLocal DEF SaveFails, Local, CtxRecords, World, Results
    <3> QED BY <1>0, <2>1, <2>2, <3>1 DEF SaveFails, Stored, World
  <2>3. CASE ~SaveFails
    <3>1. variant' = [variant EXCEPT !.children = ctx.children] /\ pc' = "children" /\ ctx' = ctx
      BY <1>5, <2>3 DEF SaveChild
    <3>2. variant' \in VariantRecords /\ variant'.container = variant.container
      BY <1>0, <3>1 DEF Stored, Local, VariantRecords, CtxRecords
    <3> QED BY <1>0, <2>1, <3>1, <3>2 DEF Local, Stored, World, PCs
  <2> QED BY <2>2, <2>3
<1>6. CASE CheckChildren
  <2>1. PICK r \in Replies(FALSE, TRUE), ready \in BOOLEAN :
          /\ Count(r)
          /\ IF r.seen = "id" /\ ready
             THEN pc' = "container" /\ ctx' = [ctx EXCEPT !.route = r.route]
             ELSE Conclude(IF r.seen = "id" THEN "failed" ELSE PreparationVerdict(r.seen), r.route)
    BY <1>6 DEF CheckChildren
  <2>2. r \in ReplyRecords /\ (r.upset => upsets < MaxUpsets)
    BY ReadType
  <2>3. /\ r.route \in {"direct", "proxy"}
        /\ (IF r.seen = "id" THEN "failed" ELSE PreparationVerdict(r.seen)) \in Results
    BY <2>2, VerdictType DEF ReplyRecords, Results
  <2>4. UNCHANGED <<card, row, variant, posts, remote, proxy, faults>>
    BY <1>6 DEF CheckChildren
  <2>5. Local'
    <3>1. CASE r.seen = "id" /\ ready
      <4>1. ctx' \in CtxRecords /\ ctx'.container = ctx.container
        BY <1>0, <3>1, <2>1, <2>3 DEF Local, CtxRecords
      <4> QED BY <1>0, <3>1, <4>1, <2>1, <2>4 DEF Local, PCs
    <3> QED BY <1>0, <3>1, <2>1, <2>3, <2>4, ConcludeLocal DEF World
  <2>6. upsets' \in 0 .. MaxUpsets
    BY <1>0, <2>1, <2>2, CountWorld
  <2> QED BY <1>0, <2>4, <2>5, <2>6 DEF Stored, World
<1>7. CASE CreateContainer
  <2>1. PICK r \in Replies(TRUE, Len(remote) < MaxContainers) :
          /\ Count(r)
          /\ remote' = IF r.done = 0 THEN remote
                       ELSE Append(remote, [parts |-> Prepared, published |-> FALSE])
          /\ IF r.seen = "id"
             THEN /\ ctx' = [ctx EXCEPT !.container = Len(remote) + 1, !.route = r.route]
                  /\ pc' = "saveContainer"
             ELSE Conclude(PreparationVerdict(r.seen), r.route)
    BY <1>7 DEF CreateContainer
  <2>2. r \in ReplyRecords /\ (r.upset => upsets < MaxUpsets) /\ (r.seen = "id" => r.done # 0)
    BY WriteType
  <2>3. r.route \in {"direct", "proxy"} /\ PreparationVerdict(r.seen) \in Results
    BY <2>2, VerdictType DEF ReplyRecords, Results
  <2>4. UNCHANGED <<card, row, variant, posts, proxy, faults>>
    BY <1>7 DEF CreateContainer
  <2>5. /\ remote' \in Seq(RemoteRecords) /\ Len(remote) <= Len(remote')
        /\ r.done # 0 => Len(remote') = Len(remote) + 1
    <3>1. [parts |-> Prepared, published |-> FALSE] \in RemoteRecords
      BY <1>0 DEF Local, CtxRecords, Prepared, RemoteRecords
    <3> QED BY <1>0, <3>1, <2>1 DEF World
  <2>6. Local'
    <3>1. CASE r.seen = "id"
      <4>0. Len(remote) + 1 \in Nat
        BY <1>0 DEF World
      <4>a. ctx' = [ctx EXCEPT !.container = Len(remote) + 1, !.route = r.route]
            /\ pc' = "saveContainer"
        BY <3>1, <2>1
      <4>b. ctx \in CtxRecords /\ r.route \in {"direct", "proxy"}
        BY <1>0, <2>3 DEF Local
      <4>1. ctx' \in CtxRecords /\ ctx'.container = Len(remote) + 1
        BY <4>0, <4>a, <4>b DEF CtxRecords
      <4>2. Len(remote') = Len(remote) + 1 /\ Len(remote) \in Nat
        BY <1>0, <3>1, <2>2, <2>5 DEF World
      <4> QED BY <3>1, <4>1, <4>2, <2>1 DEF Local, PCs
    <3> QED BY <1>0, <3>1, <2>1, <2>3, <2>5, ConcludeLocal DEF World
  <2>7. upsets' \in 0 .. MaxUpsets
    BY <1>0, <2>1, <2>2, CountWorld
  <2>8. Stored'
    BY <1>0, <2>4, <2>5 DEF Stored, World, VariantRecords
  <2> QED BY <1>0, <2>4, <2>5, <2>6, <2>7, <2>8 DEF World
<1>8. CASE SaveContainer
  <2>1. UNCHANGED <<card, row, posts, remote, proxy, faults, upsets>>
    BY <1>8 DEF SaveContainer
  <2>2. CASE SaveFails
    <3>1. Local'
      BY <1>0, <2>1, <2>2, ConcludeLocal DEF SaveFails, Local, CtxRecords, World, Results
    <3> QED BY <1>0, <2>1, <2>2, <3>1 DEF SaveFails, Stored, World
  <2>3. CASE ~SaveFails
    <3>1. variant' = [variant EXCEPT !.container = ctx.container] /\ pc' = "status" /\ ctx' = ctx
      BY <1>8, <2>3 DEF SaveContainer
    <3>2. variant' \in VariantRecords /\ variant'.container = ctx.container
      BY <1>0, <3>1 DEF Stored, Local, VariantRecords, CtxRecords
    <3>3. pc = "saveContainer"
      BY <1>8 DEF SaveContainer
    <3> QED BY <1>0, <2>1, <3>1, <3>2, <3>3 DEF Local, Stored, World, PCs
  <2> QED BY <2>2, <2>3
<1>9. CASE CheckContainer
  <2> DEFINE verdict(r, ready) ==
               IF r.seen = "id" THEN StatusVerdict(remote[ctx.container].published, ready)
               ELSE PreparationVerdict(r.seen)
  <2>1. PICK r \in Replies(FALSE, TRUE), ready \in BOOLEAN :
          /\ Count(r)
          /\ IF verdict(r, ready) = "ready"
             THEN pc' = "publish" /\ ctx' = [ctx EXCEPT !.route = r.route]
             ELSE Conclude(verdict(r, ready), r.route)
    BY <1>9 DEF CheckContainer
  <2>v. verdict(r, ready) \in Results \cup {"ready"}
    BY VerdictType DEF StatusVerdict, Results
  <2> HIDE DEF verdict
  <2>2. r \in ReplyRecords /\ (r.upset => upsets < MaxUpsets)
    BY ReadType
  <2>3. r.route \in {"direct", "proxy"}
    BY <2>2 DEF ReplyRecords
  <2>4. UNCHANGED <<card, row, variant, posts, remote, proxy, faults>> /\ pc = "status"
    BY <1>9 DEF CheckContainer
  <2>5. Local'
    <3>1. CASE verdict(r, ready) = "ready"
      <4>1. ctx' \in CtxRecords /\ ctx'.container = ctx.container
        BY <1>0, <3>1, <2>1, <2>3 DEF Local, CtxRecords
      <4> QED BY <1>0, <3>1, <4>1, <2>1, <2>4 DEF Local, PCs
    <3>2. CASE verdict(r, ready) # "ready"
      BY <1>0, <3>2, <2>1, <2>v, <2>3, <2>4, ConcludeLocal DEF World
    <3> QED BY <3>1, <3>2
  <2>6. upsets' \in 0 .. MaxUpsets
    BY <1>0, <2>1, <2>2, CountWorld
  <2> QED BY <1>0, <2>4, <2>5, <2>6 DEF Stored, World
<1>10. CASE PublishContainer
  <2>1. PICK r \in Replies(TRUE, ~remote[ctx.container].published) :
          /\ Count(r)
          /\ IF r.done = 0 THEN UNCHANGED <<posts, remote>>
             ELSE /\ posts' = Append(posts, remote[ctx.container].parts)
                  /\ remote' = [remote EXCEPT ![ctx.container].published = TRUE]
          /\ Conclude(Verdict(r.seen), r.route)
    BY <1>10 DEF PublishContainer
  <2>2. r \in ReplyRecords /\ (r.upset => upsets < MaxUpsets)
    BY WriteType
  <2>3. r.route \in {"direct", "proxy"} /\ Verdict(r.seen) \in Results
    BY <2>2, VerdictType DEF ReplyRecords, Results
  <2>4. UNCHANGED <<card, row, variant, proxy, faults>>
    BY <1>10 DEF PublishContainer
  <2>5. /\ posts' \in Seq(SUBSET Revisions) /\ Len(remote') = Len(remote)
        /\ remote' \in Seq(RemoteRecords)
    <3>1. ctx.container \in 1 .. Len(remote)
      BY <1>0, <1>10 DEF PublishContainer, Local, CtxRecords
    <3>2. CASE r.done = 0
      BY <1>0, <3>2, <2>1 DEF World
    <3>3. CASE r.done # 0
      <4>1. remote[ctx.container] \in RemoteRecords
        BY <1>0, <3>1 DEF World
      <4>2. remote[ctx.container].parts \in SUBSET Revisions
        BY <4>1 DEF RemoteRecords
      <4>3. posts' \in Seq(SUBSET Revisions)
        <5>1. posts' = Append(posts, remote[ctx.container].parts)
          BY <3>3, <2>1
        <5>2. posts \in Seq(SUBSET Revisions)
          BY <1>0 DEF World
        <5> QED BY <4>2, <5>1, <5>2
      <4>4. [remote[ctx.container] EXCEPT !.published = TRUE] \in RemoteRecords
        BY <4>1 DEF RemoteRecords
      <4>5. remote' = [remote EXCEPT ![ctx.container] =
                         [remote[ctx.container] EXCEPT !.published = TRUE]]
        BY <3>3, <2>1
      <4>6. remote' \in Seq(RemoteRecords) /\ Len(remote') = Len(remote)
        BY <1>0, <3>1, <4>4, <4>5 DEF World
      <4> QED BY <4>3, <4>6
    <3> QED BY <3>2, <3>3
  <2>6. Local'
    BY <1>0, <2>1, <2>3, <2>5, ConcludeLocal DEF World
  <2>7. upsets' \in 0 .. MaxUpsets
    BY <1>0, <2>1, <2>2, CountWorld
  <2> QED BY <1>0, <2>4, <2>5, <2>6, <2>7 DEF Stored, World
<1>11. CASE Note
  <2>1. row' \in RowRecords
    BY <1>11, RowAfterType DEF Note
  <2>2. Local'
    BY <1>0, <1>11 DEF Note, IdleCtx, Local, World, CtxRecords, PCs, Revisions, Results
  <2> QED BY <1>0, <1>11, <2>1, <2>2 DEF Note, Stored, World
<1>12. CASE HoldUnknown
  BY <1>0, <1>12 DEF HoldUnknown, Local, Stored, World, RowRecords, Statuses
<1>13. CASE Crash
  <2>1. Local'
    BY <1>0, <1>13 DEF Crash, IdleCtx, Local, World, CtxRecords, PCs, Revisions, Results
  <2> QED BY <1>0, <1>13, <2>1 DEF Crash, Stored, World
<1>14. CASE Edit
  <2>1. row' \in RowRecords
    <3>1. PICK unknown \in {row.unknown, FALSE} :
            row' = [row EXCEPT !.status = "held", !.unknown = unknown]
      BY <1>14 DEF Edit
    <3> QED BY <1>0, <3>1 DEF Stored, RowRecords, Statuses
  <2>2. variant' \in VariantRecords /\ variant'.container = 0
    BY <1>0, <1>14 DEF Edit, AfterEdit, Stored, VariantRecords, Revisions
  <2> QED BY <1>0, <1>14, <2>1, <2>2 DEF Edit, Local, Stored, World
<1>15. CASE Withhold
  BY <1>0, <1>15 DEF Withhold, Local, Stored, World, RowRecords, Statuses
<1>16. CASE Resume
  BY <1>0, <1>16 DEF Resume, Local, Stored, World, RowRecords, Statuses
<1>17. CASE SetProxy
  BY <1>0, <1>17 DEF SetProxy, Local, Stored, World
<1>18. CASE UNCHANGED vars
  BY <1>0, <1>18 DEF vars, Local, Stored, World
<1> QED BY <1>1, <1>2, <1>3, <1>4, <1>5, <1>6, <1>7, <1>8, <1>9, <1>10, <1>11, <1>12,
           <1>13, <1>14, <1>15, <1>16, <1>17, <1>18 DEF Next, Sender

\* Values stay in their types.
THEOREM TypeCorrect == Spec => []TypeOK
<1>1. Init => TypeOK
  BY TypeInit
<1>2. TypeOK /\ [Next]_vars => TypeOK'
  BY TypeStep
<1> QED BY <1>1, <1>2, PTL DEF Spec

-----------------------------------------------------------------------------
(* One copy.                                                                *)

\* On the way, before the answer that decides: nothing is at a destination
\* that cannot tell a repeated request.
LEMMA Empty ==
  ASSUME TypeOK, IInv, pc \notin {"idle", "note"}
  PROVE  /\ row.status = "publishing" /\ ~row.unknown /\ ctx.result = "none"
         /\ ctx.revision = variant.revision
         /\ card.channel \in Held => posts = <<>>
<1>1. row.status = "publishing" /\ ctx.revision = variant.revision /\ ctx.result = "none"
  BY DEF IInv, Underway
<1>2. ~row.unknown
  BY <1>1 DEF IInv, Underway
<1> QED BY <1>1, <1>2 DEF IInv, Accountable, Marked

\* A step of the sender that leaves the row and the posts alone.
LEMMA Quiet ==
  ASSUME TypeOK, IInv, pc \notin {"idle", "note"},
         UNCHANGED <<card, row, posts>>, variant'.revision = variant.revision,
         ctx'.result # "confirmed", Underway', Current', Containers'
  PROVE  IInv'
<1>1. row.status = "publishing" /\ (card.channel \in Held => posts = <<>>)
  BY Empty
<1>2. OneCopy' /\ InPlace'
  BY DEF IInv, OneCopy, InPlace
<1>3. Accountable' /\ Receipts'
  BY <1>1 DEF Accountable, Receipts
<1> QED BY <1>2, <1>3 DEF IInv

\* A quiet step that ends the attempt.
LEMMA QuietEnd ==
  ASSUME TypeOK, IInv, pc \notin {"idle", "note"},
         UNCHANGED <<card, row, variant, posts>>,
         NEW result \in {"unknown", "failed"}, NEW route, Conclude(result, route),
         Len(remote) <= Len(remote'),
         \A c \in 1 .. Len(remote) : remote'[c] = remote[c],
         \A c \in 1 .. Len(remote') : remote'[c].published => posts # <<>>
  PROVE  IInv'
<1>1. pc' = "note" /\ ctx'.result = result /\ ctx'.revision = ctx.revision
      /\ ctx'.children = ctx.children /\ ctx'.container = ctx.container
  BY DEF Conclude, TypeOK
<1>2. row.status = "publishing" /\ ~row.unknown /\ ctx.revision = variant.revision
  BY Empty
<1>3. Underway'
  BY <1>1, <1>2 DEF Underway
<1>4. Current'
  <2>1. \A c \in {variant.container, ctx.container} \ {0} : remote'[c] = remote[c]
    BY DEF TypeOK
  <2>2. Current
    BY DEF IInv
  <2> QED
    BY <1>1, <2>1, <2>2 DEF Current, Whole
<1>5. Containers'
  BY DEF Containers
<1> QED BY <1>1, <1>3, <1>4, <1>5, Quiet

\* A request that publishes, answered.
LEMMA Sent ==
  ASSUME TypeOK, IInv, pc \notin {"idle", "note"}, UNCHANGED <<card, row, variant>>,
         NEW result \in Results \ {"none"}, NEW route, Conclude(result, route),
         card.channel \in Held => posts' = posts \/ posts' = <<{variant.revision}>>,
         card.channel # "eitaa" => Len(posts') <= 1,
         posts' # <<>> /\ card.channel \in Held => result \in {"confirmed", "unknown"},
         result = "confirmed" => posts' # <<>>,
         Len(remote') = Len(remote),
         \A c \in 1 .. Len(remote) : remote'[c].parts = remote[c].parts,
         \A c \in 1 .. Len(remote') : remote'[c].published => posts' # <<>>
  PROVE  IInv'
<1>1. pc' = "note" /\ ctx'.result = result /\ ctx'.revision = ctx.revision
      /\ ctx'.children = ctx.children /\ ctx'.container = ctx.container
  BY DEF Conclude, TypeOK, Results
<1>2. /\ row.status = "publishing" /\ ~row.unknown /\ ctx.revision = variant.revision
      /\ card.channel \in Held => posts = <<>>
  BY Empty
<1>3. Underway'
  BY <1>1, <1>2 DEF Underway
<1>4. Current'
  <2>1. \A c \in {variant.container, ctx.container} \ {0} : remote'[c].parts = remote[c].parts
    BY DEF TypeOK
  <2>2. Current
    BY DEF IInv
  <2> QED
    BY <1>1, <2>1, <2>2 DEF Current, Whole
<1>5. Containers'
  BY DEF Containers
<1>6. OneCopy' /\ InPlace'
  <2>0. OneCopy'
    BY DEF OneCopy
  <2>1. CASE posts' = posts \/ card.channel \notin Held
    BY <2>0, <2>1, <1>2 DEF IInv, InPlace
  <2>2. CASE posts' = <<{variant.revision}>>
    <3>1. Len(posts') = 1 /\ posts'[1] = {variant.revision}
      BY <2>2
    <3> QED BY <2>0, <3>1 DEF InPlace
  <2> QED BY <2>1, <2>2
<1>7. Accountable' /\ Receipts'
  BY <1>1, <1>2 DEF Accountable, Receipts
<1> QED BY <1>3, <1>4, <1>5, <1>6, <1>7 DEF IInv

\* What a destination may have, the clients do not call a failure.
LEMMA Admitted ==
  ASSUME card.channel \in Held,
         NEW s \in {"id", "noid", "text", "lost", "ambiguous"}
  PROVE  Verdict(s) \in {"confirmed", "unknown"}
BY DEF Verdict

LEMMA InvInit == Init => IInv
BY DEF Init, IInv, OneCopy, Accountable, Receipts, Underway, Current, InPlace, Containers,
       IdleCtx, Marked, Whole, Cards

LEMMA InvStep ==
  ASSUME TypeOK, IInv, Honest, [Next]_vars
  PROVE  IInv'
<1>1. CASE FailEarly
  <2>1. /\ row'.status \in {"failed", "queued"} /\ ~row'.unknown
        /\ row.status = "queued" /\ pc = "idle" /\ ~row.unknown
        /\ UNCHANGED <<card, variant, pc, ctx, posts, remote>>
    BY <1>1 DEF FailEarly, RowAfter, IInv, Underway
  <2> QED BY <2>1 DEF IInv, OneCopy, Accountable, Receipts, Underway, Current, Whole, InPlace,
                      Containers, Marked
<1>2. CASE Depart
  <2>1. /\ row'.status = "publishing" /\ row'.unknown = row.unknown
        /\ row.status = "queued" /\ pc = "idle" /\ ~row.unknown
        /\ UNCHANGED <<card, variant, posts, remote>>
    BY <1>2 DEF Depart, TypeOK, IInv, Underway
  <2>2. /\ ctx'.revision = variant.revision /\ ctx'.children = variant.children
        /\ ctx'.container = variant.container /\ ctx'.result = "none"
    BY <1>2 DEF Depart, Reused
  <2>3. pc' \notin {"idle", "note"} /\ (pc' # "post" => card.channel = "instagram")
    BY <1>2 DEF Depart, FirstStep
  <2>4. card.channel \in Held => posts = <<>>
    BY <2>1 DEF IInv, Accountable, Marked
  <2>5. Underway'
    BY <2>1, <2>2, <2>3 DEF Underway
  <2>6. Current'
    BY <2>1, <2>2 DEF IInv, Current, Whole
  <2>7. OneCopy' /\ Accountable' /\ Receipts' /\ InPlace' /\ Containers'
    BY <2>1, <2>2, <2>4 DEF IInv, OneCopy, Accountable, Receipts, InPlace, Containers
  <2> QED BY <2>5, <2>6, <2>7 DEF IInv
<1>3. CASE Post
  <2>1. PICK r \in Replies(TRUE, Len(posts) < MaxPosts) :
          /\ posts' = PostsAfter(r.done, {ctx.revision})
          /\ Conclude(Verdict(r.seen), r.route)
    BY <1>3 DEF Post, PublishTelegram, PublishWebsite, PublishEitaa,
               PublishFallbackWebhook, PostAs
  <2>2. UNCHANGED <<card, row, variant, remote>> /\ pc = "post"
    BY <1>3 DEF Post, PublishTelegram, PublishWebsite, PublishEitaa,
               PublishFallbackWebhook, PostAs
  <2>3. /\ r.done = 0 \/ (r.done = 1 /\ r.seen \in {"id", "noid", "text", "lost", "ambiguous"})
        /\ r.seen = "id" => r.done = 1
    BY RepliesHonest
  <2>4. ctx.revision = variant.revision /\ (card.channel \in Held => posts = <<>>)
    BY <2>2, Empty
  <2>5. \/ posts' = posts /\ (r.done = 0 \/ posts # <<>>)
        \/ /\ r.done = 1 /\ ~(card.channel \in Keyed /\ posts # <<>>)
           /\ posts' = posts \o [i \in 1 .. 1 |-> {variant.revision}]
    BY <2>1, <2>3, <2>4 DEF PostsAfter
  <2>l. posts \in Seq(SUBSET Revisions) /\ variant.revision \in Revisions
    BY DEF TypeOK
  <2>a. r.done = 1 => Len(posts') >= 1 /\ posts' # <<>>
    <3>1. CASE posts' = posts /\ posts # <<>>
      BY <2>l, <3>1, EmptySeq
    <3>2. CASE posts' = posts \o [i \in 1 .. 1 |-> {variant.revision}]
      <4>1. Len(posts') = Len(posts) + 1 /\ Len(posts) \in Nat
        BY <2>l, <3>2
      <4> QED BY <4>1
    <3> QED BY <2>5, <3>1, <3>2
  <2>b. card.channel \in Held => posts' = posts \/ posts' = <<{variant.revision}>>
    <3>1. <<>> \o [i \in 1 .. 1 |-> {variant.revision}] = <<{variant.revision}>>
      OBVIOUS
    <3> QED BY <2>4, <2>5, <3>1
  <2>c. card.channel # "eitaa" => Len(posts') <= 1
    <3>1. card.channel # "eitaa" => card.channel \in Keyed \cup Held
      BY SendingAssumption DEF TypeOK, Cards, Keyed, Held, ChannelKinds
    <3>2. CASE posts' = posts
      BY <3>2 DEF IInv, OneCopy
    <3>3. CASE /\ ~(card.channel \in Keyed /\ posts # <<>>) /\ card.channel # "eitaa"
               /\ posts' = posts \o [i \in 1 .. 1 |-> {variant.revision}]
      <4>1. posts = <<>>
        BY <2>4, <3>1, <3>3
      <4> QED BY <3>3, <4>1
    <3> QED BY <2>5, <3>2, <3>3
  <2>7. Verdict(r.seen) \in Results \ {"none"}
        /\ (Verdict(r.seen) = "confirmed" => posts' # <<>>)
    BY <2>3, <2>a, VerdictType DEF Results
  <2>8. posts' # <<>> /\ card.channel \in Held => Verdict(r.seen) \in {"confirmed", "unknown"}
    BY <2>3, <2>4, <2>5, Admitted
  <2>9. \A c \in 1 .. Len(remote') : remote'[c].published => posts' # <<>>
    BY <2>2, <2>3, <2>5, <2>a DEF IInv, Containers
  <2> QED BY <2>1, <2>2, <2>b, <2>c, <2>7, <2>8, <2>9, Sent
<1>4. CASE CreateChild
  <2>1. PICK r \in Replies(TRUE, TRUE) :
             IF r.seen = "id"
             THEN /\ ctx' = [ctx EXCEPT !.children = Append(@, ctx.revision), !.route = r.route]
                  /\ pc' = "saveChild"
             ELSE Conclude(PreparationVerdict(r.seen), r.route)
    BY <1>4 DEF CreateChild
  <2>2. UNCHANGED <<card, row, variant, posts, remote>> /\ pc = "children"
    BY <1>4 DEF CreateChild
  <2>3. CASE r.seen = "id"
    <3>1. /\ ctx'.revision = ctx.revision /\ ctx'.container = ctx.container
          /\ ctx'.result = ctx.result /\ ctx'.children = Append(ctx.children, ctx.revision)
      BY <2>1, <2>3 DEF TypeOK
    <3>2. /\ row.status = "publishing" /\ ctx.result = "none" /\ ctx.revision = variant.revision
      BY <2>2, Empty
    <3>3. Underway'
      BY <2>1, <2>2, <2>3, <3>1, <3>2 DEF IInv, Underway
    <3>4. \A i \in 1 .. Len(ctx'.children) : ctx'.children[i] = variant.revision
      <4>1. ctx.children \in Seq(Revisions) /\ ctx.revision \in Revisions
        BY DEF TypeOK
      <4> QED BY <4>1, <3>1, <3>2 DEF IInv, Current, Whole
    <3>5. Current'
      BY <2>2, <3>1, <3>4 DEF IInv, Current, Whole
    <3>6. Containers'
      BY <2>2 DEF IInv, Containers
    <3> QED BY <2>2, <3>1, <3>2, <3>3, <3>5, <3>6, Quiet
  <2>4. CASE r.seen # "id"
    <3>1. PreparationVerdict(r.seen) \in {"unknown", "failed"}
      BY <2>4, VerdictType
    <3> QED BY <2>1, <2>2, <2>4, <3>1, QuietEnd DEF IInv, Containers, TypeOK
  <2> QED BY <2>3, <2>4
<1>5. CASE SaveChild
  <2>1. UNCHANGED <<card, row, posts, remote>> /\ pc = "saveChild"
    BY <1>5 DEF SaveChild
  <2>2. CASE SaveFails
    BY <2>1, <2>2, QuietEnd DEF SaveFails, IInv, Containers, TypeOK
  <2>3. CASE ~SaveFails
    <3>1. /\ variant'.revision = variant.revision /\ variant'.container = variant.container
          /\ variant'.children = ctx.children /\ pc' = "children" /\ ctx' = ctx
      BY <1>5, <2>3 DEF SaveChild, TypeOK
    <3>2. ctx.result # "confirmed"
      BY <2>1, Empty
    <3>3. Underway' /\ Current' /\ Containers'
      BY <2>1, <3>1 DEF IInv, Underway, Current, Whole, Containers
    <3> QED BY <2>1, <3>1, <3>2, <3>3, Quiet
  <2> QED BY <2>2, <2>3
<1>6. CASE CheckChildren
  <2>1. PICK r \in Replies(FALSE, TRUE), ready \in BOOLEAN :
             IF r.seen = "id" /\ ready
             THEN pc' = "container" /\ ctx' = [ctx EXCEPT !.route = r.route]
             ELSE Conclude(IF r.seen = "id" THEN "failed" ELSE PreparationVerdict(r.seen), r.route)
    BY <1>6 DEF CheckChildren
  <2>2. UNCHANGED <<card, row, variant, posts, remote>> /\ pc = "children"
    BY <1>6 DEF CheckChildren
  <2>3. CASE r.seen = "id" /\ ready
    <3>1. /\ ctx'.revision = ctx.revision /\ ctx'.container = ctx.container
          /\ ctx'.result = ctx.result /\ ctx'.children = ctx.children /\ pc' = "container"
      BY <2>1, <2>3 DEF TypeOK
    <3>2. ctx.result = "none"
      BY <2>2, Empty
    <3>3. Underway' /\ Current' /\ Containers'
      BY <2>2, <3>1, <3>2 DEF IInv, Underway, Current, Whole, Containers
    <3> QED BY <2>2, <3>1, <3>2, <3>3, Quiet
  <2>4. CASE ~(r.seen = "id" /\ ready)
    <3>1. (IF r.seen = "id" THEN "failed" ELSE PreparationVerdict(r.seen)) \in {"unknown", "failed"}
      BY VerdictType
    <3> QED BY <2>1, <2>2, <2>4, <3>1, QuietEnd DEF IInv, Containers, TypeOK
  <2> QED BY <2>3, <2>4
<1>7. CASE CreateContainer
  <2>1. PICK r \in Replies(TRUE, Len(remote) < MaxContainers) :
          /\ remote' = IF r.done = 0 THEN remote
                       ELSE Append(remote, [parts |-> Prepared, published |-> FALSE])
          /\ IF r.seen = "id"
             THEN /\ ctx' = [ctx EXCEPT !.container = Len(remote) + 1, !.route = r.route]
                  /\ pc' = "saveContainer"
             ELSE Conclude(PreparationVerdict(r.seen), r.route)
    BY <1>7 DEF CreateContainer
  <2>2. UNCHANGED <<card, row, variant, posts>> /\ pc = "container"
    BY <1>7 DEF CreateContainer
  <2>3. Prepared = {variant.revision}
    <3>1. ctx.revision = variant.revision
      BY <2>2, Empty
    <3> QED BY <3>1 DEF IInv, Current, Whole, Prepared
  <2>4. /\ Len(remote) <= Len(remote')
        /\ \A c \in 1 .. Len(remote) : remote'[c] = remote[c]
        /\ \A c \in 1 .. Len(remote') : remote'[c].published => posts # <<>>
        /\ r.done # 0 => /\ Len(remote') = Len(remote) + 1
                         /\ remote'[Len(remote) + 1].parts = {variant.revision}
    <3>1. CASE r.done = 0
      BY <3>1, <2>1 DEF IInv, Containers, TypeOK
    <3>2. CASE r.done # 0
      <4>1. remote' = Append(remote, [parts |-> {variant.revision}, published |-> FALSE])
        BY <3>2, <2>1, <2>3
      <4>2. remote \in Seq([parts : SUBSET Revisions, published : BOOLEAN])
            /\ \A c \in 1 .. Len(remote) : remote[c].published => posts # <<>>
        BY DEF TypeOK, IInv, Containers
      <4>3. Len(remote') = Len(remote) + 1 /\ Len(remote) \in Nat
            /\ remote'[Len(remote) + 1] = [parts |-> {variant.revision}, published |-> FALSE]
            /\ \A c \in 1 .. Len(remote) : remote'[c] = remote[c]
        BY <4>1, <4>2
      <4>4. ASSUME NEW c \in 1 .. Len(remote'), remote'[c].published
            PROVE  posts # <<>>
        <5>1. c \in 1 .. Len(remote) \/ c = Len(remote) + 1
          BY <4>3
        <5> QED BY <4>2, <4>3, <4>4, <5>1
      <4> QED BY <4>3, <4>4
    <3> QED BY <3>1, <3>2
  <2>5. CASE r.seen = "id"
    <3>0. r.done # 0
      BY <2>5, WriteType
    <3>1. /\ ctx'.revision = ctx.revision /\ ctx'.container = Len(remote) + 1
          /\ ctx'.result = ctx.result /\ ctx'.children = ctx.children /\ pc' = "saveContainer"
      BY <2>1, <2>5 DEF TypeOK
    <3>2. ctx.result = "none"
      BY <2>2, Empty
    <3>3. Underway' /\ Containers'
      BY <2>2, <2>4, <3>1, <3>2 DEF IInv, Underway, Containers
    <3>4. Current'
      <4>1. variant.container # 0 => remote'[variant.container].parts = {variant.revision}
        <5>1. variant.container # 0 => variant.container \in 1 .. Len(remote)
          BY DEF TypeOK
        <5>2. variant.container # 0 => remote[variant.container].parts = {variant.revision}
          BY DEF IInv, Current
        <5> QED BY <2>4, <5>1, <5>2
      <4> QED BY <2>2, <2>4, <3>0, <3>1, <4>1 DEF IInv, Current, Whole
    <3> QED BY <2>2, <3>1, <3>2, <3>3, <3>4, Quiet
  <2>6. CASE r.seen # "id"
    <3>1. PreparationVerdict(r.seen) \in {"unknown", "failed"}
      BY <2>6, VerdictType
    <3> QED BY <2>1, <2>2, <2>4, <2>6, <3>1, QuietEnd
  <2> QED BY <2>5, <2>6
<1>8. CASE SaveContainer
  <2>1. UNCHANGED <<card, row, posts, remote>> /\ pc = "saveContainer"
    BY <1>8 DEF SaveContainer
  <2>2. CASE SaveFails
    BY <2>1, <2>2, QuietEnd DEF SaveFails, IInv, Containers, TypeOK
  <2>3. CASE ~SaveFails
    <3>1. /\ variant'.revision = variant.revision /\ variant'.children = variant.children
          /\ variant'.container = ctx.container /\ pc' = "status" /\ ctx' = ctx
      BY <1>8, <2>3 DEF SaveContainer, TypeOK
    <3>2. ctx.result # "confirmed"
      BY <2>1, Empty
    <3>3. Underway' /\ Current' /\ Containers'
      BY <2>1, <3>1 DEF IInv, Underway, Current, Whole, Containers
    <3> QED BY <2>1, <3>1, <3>2, <3>3, Quiet
  <2> QED BY <2>2, <2>3
<1>9. CASE CheckContainer
  <2> DEFINE verdict(r, ready) ==
               IF r.seen = "id" THEN StatusVerdict(remote[ctx.container].published, ready)
               ELSE PreparationVerdict(r.seen)
  <2>1. PICK r \in Replies(FALSE, TRUE), ready \in BOOLEAN :
             IF verdict(r, ready) = "ready"
             THEN pc' = "publish" /\ ctx' = [ctx EXCEPT !.route = r.route]
             ELSE Conclude(verdict(r, ready), r.route)
    BY <1>9 DEF CheckContainer
  <2>v. verdict(r, ready) \in {"unknown", "failed", "ready"}
    BY VerdictType DEF StatusVerdict
  <2> HIDE DEF verdict
  <2>2. UNCHANGED <<card, row, variant, posts, remote>> /\ pc = "status"
    BY <1>9 DEF CheckContainer
  <2>3. CASE verdict(r, ready) = "ready"
    <3>1. /\ ctx'.revision = ctx.revision /\ ctx'.container = ctx.container
          /\ ctx'.result = ctx.result /\ ctx'.children = ctx.children /\ pc' = "publish"
      BY <2>1, <2>3 DEF TypeOK
    <3>2. ctx.result = "none"
      BY <2>2, Empty
    <3>3. Underway' /\ Current' /\ Containers'
      BY <2>2, <3>1, <3>2 DEF IInv, Underway, Current, Whole, Containers
    <3> QED BY <2>2, <3>1, <3>2, <3>3, Quiet
  <2>4. CASE verdict(r, ready) # "ready"
    <3>1. verdict(r, ready) \in {"unknown", "failed"} /\ Conclude(verdict(r, ready), r.route)
      BY <2>1, <2>v, <2>4
    <3> QED BY <2>2, <3>1, QuietEnd DEF IInv, Containers, TypeOK
  <2> QED BY <2>3, <2>4
<1>10. CASE PublishContainer
  <2>1. PICK r \in Replies(TRUE, ~remote[ctx.container].published) :
          /\ IF r.done = 0 THEN UNCHANGED <<posts, remote>>
             ELSE /\ posts' = Append(posts, remote[ctx.container].parts)
                  /\ remote' = [remote EXCEPT ![ctx.container].published = TRUE]
          /\ Conclude(Verdict(r.seen), r.route)
    BY <1>10 DEF PublishContainer
  <2>2. UNCHANGED <<card, row, variant>> /\ pc = "publish"
    BY <1>10 DEF PublishContainer
  <2>3. /\ r.done = 0 \/ (r.done = 1 /\ r.seen \in {"id", "noid", "text", "lost", "ambiguous"})
        /\ r.seen = "id" => r.done = 1
    BY RepliesHonest
  <2>4. posts = <<>> /\ card.channel \in Held
    <3>1. card.channel = "instagram"
      BY <2>2 DEF IInv, Underway
    <3> QED BY <2>2, <3>1, Empty DEF Held
  <2>5. ctx.container \in 1 .. Len(remote) /\ remote[ctx.container].parts = {variant.revision}
    BY <2>2 DEF TypeOK, IInv, Current
  <2>6. r.done = 1 => posts' = <<{variant.revision}>> /\ posts' # <<>>
    <3>1. r.done = 1 => posts' = Append(<<>>, {variant.revision})
      BY <2>1, <2>4, <2>5
    <3>2. <<{variant.revision}>> # <<>> /\ Append(<<>>, {variant.revision}) = <<{variant.revision}>>
      OBVIOUS
    <3> QED BY <3>1, <3>2
  <2>7. r.done = 0 => posts' = posts /\ remote' = remote
    BY <2>1
  <2>8. /\ Len(remote') = Len(remote)
        /\ \A c \in 1 .. Len(remote) : remote'[c].parts = remote[c].parts
    <3>1. CASE r.done = 0
      BY <3>1, <2>7
    <3>2. CASE r.done # 0
      <4>1. remote' = [remote EXCEPT ![ctx.container] =
                         [remote[ctx.container] EXCEPT !.published = TRUE]]
        BY <3>2, <2>1
      <4>3. remote \in Seq(RemoteRecords)
        BY TypeParts DEF World
      <4>2. [remote[ctx.container] EXCEPT !.published = TRUE].parts
              = remote[ctx.container].parts
        <5>1. remote[ctx.container] \in RemoteRecords
          BY <2>5, <4>3
        <5> QED BY <5>1 DEF RemoteRecords
      <4> QED BY <2>5, <4>1, <4>2, <4>3
    <3> QED BY <3>1, <3>2
  <2>9. \A c \in 1 .. Len(remote') : remote'[c].published => posts' # <<>>
    <3>1. CASE r.done = 0
      BY <3>1, <2>7 DEF IInv, Containers
    <3> QED BY <3>1, <2>3, <2>6
  <2>10. /\ Verdict(r.seen) \in Results \ {"none"}
         /\ Verdict(r.seen) = "confirmed" => posts' # <<>>
         /\ posts' # <<>> => Verdict(r.seen) \in {"confirmed", "unknown"}
    <3>1. Verdict(r.seen) \in Results \ {"none"}
      BY VerdictType DEF Results
    <3>2. Verdict(r.seen) = "confirmed" => posts' # <<>>
      BY <2>3, <2>6, VerdictType
    <3>3. posts' # <<>> => r.done = 1
      BY <2>3, <2>4, <2>7
    <3> QED BY <2>3, <2>4, <3>1, <3>2, <3>3, Admitted
  <2>11. Len(posts') <= 1
    <3>1. CASE r.done = 0
      <4>1. posts' = <<>>
        BY <3>1, <2>4, <2>7
      <4> QED BY <4>1
    <3>2. CASE r.done = 1
      <4>1. posts' = <<{variant.revision}>>
        BY <3>2, <2>6
      <4> QED BY <4>1
    <3> QED BY <3>1, <3>2, <2>3
  <2> QED BY <2>1, <2>2, <2>3, <2>6, <2>7, <2>8, <2>9, <2>10, <2>11, Sent
<1>11. CASE Note
  <2>1. /\ row'.status = (IF ctx.result = "confirmed" THEN "published"
                          ELSE IF row'.unknown \/ row'.made = MaxAttempts THEN "failed"
                          ELSE "queued")
        /\ row'.unknown = (ctx.result = "unknown")
        /\ pc = "note" /\ pc' = "idle" /\ ctx' = IdleCtx
        /\ UNCHANGED <<card, variant, posts, remote>>
    BY <1>11 DEF Note, RowAfter
  <2>2. row.status = "publishing" /\ ~row.unknown /\ ctx.result # "none"
    BY <2>1 DEF IInv, Underway
  <2>3. Accountable' /\ Receipts'
    <3>1. CASE ctx.result = "failed"
      <4>1. row'.status \in {"failed", "queued"} /\ (card.channel \in Held => posts = <<>>)
        BY <3>1, <2>1, <2>2 DEF IInv, Accountable, Marked
      <4> QED BY <4>1, <2>1 DEF Accountable, Receipts, IdleCtx
    <3>2. CASE ctx.result = "confirmed"
      <4>1. row'.status = "published" /\ posts # <<>>
        BY <3>2, <2>1 DEF IInv, Receipts
      <4> QED BY <4>1, <2>1 DEF Accountable, Receipts, Marked
    <3>3. CASE ctx.result = "unknown"
      <4>1. row'.unknown /\ row'.status = "failed"
        BY <3>3, <2>1
      <4> QED BY <4>1, <2>1 DEF Accountable, Receipts, Marked, IdleCtx
    <3> QED BY <2>2, <3>1, <3>2, <3>3 DEF TypeOK, Results
  <2>4. Underway'
    <3>1. row'.unknown => row'.status = "failed"
      BY <2>1
    <3> QED BY <2>1, <3>1 DEF Underway, IdleCtx
  <2>6. Current'
    BY <2>1 DEF IInv, Current, Whole, IdleCtx
  <2>5. OneCopy' /\ InPlace' /\ Containers'
    BY <2>1, <2>2 DEF IInv, OneCopy, InPlace, Containers
  <2> QED BY <2>3, <2>4, <2>5, <2>6 DEF IInv
<1>12. CASE HoldUnknown
  <2>1. /\ row'.status = "failed" /\ row'.unknown /\ pc = "idle"
        /\ UNCHANGED <<card, variant, pc, ctx, posts, remote>>
    BY <1>12 DEF HoldUnknown, TypeOK
  <2> QED BY <2>1 DEF IInv, OneCopy, Accountable, Receipts, Underway, Current, Whole, InPlace,
                      Containers, Marked, IdleCtx
<1>13. CASE Crash
  <2>1. /\ pc # "idle" /\ pc' = "idle" /\ ctx' = IdleCtx
        /\ UNCHANGED <<card, row, variant, posts, remote>>
    BY <1>13 DEF Crash
  <2>2. row.status = "publishing" /\ ~row.unknown
    BY <2>1 DEF IInv, Underway
  <2>3. Accountable' /\ Receipts' /\ Underway'
    BY <2>1, <2>2 DEF Accountable, Receipts, Underway, IdleCtx
  <2>4. Current' /\ OneCopy' /\ InPlace' /\ Containers'
    BY <2>1, <2>2 DEF IInv, Current, Whole, OneCopy, InPlace, Containers, IdleCtx
  <2> QED BY <2>3, <2>4 DEF IInv
<1>14. CASE Edit
  <2>1. PICK unknown \in {row.unknown, FALSE} :
          /\ unknown # row.unknown => posts = <<>>
          /\ row' = [row EXCEPT !.status = "held", !.unknown = unknown]
    BY <1>14 DEF Edit, Looked
  <2>2. /\ row'.status = "held" /\ row'.unknown = unknown
        /\ variant'.children = <<>> /\ variant'.container = 0
        /\ row.status \in {"held", "queued", "failed"}
        /\ UNCHANGED <<card, pc, ctx, posts, remote>>
    BY <1>14, <2>1 DEF Edit, AfterEdit, Movable, TypeOK
  <2>3. pc = "idle" /\ ctx = IdleCtx
    BY <2>2 DEF IInv, Underway
  <2>4. Accountable' /\ Receipts' /\ Underway'
    BY <2>1, <2>2, <2>3 DEF IInv, Accountable, Receipts, Underway, Marked, IdleCtx
  <2>5. Current' /\ OneCopy' /\ InPlace' /\ Containers'
    BY <2>2, <2>3 DEF IInv, Current, Whole, OneCopy, InPlace, Containers, IdleCtx
  <2> QED BY <2>4, <2>5 DEF IInv
<1>15. CASE Withhold
  <2>1. /\ row'.status = "held" /\ row'.unknown = row.unknown
        /\ row.status \in {"held", "queued", "failed"}
        /\ UNCHANGED <<card, variant, pc, ctx, posts, remote>>
    BY <1>15 DEF Withhold, Movable, TypeOK
  <2> QED BY <2>1 DEF IInv, OneCopy, Accountable, Receipts, Underway, Current, Whole, InPlace,
                      Containers, Marked
<1>16. CASE Resume
  <2>1. /\ row'.status = "queued" /\ row'.unknown = FALSE
        /\ row.status \in {"held", "failed"} /\ (row.unknown => posts = <<>>)
        /\ UNCHANGED <<card, variant, pc, ctx, posts, remote>>
    BY <1>16 DEF Resume, Looked
  <2> QED BY <2>1 DEF IInv, OneCopy, Accountable, Receipts, Underway, Current, Whole, InPlace,
                      Containers, Marked
<1>17. CASE SetProxy
  BY <1>17 DEF SetProxy, IInv, OneCopy, Accountable, Receipts, Underway, Current, Whole, InPlace,
               Containers, Marked
<1>18. CASE UNCHANGED vars
  BY <1>18 DEF vars, IInv, OneCopy, Accountable, Receipts, Underway, Current, Whole, InPlace,
               Containers, Marked
<1> QED BY <1>1, <1>2, <1>3, <1>4, <1>5, <1>6, <1>7, <1>8, <1>9, <1>10, <1>11, <1>12,
           <1>13, <1>14, <1>15, <1>16, <1>17, <1>18 DEF Next, Sender

\* The inductive invariant.
THEOREM Inductive == ASSUME Honest PROVE Spec => []IInv
<1>1. Init => TypeOK /\ IInv
  BY TypeInit, InvInit
<1>2. (TypeOK /\ IInv) /\ [Next]_vars => (TypeOK /\ IInv)'
  BY TypeStep, InvStep
<1> QED BY <1>1, <1>2, PTL DEF Spec

\* Nothing is sent twice, whatever is lost, rerouted, interrupted or retried.
THEOREM Once == ASSUME Honest PROVE Spec => []OneCopy
<1>1. IInv => OneCopy
  BY DEF IInv
<1> QED BY <1>1, Inductive, PTL

\* What is published is of the revision the row shows.
THEOREM ShownAsSent == ASSUME Honest PROVE Spec => []Fresh
<1>1. IInv => Fresh
  BY DEF IInv, InPlace, Fresh
<1> QED BY <1>1, Inductive, PTL

-----------------------------------------------------------------------------
(* Refinement.                                                              *)

LEMMA Short ==
  ASSUME NEW S, NEW s \in Seq(S), s # <<>>, Len(s) <= 1
  PROVE  Len(s) = 1
<1>1. Len(s) \in Nat \ {0}
  BY EmptySeq
<1> QED BY <1>1

LEMMA InitMaps == Init => D!DeliveryInit
BY DEF Init, Cards, Stage, Copies, D!DeliveryInit

\* Where only the sender's own state moves, or the destination is keyed,
\* Delivery stutters.
LEMMA Stutters ==
  ASSUME UNCHANGED card,
         card.channel \notin Held \/ UNCHANGED <<row, posts>>
  PROVE  UNCHANGED D!deliveryVars
BY DEF Stage, Copies, D!deliveryVars

\* A request that publishes either arrives or does nothing.
LEMMA Arrives ==
  ASSUME TypeOK, IInv, pc \notin {"idle", "note"}, UNCHANGED <<card, row>>,
         card.channel \in Held, posts' = posts \/ Len(posts') = 1
  PROVE  [D!DeliveryNext]_(D!deliveryVars)
<1>1. Stage = "inFlight" /\ Stage' = "inFlight" /\ Copies = 0
  BY Empty DEF Stage, Copies
<1>2. Copies' \in {0, 1}
  BY <1>1 DEF Copies
<1> QED BY <1>1, <1>2 DEF D!DeliveryNext, D!Arrive, D!deliveryVars

\* Every step is a step of Delivery or none.
LEMMA NextMaps ==
  ASSUME TypeOK, IInv, Honest, [Next]_vars
  PROVE  [D!DeliveryNext]_(D!deliveryVars)
<1>0. UNCHANGED card
  BY DEF Next, Sender, FailEarly, Depart, Post, PublishTelegram, PublishWebsite, PublishEitaa, PublishFallbackWebhook, PostAs, CreateChild, SaveChild, CheckChildren,
         CreateContainer, SaveContainer, CheckContainer, PublishContainer, Note, HoldUnknown,
         Crash, Edit, Withhold, Resume, SetProxy, vars
<1>a. CASE card.channel \notin Held
  BY <1>0, <1>a, Stutters
<1>b. CASE card.channel \in Held
  <2>0. IInv'
    BY InvStep
  <2>1. CASE CreateChild \/ SaveChild \/ CheckChildren \/ CreateContainer \/ SaveContainer
             \/ CheckContainer \/ Crash \/ SetProxy \/ UNCHANGED vars
    <3>1. UNCHANGED <<row, posts>>
      BY <2>1 DEF CreateChild, SaveChild, CheckChildren, CreateContainer, SaveContainer,
                  CheckContainer, Crash, SetProxy, vars
    <3> QED BY <1>0, <3>1, Stutters
  <2>2. CASE Post \/ PublishContainer
    <3>1. pc \notin {"idle", "note"} /\ UNCHANGED row
      BY <2>2 DEF Post, PublishTelegram, PublishWebsite, PublishEitaa, PublishFallbackWebhook, PostAs,
                  PublishContainer
    <3>2. posts' \in Seq(SUBSET Revisions)
      BY TypeStep DEF TypeOK
    <3>3. posts = <<>>
      BY <1>b, <3>1, Empty
    <3>4. Len(posts') <= 1
      BY <1>b, <1>0, <2>0 DEF IInv, OneCopy, Held
    <3>5. posts' = posts \/ Len(posts') = 1
      BY <3>2, <3>3, <3>4, Short
    <3> QED BY <1>0, <1>b, <3>1, <3>5, Arrives
  <2>3. CASE Depart
    <3>1. /\ row.status = "queued" /\ ~row.unknown /\ UNCHANGED posts
          /\ row'.status = "publishing" /\ row'.unknown = row.unknown
      BY <2>3 DEF Depart, TypeOK, IInv, Underway
    <3> QED BY <1>0, <1>b, <3>1 DEF Stage, Copies, D!DeliveryNext, D!Depart, D!Move
  <2>4. CASE Note
    <3>1. /\ row'.unknown = (ctx.result = "unknown") /\ UNCHANGED posts
          /\ ctx.result = "confirmed" => row'.status = "published"
          /\ ctx.result = "failed" => row'.status \in {"queued", "failed"}
      BY <2>4 DEF Note, RowAfter
    <3>2. row.status = "publishing" /\ ~row.unknown /\ ctx.result # "none"
      BY <2>4 DEF Note, IInv, Underway
    <3>3. Stage = "inFlight"
      BY <1>b, <3>2 DEF Stage
    <3>4. CASE ctx.result = "failed"
      <4>1. posts = <<>>
        BY <1>b, <2>4, <3>2, <3>4 DEF Note, IInv, Accountable, Marked
      <4>2. Copies = 0 /\ Copies' = 0 /\ Stage' \in {"released", "withheld"}
        BY <1>0, <1>b, <3>1, <3>4, <4>1 DEF Stage, Copies
      <4> QED BY <3>3, <4>2 DEF D!DeliveryNext, D!Refuse, D!Move
    <3>5. CASE ctx.result = "confirmed"
      <4>1. posts # <<>> /\ Len(posts) <= 1 /\ posts \in Seq(SUBSET Revisions)
        BY <1>b, <3>5 DEF IInv, Receipts, OneCopy, Held, TypeOK
      <4>2. Len(posts) = 1
        BY <4>1, Short
      <4>3. Copies = 1 /\ Copies' = 1 /\ Stage' = "delivered"
        BY <1>0, <1>b, <3>1, <3>5, <4>2 DEF Stage, Copies
      <4> QED BY <3>3, <4>3 DEF D!DeliveryNext, D!Confirmed, D!Move
    <3>6. CASE ctx.result = "unknown"
      <4>1. row'.status = "failed" /\ row'.unknown
        BY <2>4, <3>6 DEF Note, RowAfter
      <4>2. Copies' = Copies /\ Stage' = "unclear"
        BY <1>0, <1>b, <3>1, <4>1 DEF Stage, Copies
      <4> QED BY <3>3, <4>2 DEF D!DeliveryNext, D!LoseTrack, D!Move
    <3> QED BY <3>2, <3>4, <3>5, <3>6 DEF TypeOK, Results
  <2>5. CASE HoldUnknown
    <3>1. /\ row.status = "publishing" /\ row'.status = "failed" /\ row'.unknown
          /\ UNCHANGED posts /\ ~row.unknown
      BY <2>5 DEF HoldUnknown, TypeOK, IInv, Underway
    <3> QED BY <1>0, <1>b, <3>1 DEF Stage, Copies, D!DeliveryNext, D!LoseTrack, D!Move
  <2>6. CASE FailEarly
    <3>1. /\ row.status = "queued" /\ ~row.unknown /\ UNCHANGED posts
          /\ row'.status \in {"queued", "failed"} /\ ~row'.unknown
      BY <2>6 DEF FailEarly, RowAfter, IInv, Underway
    <3> QED BY <1>0, <1>b, <3>1 DEF Stage, Copies, D!DeliveryNext, D!Decide, D!Move
  <2>7. CASE Edit \/ Withhold \/ Resume
    <3>1. /\ row.status \in {"held", "queued", "failed"} /\ UNCHANGED posts
          /\ row'.status \in {"held", "queued"}
          /\ row.unknown /\ row'.unknown => row'.status = "held"
          /\ ~row.unknown => ~row'.unknown
          /\ row.unknown /\ ~row'.unknown => posts = <<>>
      <4>1. CASE Edit
        BY <4>1 DEF Edit, Movable, Looked, TypeOK
      <4>2. CASE Withhold
        BY <4>2 DEF Withhold, Movable, TypeOK
      <4>3. CASE Resume
        BY <4>3 DEF Resume, Looked, TypeOK
      <4> QED BY <2>7, <4>1, <4>2, <4>3
    <3>2. CASE row.unknown /\ row'.unknown
      BY <1>0, <1>b, <3>1, <3>2 DEF Stage, Copies, D!deliveryVars
    <3>3. CASE row.unknown /\ ~row'.unknown
      BY <1>0, <1>b, <3>1, <3>3 DEF Stage, Copies, D!DeliveryNext, D!Clear, D!Move
    <3>4. CASE ~row.unknown
      BY <1>0, <1>b, <3>1, <3>4 DEF Stage, Copies, D!DeliveryNext, D!Decide, D!Move
    <3> QED BY <3>2, <3>3, <3>4
  <2> QED BY <2>1, <2>2, <2>3, <2>4, <2>5, <2>6, <2>7 DEF Next, Sender
<1> QED BY <1>a, <1>b

\* The clients, the routing and the saved preparation implement Delivery.
THEOREM Implements == ASSUME Honest PROVE Spec => ImplementsDelivery
<1>1. Init => D!DeliveryInit
  BY InitMaps
<1>2. TypeOK /\ IInv /\ [Next]_vars => [D!DeliveryNext]_(D!deliveryVars)
  BY NextMaps
<1> QED BY <1>1, <1>2, TypeCorrect, Inductive, PTL
           DEF Spec, ImplementsDelivery, D!DeliverySpec


-----------------------------------------------------------------------------
(* What is on file.                                                         *)

\* A sender that makes images or a container found no container on file, and
\* knows the images that are; nobody edits beside it.
OnFile ==
  /\ pc # "idle" => row.status = "publishing"
  /\ pc \in {"children", "saveChild", "container"} => variant.container = 0
  /\ pc = "children" => variant.children = ctx.children

LEMMA FileStep == TypeOK /\ OnFile /\ [Next]_vars => OnFile'
<1> SUFFICES ASSUME TypeOK, OnFile, [Next]_vars PROVE OnFile'
  OBVIOUS
<1> USE DEF OnFile
<1>0. /\ row.status \in Statuses
      /\ variant = [revision |-> variant.revision, children |-> variant.children,
                    container |-> variant.container]
  BY DEF TypeOK
<1>1. CASE Depart
  <2>1. pc' = FirstStep /\ row'.status = "publishing" /\ UNCHANGED variant
    BY <1>1 DEF Depart, TypeOK
  <2>2. ctx'.children = variant.children
    BY <1>1 DEF Depart
  <2>3. pc' \in {"children", "container"} => variant.container = 0
    BY <2>1 DEF FirstStep, Reused
  <2>4. pc' # "saveChild"
    BY <2>1 DEF FirstStep
  <2> QED BY <2>1, <2>2, <2>3, <2>4
<1>2. CASE FailEarly \/ HoldUnknown \/ Note \/ Crash
  BY <1>2 DEF FailEarly, HoldUnknown, Note, Crash
<1>3. CASE Post \/ PublishContainer
  <2>1. pc' = "note" /\ pc # "idle" /\ UNCHANGED row
    BY <1>3 DEF Post, PublishTelegram, PublishWebsite, PublishEitaa, PublishFallbackWebhook,
                PostAs, PublishContainer, Conclude
  <2> QED BY <2>1
<1>4. CASE CreateChild \/ CheckChildren
  <2>1. pc = "children" /\ pc' \in {"saveChild", "container", "note"} /\ UNCHANGED <<row, variant>>
    BY <1>4 DEF CreateChild, CheckChildren, Conclude
  <2> QED BY <2>1
<1>5. CASE SaveChild
  <2>1. /\ pc = "saveChild" /\ UNCHANGED row
        /\ \/ pc' = "children" /\ variant' = [variant EXCEPT !.children = ctx.children] /\ UNCHANGED ctx
           \/ pc' = "note"
    BY <1>5 DEF SaveChild, SaveFails, Conclude
  <2> QED BY <1>0, <2>1
<1>6. CASE CreateContainer \/ SaveContainer \/ CheckContainer
  <2>1. pc # "idle" /\ pc' \in {"saveContainer", "status", "publish", "note"} /\ UNCHANGED row
    BY <1>6 DEF CreateContainer, SaveContainer, CheckContainer, SaveFails, Conclude
  <2> QED BY <2>1
<1>7. CASE Edit \/ Withhold \/ Resume
  <2>1. row.status # "publishing" /\ UNCHANGED pc
    BY <1>7 DEF Edit, Withhold, Resume, Movable
  <2> QED BY <2>1
<1>8. CASE SetProxy \/ UNCHANGED vars
  BY <1>8 DEF SetProxy, vars
<1> QED BY <1>1, <1>2, <1>3, <1>4, <1>5, <1>6, <1>7, <1>8 DEF Next, Sender

\* Nothing is prepared that is on file: no container beside a stored one, and
\* no image while an album's images are there (channels/src/index.ts, the
\* instagramContainerId and instagramChildIds it is given and saves).
THEOREM PreparedNotAgain == Spec => PreparedOnce
<1>1. Init => OnFile
  BY DEF Init, OnFile
<1>2. TypeOK /\ OnFile /\ [Next]_vars =>
        [/\ remote' # remote /\ Len(remote') > Len(remote) => variant.container = 0
         /\ pc = "children" /\ pc' = "saveChild" => Len(variant.children) < card.images]_vars
  <2> SUFFICES ASSUME TypeOK, OnFile, Next
               PROVE  /\ remote' # remote /\ Len(remote') > Len(remote) => variant.container = 0
                      /\ pc = "children" /\ pc' = "saveChild" => Len(variant.children) < card.images
    OBVIOUS
  <2>1. remote' # remote => CreateContainer \/ PublishContainer
    BY DEF Next, Sender, FailEarly, Depart, Post, PublishTelegram, PublishWebsite, PublishEitaa,
           PublishFallbackWebhook, PostAs, CreateChild, SaveChild, CheckChildren, SaveContainer,
           CheckContainer, Note, HoldUnknown, Crash, Edit, Withhold, Resume, SetProxy
  <2>4. ASSUME pc = "children", pc' = "saveChild" PROVE Len(variant.children) < card.images
    <3>1. CreateChild
      BY <2>4 DEF Next, Sender, FailEarly, Depart, Post, PublishTelegram, PublishWebsite, PublishEitaa,
           PublishFallbackWebhook, PostAs, CreateContainer, SaveChild, CheckChildren, SaveContainer,
           CheckContainer, PublishContainer, Note, HoldUnknown, Crash, Edit, Withhold, Resume, SetProxy, Conclude
    <3> QED BY <2>4, <3>1 DEF CreateChild, OnFile
  <2>5. remote' # remote /\ Len(remote') > Len(remote) => variant.container = 0
    <3>1. CASE PublishContainer
      <4>1. Len(remote') = Len(remote) /\ Len(remote) \in Nat
        <5>1. remote' = remote \/ remote' = [remote EXCEPT ![ctx.container].published = TRUE]
          BY <3>1 DEF PublishContainer
        <5> QED BY <5>1 DEF TypeOK
      <4> QED BY <4>1
    <3>2. CASE CreateContainer
      BY <3>2 DEF CreateContainer, OnFile
    <3> QED BY <2>1, <3>1, <3>2
  <2> QED BY <2>4, <2>5
<1>3. Spec => []TypeOK
  BY TypeCorrect
<1> QED BY <1>1, <1>2, <1>3, FileStep, PTL DEF Spec, PreparedOnce
=============================================================================
