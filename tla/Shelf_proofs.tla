---------------------------- MODULE Shelf_proofs ----------------------------
(***************************************************************************)
(* Proofs about Shelf, for every set of titles, episodes, channels, videos *)
(* and players, any reports, and any number of operations and restarts.    *)
(***************************************************************************)
EXTENDS Shelf, SequenceTheorems, FiniteSetTheorems, WellFoundedInduction, TLAPS

(***************************************************************************)
(* Least elements: Min of a set of naturals is one of them.                *)
(***************************************************************************)
LEMMA Below == IsWellFoundedOn({p \in Nat \X Nat : p[1] < p[2]}, Nat)
<1> DEFINE R == OpToRel(<, Nat)
<1>1. R = {p \in Nat \X Nat : p[1] < p[2]}
  BY DEF OpToRel
<1> QED BY <1>1, NatLessThanWellFounded

LEMMA NatMin ==
  ASSUME NEW T, T \subseteq Nat, T # {}
  PROVE  \E x \in T : \A y \in T : x <= y
<1> DEFINE R == {p \in Nat \X Nat : p[1] < p[2]}
<1>1. IsWellFoundedOn(R, Nat)
  BY Below
<1>2. \A x, y \in Nat : x < y => <<x, y>> \in R
  OBVIOUS
<1> HIDE DEF R
<1>3. PICK x \in T : \A y \in T : ~ (<<y, x>> \in R)
  BY <1>1, WFMin
<1>4. \A y \in T : ~ (y < x)
  BY <1>3, <1>2
<1> QED BY <1>3, <1>4

LEMMA MinOf ==
  ASSUME NEW T, T \subseteq Nat, T # {}
  PROVE  Min(T) \in T /\ \A y \in T : Min(T) <= y
BY NatMin DEF Min

(***************************************************************************)
(* Sequences: one without its entry i, and the cap on opened videos.       *)
(***************************************************************************)
LEMMA WithoutOne ==
  ASSUME NEW S, NEW s \in Seq(S), NEW i \in 1..Len(s)
  PROVE  /\ Without(s, i) \in Seq(S)
         /\ Len(Without(s, i)) = Len(s) - 1
         /\ \A k \in 1..(Len(s) - 1) :
              Without(s, i)[k] = IF k < i THEN s[k] ELSE s[k + 1]
<1> DEFINE a == SubSeq(s, 1, i - 1)
           b == SubSeq(s, i + 1, Len(s))
<1>1. Len(s) \in Nat /\ i \in Nat /\ i <= Len(s) /\ i >= 1
  OBVIOUS
<1>2. /\ a \in Seq(S) /\ Len(a) = i - 1
      /\ \A k \in 1..(i - 1) : a[k] = s[k]
  <2>1. \A k \in 1..(i - 1) : s[k] \in S
    BY <1>1, ElementOfSeq
  <2>2. /\ a \in Seq(S)
        /\ Len(a) = IF 1 <= i - 1 THEN (i - 1) - 1 + 1 ELSE 0
        /\ \A k \in 1..((i - 1) - 1 + 1) : a[k] = s[1 + k - 1]
    BY <1>1, <2>1, SubSeqProperties
  <2> HIDE DEF a
  <2> QED BY <1>1, <2>2
<1>3. /\ b \in Seq(S) /\ Len(b) = Len(s) - i
      /\ \A k \in 1..(Len(s) - i) : b[k] = s[k + i]
  <2>1. \A k \in (i + 1)..Len(s) : s[k] \in S
    BY <1>1, ElementOfSeq
  <2>2. /\ b \in Seq(S)
        /\ Len(b) = IF i + 1 <= Len(s) THEN Len(s) - (i + 1) + 1 ELSE 0
        /\ \A k \in 1..(Len(s) - (i + 1) + 1) : b[k] = s[(i + 1) + k - 1]
    BY <1>1, <2>1, SubSeqProperties
  <2> HIDE DEF b
  <2>3. \A k \in 1..(Len(s) - i) : b[k] = s[k + i]
    <3> TAKE k \in 1..(Len(s) - i)
    <3>1. (i + 1) + k - 1 = k + i /\ k \in 1..(Len(s) - (i + 1) + 1)
      BY <1>1
    <3> QED BY <2>2, <3>1
  <2> QED BY <1>1, <2>2, <2>3
<1>4. Without(s, i) = a \o b
  BY DEF Without
<1> HIDE DEF a, b
<1>5. /\ a \o b \in Seq(S)
      /\ Len(a \o b) = Len(a) + Len(b)
      /\ \A k \in 1..(Len(a) + Len(b)) :
           (a \o b)[k] = IF k <= Len(a) THEN a[k] ELSE b[k - Len(a)]
  BY <1>2, <1>3, ConcatProperties
<1>6. ASSUME NEW k \in 1..(Len(s) - 1)
      PROVE  (a \o b)[k] = IF k < i THEN s[k] ELSE s[k + 1]
  <2>1. CASE k < i
    BY <1>1, <1>2, <1>3, <1>5, <2>1
  <2>2. CASE ~ (k < i)
    <3>1. k - Len(a) \in 1..(Len(s) - i) /\ (k - Len(a)) + i = k + 1
      BY <1>1, <1>2, <2>2
    <3>2. (a \o b)[k] = b[k - Len(a)]
      BY <1>1, <1>2, <1>3, <1>5, <2>2
    <3> QED BY <1>3, <2>2, <3>1, <3>2
  <2> QED BY <2>1, <2>2
<1> QED BY <1>1, <1>2, <1>3, <1>4, <1>5, <1>6

LEMMA OldestIs ==
  ASSUME NEW s \in Seq(Opening), Len(s) > 0
  PROVE  /\ OldestEntry(s) \in 1..Len(s)
         /\ \A k \in 1..Len(s) : s[OldestEntry(s)].at <= s[k].at
         /\ \A i \in 1..Len(s) :
              (\A k \in 1..Len(s) : s[i].at <= s[k].at) => OldestEntry(s) <= i
<1> DEFINE T == {s[i].at : i \in 1..Len(s)}
           I == {i \in DOMAIN s : \A k \in DOMAIN s : s[i].at <= s[k].at}
<1>1. DOMAIN s = 1..Len(s) /\ Len(s) \in Nat
  OBVIOUS
<1>2. \A i \in 1..Len(s) : s[i].at \in Nat
  <2>1. \A i \in 1..Len(s) : s[i] \in Opening
    BY ElementOfSeq
  <2>2. \A o \in Opening : o.at \in Nat
    BY DEF Opening
  <2> QED BY <2>1, <2>2
<1>3. T \subseteq Nat /\ T # {}
  BY <1>1, <1>2
<1>4. PICK x \in T : \A y \in T : x <= y
  BY <1>3, NatMin
<1>5. PICK i \in 1..Len(s) : x = s[i].at
  BY <1>4
<1>6. i \in I /\ I \subseteq Nat
  BY <1>1, <1>4, <1>5
<1>7. Min(I) \in I /\ \A y \in I : Min(I) <= y
  <2> HIDE DEF I
  <2> QED BY <1>6, MinOf
<1>8. OldestEntry(s) = Min(I)
  BY DEF OldestEntry
<1> QED BY <1>1, <1>7, <1>8

(***************************************************************************)
(* The record of a title keeps its shape through every call.               *)
(***************************************************************************)
Kinds == {None, "movie", "tv"}

LEMMA NoneIsNoNumber == None \notin Nat /\ None \in OptNat /\ 0 \notin Episodes
BY EpisodesAssumption DEF OptNat

LEMMA NewTyped == NewEp \in EpRec /\ NoPos \in Position
BY NoneIsNoNumber DEF NewEp, EpRec, NoPos, Position

LEMMA NewRecTyped == TitleRec(NewRec)
<1>1. EpsOK([e \in {} |-> NewEp])
  BY DEF EpsOK
<1>2. NewRec.eps = [e \in {} |-> NewEp]
  BY DEF NewRec
<1> QED BY <1>1, <1>2, NewTyped, NoneIsNoNumber DEF NewRec, TitleRec

LEMMA TitleFields ==
  ASSUME NEW r, TitleRec(r)
  PROVE  /\ r.kind \in Kinds /\ r.poster \in Posters \cup {None}
         /\ r.fav \in OptNat /\ r.watched \in OptNat /\ r.dropped \in OptNat
         /\ r.touched \in OptNat /\ r.pos \in Position /\ r.aired \in OptNat
         /\ r.hasNext \in BOOLEAN \cup {None} /\ EpsOK(r.eps)
         /\ r.muted \subseteq Numbers \cup {Star}
BY DEF TitleRec, Kinds

LEMMA EpTyped ==
  ASSUME NEW r, TitleRec(r), NEW e
  PROVE  Ep(r, e) \in EpRec
<1>1. EpsOK(r.eps)
  BY TitleFields
<1> QED BY <1>1, NewTyped DEF Ep, EpsOK

LEMMA NewEpsTyped ==
  ASSUME NEW r, TitleRec(r), NEW eps, EpsOK(eps)
  PROVE  TitleRec([r EXCEPT !.eps = eps])
BY DEF TitleRec

LEMMA WithEpTyped ==
  ASSUME NEW r, TitleRec(r), NEW e \in Episodes, NEW ep \in EpRec
  PROVE  TitleRec(WithEp(r, e, ep))
<1> DEFINE eps == [x \in DOMAIN r.eps \cup {e} |-> IF x = e THEN ep ELSE r.eps[x]]
<1>1. EpsOK(r.eps)
  BY TitleFields
<1>2. EpsOK(eps)
  BY <1>1 DEF EpsOK
<1>3. WithEp(r, e, ep) = [r EXCEPT !.eps = eps]
  BY DEF WithEp
<1> HIDE DEF eps
<1> QED BY <1>2, <1>3, NewEpsTyped

LEMMA BeginTyped ==
  ASSUME NEW r, TitleRec(r), NEW n
  PROVE  TitleRec(Begin(r, n))
BY DEF TitleRec, Begin

LEMMA ClearTyped ==
  ASSUME NEW r, TitleRec(r)
  PROVE  TitleRec(ClearUnwatchedPositions(r))
<1> DEFINE eps == [e \in DOMAIN r.eps |->
                     IF r.eps[e].watched # None THEN r.eps[e] ELSE NewEp]
<1>1. EpsOK(r.eps)
  BY TitleFields
<1>2. EpsOK(eps)
  BY <1>1, NewTyped DEF EpsOK
<1>3. ClearUnwatchedPositions(r) = [[r EXCEPT !.pos = NoPos] EXCEPT !.eps = eps]
  BY DEF ClearUnwatchedPositions, TitleRec
<1>4. TitleRec([r EXCEPT !.pos = NoPos])
  BY NewTyped DEF TitleRec
<1> HIDE DEF eps
<1> QED BY <1>2, <1>3, <1>4, NewEpsTyped

LEMMA DropTyped ==
  ASSUME NEW r, TitleRec(r), NEW mutes \in SUBSET (Numbers \cup {Star}), NEW at \in Nat
  PROVE  TitleRec(Drop(r, mutes, at))
<1> DEFINE c == ClearUnwatchedPositions(r)
<1>1. TitleRec(c)
  BY ClearTyped
<1>2. Drop(r, mutes, at) = [c EXCEPT !.dropped = at, !.muted = @ \cup mutes]
  BY DEF Drop
<1>3. at \in OptNat
  BY DEF OptNat
<1> HIDE DEF c
<1> QED BY <1>1, <1>2, <1>3 DEF TitleRec

LEMMA MergeTyped ==
  ASSUME NEW r, TitleRec(r), NEW about \in Abouts
  PROVE  TitleRec(MergeAbout(r, about))
<1>1. /\ OrElse(about.kind, r.kind) \in Kinds
      /\ OrElse(about.aired, r.aired) \in OptNat
      /\ OrElse(about.hasNext, r.hasNext) \in BOOLEAN \cup {None}
      /\ OrElse(r.poster, about.poster) \in Posters \cup {None}
  BY TitleFields DEF OrElse, Abouts, Kinds
<1> DEFINE k == OrElse(about.kind, r.kind)
           a == OrElse(about.aired, r.aired)
           h == OrElse(about.hasNext, r.hasNext)
           p == OrElse(r.poster, about.poster)
<1>2. MergeAbout(r, about) =
        [r EXCEPT !.kind = k, !.aired = a, !.hasNext = h, !.poster = p]
  BY DEF MergeAbout
<1>3. k \in Kinds /\ a \in OptNat /\ h \in BOOLEAN \cup {None} /\ p \in Posters \cup {None}
  BY <1>1
<1> HIDE DEF k, a, h, p
<1> QED BY <1>2, <1>3 DEF TitleRec, Kinds

LEMMA PutPositionTyped ==
  ASSUME NEW r, TitleRec(r), NEW n \in Numbers, NEW pos \in Nat, NEW dur \in OptNat,
         NEW at \in Nat
  PROVE  TitleRec(PutPosition(r, n, pos, dur, at))
<1> DEFINE p == [s |-> pos, dur |-> dur, at |-> at]
           q == [r EXCEPT !.touched = at, !.dropped = None]
           ep == [s |-> pos, dur |-> dur, at |-> at, watched |-> Ep(r, n).watched]
<1>1. TitleRec(q)
  BY NoneIsNoNumber DEF TitleRec, OptNat
<1>2. p \in Position
  BY DEF Position, OptNat
<1>3. Ep(r, n).watched \in OptNat
  BY EpTyped DEF EpRec
<1>4. ep \in EpRec
  BY <1>3 DEF EpRec, OptNat
<1>5. PutPosition(r, n, pos, dur, at) = IF n = 0 THEN [q EXCEPT !.pos = p] ELSE WithEp(q, n, ep)
  BY DEF PutPosition
<1>6. n # 0 => n \in Episodes
  BY DEF Numbers
<1> HIDE DEF p, q, ep
<1>7. TitleRec([q EXCEPT !.pos = p])
  BY <1>1, <1>2 DEF TitleRec
<1> QED BY <1>1, <1>4, <1>5, <1>6, <1>7, WithEpTyped

LEMMA SeenTyped ==
  ASSUME NEW at \in Nat
  PROVE  [NewEp EXCEPT !.watched = at] \in EpRec
BY NewTyped DEF EpRec, OptNat

LEMMA PutWatchedTyped ==
  ASSUME NEW r, TitleRec(r), NEW n \in Numbers, NEW at \in Nat
  PROVE  TitleRec(PutWatched(r, n, at))
<1> DEFINE q == [r EXCEPT !.touched = at]
           ep == [NewEp EXCEPT !.watched = at]
<1>1. TitleRec(q)
  BY DEF TitleRec, OptNat
<1>2. ep \in EpRec
  BY SeenTyped
<1>3. PutWatched(r, n, at) =
        IF n = 0 THEN [q EXCEPT !.watched = at, !.pos = NoPos] ELSE WithEp(q, n, ep)
  BY DEF PutWatched
<1>4. n # 0 => n \in Episodes
  BY DEF Numbers
<1>5. at \in OptNat
  BY DEF OptNat
<1> HIDE DEF q, ep
<1>6. TitleRec([q EXCEPT !.watched = at, !.pos = NoPos])
  BY <1>1, <1>5, NewTyped DEF TitleRec
<1> QED BY <1>1, <1>2, <1>3, <1>4, <1>6, WithEpTyped

LEMMA SetFavTyped ==
  ASSUME NEW r, TitleRec(r), NEW on \in BOOLEAN, NEW p \in Posters, NEW k \in Kinds,
         NEW at \in Nat
  PROVE  TitleRec(SetFav(r, on, p, k, at))
<1> DEFINE f == IF on THEN at ELSE None
           q == OrElse(r.poster, p)
           l == OrElse(r.kind, k)
<1>1. f \in OptNat /\ q \in Posters \cup {None} /\ l \in Kinds
  BY TitleFields DEF OptNat, OrElse
<1>2. SetFav(r, on, p, k, at) = [r EXCEPT !.fav = f, !.poster = q, !.kind = l]
  BY DEF SetFav
<1> HIDE DEF f, q, l
<1> QED BY <1>1, <1>2 DEF TitleRec, Kinds

LEMMA SetWatchedTyped ==
  ASSUME NEW r, TitleRec(r), NEW n \in Numbers, NEW on \in BOOLEAN, NEW at \in Nat
  PROVE  TitleRec(SetWatched(r, n, on, at))
<1> DEFINE seen == [NewEp EXCEPT !.watched = at]
           un == [Ep(r, n) EXCEPT !.watched = None]
           eps == [e \in DOMAIN r.eps |-> seen]
<1>1. seen \in EpRec
  BY SeenTyped
<1>2. un \in EpRec
  BY EpTyped, NoneIsNoNumber DEF EpRec
<1>3. EpsOK(eps)
  BY <1>1, TitleFields DEF EpsOK
<1>4. SetWatched(r, n, on, at) =
        IF n # 0 THEN WithEp(r, n, IF on THEN seen ELSE un)
        ELSE IF on THEN [r EXCEPT !.watched = at, !.pos = NoPos, !.eps = eps]
        ELSE [r EXCEPT !.watched = None]
  BY DEF SetWatched
<1>5. n # 0 => n \in Episodes
  BY DEF Numbers
<1>6. at \in OptNat
  BY DEF OptNat
<1> HIDE DEF seen, un, eps
<1>7. TitleRec([r EXCEPT !.watched = None])
  BY NoneIsNoNumber DEF TitleRec
<1>8. TitleRec([r EXCEPT !.watched = at, !.pos = NoPos, !.eps = eps])
  BY <1>3, <1>6, NewTyped DEF TitleRec
<1>9. (IF on THEN seen ELSE un) \in EpRec
  BY <1>1, <1>2
<1> QED BY <1>4, <1>5, <1>7, <1>8, <1>9, WithEpTyped

(* What a report makes of the record it meets: nothing of a muted job, and else
   a mark, a position, or no more than what the play found out. *)
Base(r, n, about) ==
  LET merged == MergeAbout(r, about)
  IN  IF n = 0 THEN merged ELSE WithEp(merged, n, Ep(merged, n))

LEMMA BaseTyped ==
  ASSUME NEW r, TitleRec(r), NEW n \in Numbers, NEW about \in Abouts
  PROVE  TitleRec(Base(r, n, about))
<1> DEFINE merged == MergeAbout(r, about)
<1>1. TitleRec(merged)
  BY MergeTyped
<1>2. n # 0 => n \in Episodes
  BY DEF Numbers
<1>3. Base(r, n, about) = IF n = 0 THEN merged ELSE WithEp(merged, n, Ep(merged, n))
  BY DEF Base
<1> HIDE DEF merged
<1>4. Ep(merged, n) \in EpRec
  BY <1>1, EpTyped
<1> QED BY <1>1, <1>2, <1>3, <1>4, WithEpTyped

LEMMA ReportTyped ==
  ASSUME NEW p \in Reports
  PROVE  p.pos \in Nat /\ p.dur \in OptNat
BY PlayersAssumption DEF OptNat

LEMMA DurationTyped ==
  ASSUME NEW dur \in OptNat, NEW runtime \in OptNat
  PROVE  EffectiveDuration(dur, runtime) \in OptNat
BY DEF EffectiveDuration

LEMMA NoteCases ==
  ASSUME NEW r, NEW n, NEW p \in Reports, NEW about \in Abouts, NEW at,
         NEW b, b = Base(r, n, about),
         NEW new, new = NoteProgress(r, n, p, about, at)
  PROVE  \/ /\ IsMuted(r, n)
            /\ new = [rec |-> r, dirty |-> FALSE]
         \/ /\ ~IsMuted(r, n)
            /\ new = [rec |-> PutWatched(b, n, at), dirty |-> TRUE]
         \/ /\ ~IsMuted(r, n)
            /\ \E dur \in OptNat :
                 new = [rec |-> PutPosition(b, n, p.pos, dur, at), dirty |-> TRUE]
         \/ /\ ~IsMuted(r, n)
            /\ new = [rec |-> b, dirty |-> MergeAbout(r, about) # r]
<1> DEFINE eff == EffectiveDuration(p.dur, about.runtime)
           usable == eff # None /\ eff # 0
           over == p.state = "ended" \/ (usable /\ DoneRatio(p.pos, eff))
<1>1. about.runtime \in OptNat
  BY DEF Abouts
<1>2. eff \in OptNat /\ 0 \in OptNat
  BY <1>1, ReportTyped, DurationTyped DEF OptNat
<1>3. new =
        IF IsMuted(r, n) THEN [rec |-> r, dirty |-> FALSE]
        ELSE IF over THEN [rec |-> PutWatched(b, n, at), dirty |-> TRUE]
        ELSE IF ~usable THEN [rec |-> PutPosition(b, n, p.pos, 0, at), dirty |-> TRUE]
        ELSE IF p.pos < ResumeMin THEN [rec |-> b, dirty |-> MergeAbout(r, about) # r]
        ELSE [rec |-> PutPosition(b, n, p.pos, eff, at), dirty |-> TRUE]
  BY DEF NoteProgress, Base
<1> HIDE DEF eff, usable, over
<1>4. CASE IsMuted(r, n)
  BY <1>3, <1>4
<1>5. CASE ~IsMuted(r, n) /\ over
  BY <1>3, <1>5
<1>6. CASE ~IsMuted(r, n) /\ ~over /\ ~usable
  BY <1>2, <1>3, <1>6
<1>7. CASE ~IsMuted(r, n) /\ ~over /\ usable /\ p.pos < ResumeMin
  BY <1>3, <1>7
<1>8. CASE ~IsMuted(r, n) /\ ~over /\ usable /\ ~(p.pos < ResumeMin)
  BY <1>2, <1>3, <1>8
<1> QED BY <1>4, <1>5, <1>6, <1>7, <1>8

LEMMA NoteTyped ==
  ASSUME NEW r, TitleRec(r), NEW n \in Numbers, NEW p \in Reports, NEW about \in Abouts,
         NEW at \in Nat
  PROVE  /\ TitleRec(NoteProgress(r, n, p, about, at).rec)
         /\ NoteProgress(r, n, p, about, at).dirty \in BOOLEAN
<1> DEFINE b == Base(r, n, about)
           new == NoteProgress(r, n, p, about, at)
<1>1. TitleRec(b)
  BY BaseTyped
<1>0. b = Base(r, n, about) /\ new = NoteProgress(r, n, p, about, at)
  OBVIOUS
<1> HIDE DEF b, new
<1>2. \/ /\ IsMuted(r, n)
         /\ new = [rec |-> r, dirty |-> FALSE]
      \/ /\ ~IsMuted(r, n)
         /\ new = [rec |-> PutWatched(b, n, at), dirty |-> TRUE]
      \/ /\ ~IsMuted(r, n)
         /\ \E dur \in OptNat :
              new = [rec |-> PutPosition(b, n, p.pos, dur, at), dirty |-> TRUE]
      \/ /\ ~IsMuted(r, n)
         /\ new = [rec |-> b, dirty |-> MergeAbout(r, about) # r]
  BY <1>0, NoteCases
<1>3. p.pos \in Nat
  BY ReportTyped
<1>4. TitleRec(PutWatched(b, n, at))
  BY <1>1, PutWatchedTyped
<1>5. \A dur \in OptNat : TitleRec(PutPosition(b, n, p.pos, dur, at))
  BY <1>1, <1>3, PutPositionTyped
<1>6. TitleRec(new.rec)
  <2>1. CASE new = [rec |-> r, dirty |-> FALSE]
    BY <2>1
  <2>2. CASE new = [rec |-> PutWatched(b, n, at), dirty |-> TRUE]
    <3>1. new.rec = PutWatched(b, n, at)
      BY <2>2
    <3> QED BY <1>4, <3>1
  <2>3. CASE \E dur \in OptNat :
               new = [rec |-> PutPosition(b, n, p.pos, dur, at), dirty |-> TRUE]
    <3>1. PICK dur \in OptNat : new.rec = PutPosition(b, n, p.pos, dur, at)
      BY <2>3
    <3> QED BY <1>5, <3>1
  <2>4. CASE new = [rec |-> b, dirty |-> MergeAbout(r, about) # r]
    <3>1. new.rec = b
      BY <2>4
    <3> QED BY <1>1, <3>1
  <2> QED BY <1>2, <2>1, <2>2, <2>3, <2>4
<1>7. new.dirty \in BOOLEAN
  <2>1. \/ new.dirty = FALSE
        \/ new.dirty = TRUE
        \/ new.dirty = (MergeAbout(r, about) # r)
    BY <1>2
  <2> QED BY <2>1
<1> QED BY <1>6, <1>7 DEF new

(***************************************************************************)
(* The record of a channel.                                                *)
(***************************************************************************)
LEMMA NewChannelTyped == ChannelRec(NewChannel)
<1>1. <<>> \in Seq(Opening) /\ Len(<<>>) = 0
  OBVIOUS
<1>2. 0 <= OpenedCap
  BY ChannelAssumption
<1> QED BY <1>1, <1>2, NoneIsNoNumber DEF NewChannel, ChannelRec, ChannelSet

LEMMA ChannelFields ==
  ASSUME NEW ch, ChannelRec(ch)
  PROVE  /\ ch.opened \in Seq(Opening) /\ Len(ch.opened) <= OpenedCap
         /\ Len(ch.opened) \in Nat
         /\ ch.snap \in {None, "snap"} /\ ch.follow \in OptNat /\ ch.seen \in OptNat
BY DEF ChannelRec, ChannelSet

LEMMA FollowTyped ==
  ASSUME NEW ch, ChannelRec(ch), NEW on \in BOOLEAN, NEW snap \in {None, "snap"},
         NEW at \in Nat
  PROVE  ChannelRec(Follow(ch, on, snap, at))
<1> DEFINE f == IF on THEN at ELSE None
           s == IF on THEN at ELSE ch.seen
           p == OrElse(snap, ch.snap)
<1>1. f \in OptNat /\ s \in OptNat /\ p \in {None, "snap"}
  BY ChannelFields DEF OptNat, OrElse
<1>2. Follow(ch, on, snap, at) = [ch EXCEPT !.follow = f, !.seen = s, !.snap = p]
  BY DEF Follow
<1> HIDE DEF f, s, p
<1> QED BY <1>1, <1>2 DEF ChannelRec, ChannelSet

LEMMA LatestTyped ==
  ASSUME NEW ch, ChannelRec(ch), NEW videos \in SUBSET Vids, NEW at \in Nat
  PROVE  ChannelRec(SetLatest(ch, videos, at))
BY DEF ChannelRec, ChannelSet, SetLatest, OptNat

LEMMA SnapTyped ==
  ASSUME NEW ch, ChannelRec(ch), NEW snap \in {None, "snap"}
  PROVE  ChannelRec(SetSnap(ch, snap))
<1>1. OrElse(snap, ch.snap) \in {None, "snap"}
  BY ChannelFields DEF OrElse
<1> QED BY <1>1 DEF ChannelRec, ChannelSet, SetSnap

LEMMA ChannelSeenTyped ==
  ASSUME NEW ch, ChannelRec(ch), NEW at \in Nat
  PROVE  ChannelRec(Seen(ch, at))
BY DEF ChannelRec, ChannelSet, Seen, OptNat

(* What opening or forgetting a video makes of the table of the opened. *)
LEMMA OpenedCases ==
  ASSUME NEW ch, ChannelRec(ch), NEW v \in Vids, NEW on \in BOOLEAN, NEW at \in Nat,
         NEW s, s = ch.opened,
         NEW e, e = [vid |-> v, at |-> at],
         NEW new, new = VideoOpened(ch, v, on, at)
  PROVE  /\ new = [ch EXCEPT !.opened = new.opened]
         /\ \/ /\ on /\ \E i \in 1..Len(s) : s[i].vid = v
               /\ new.opened \in Seq(Opening) /\ Len(new.opened) = Len(s)
               /\ \A i \in 1..Len(s) :
                    new.opened[i] = IF s[i].vid = v THEN e ELSE s[i]
            \/ /\ on /\ Len(s) < OpenedCap
               /\ new.opened = Append(s, e)
            \/ /\ on /\ Len(s) = OpenedCap
               /\ new.opened = Without(Append(s, e), OldestEntry(Append(s, e)))
            \/ ~on /\ new.opened = s
            \/ ~on /\ \E i \in 1..Len(s) : new.opened = Without(s, i)
<1> DEFINE found == {i \in DOMAIN s : s[i].vid = v}
           put == [i \in DOMAIN s |-> IF i \in found THEN e ELSE s[i]]
           o == IF on THEN IF found = {} THEN Capped(Append(s, e)) ELSE put
                ELSE IF found = {} THEN s ELSE Without(s, CHOOSE i \in found : TRUE)
<1>1. /\ s \in Seq(Opening) /\ Len(s) <= OpenedCap /\ Len(s) \in Nat
      /\ DOMAIN s = 1..Len(s)
  BY ChannelFields
<1>2. new = [ch EXCEPT !.opened = o]
  BY DEF VideoOpened
<1>3. e \in Opening /\ OpenedCap \in Nat
  BY ChannelAssumption DEF Opening
<1>4. Append(s, e) \in Seq(Opening) /\ Len(Append(s, e)) = Len(s) + 1
  BY <1>1, <1>3, AppendProperties
<1>5. new.opened = o
  <2> HIDE DEF o
  <2> QED BY <1>2 DEF ChannelRec, ChannelSet
<1>6. CASE on /\ found = {}
  <2>1. o = IF Len(s) + 1 > OpenedCap
            THEN Without(Append(s, e), OldestEntry(Append(s, e))) ELSE Append(s, e)
    BY <1>4, <1>6 DEF Capped
  <2> HIDE DEF o, found, put
  <2> QED BY <1>1, <1>2, <1>3, <1>5, <1>6, <2>1
<1>7. CASE on /\ found # {}
  <2>1. o = put
    BY <1>7
  <2>2. put \in Seq(Opening) /\ Len(put) = Len(s)
    <3>1. \A i \in 1..Len(s) : put[i] \in Opening
      BY <1>1, <1>3, ElementOfSeq
    <3>2. put \in [1..Len(s) -> Opening]
      BY <1>1, <3>1
    <3> HIDE DEF put
    <3> QED BY <1>1, <3>2
  <2>3. \A i \in 1..Len(s) : put[i] = IF s[i].vid = v THEN e ELSE s[i]
    BY <1>1
  <2>4. \E i \in 1..Len(s) : s[i].vid = v
    BY <1>1, <1>7
  <2> HIDE DEF o, found, put
  <2> QED BY <1>2, <1>5, <1>7, <2>1, <2>2, <2>3, <2>4
<1>8. CASE ~on /\ found = {}
  <2>1. o = s
    BY <1>8
  <2> HIDE DEF o, found, put
  <2> QED BY <1>2, <1>5, <1>8, <2>1
<1>9. CASE ~on /\ found # {}
  <2>1. o = Without(s, CHOOSE i \in found : TRUE)
    BY <1>9
  <2>2. (CHOOSE i \in found : TRUE) \in 1..Len(s)
    BY <1>1, <1>9
  <2> HIDE DEF o, found, put
  <2> QED BY <1>2, <1>5, <1>9, <2>1, <2>2
<1> QED BY <1>6, <1>7, <1>8, <1>9

LEMMA OpenedTyped ==
  ASSUME NEW ch, ChannelRec(ch), NEW v \in Vids, NEW on \in BOOLEAN, NEW at \in Nat
  PROVE  ChannelRec(VideoOpened(ch, v, on, at))
<1> DEFINE s == ch.opened
           e == [vid |-> v, at |-> at]
           new == VideoOpened(ch, v, on, at)
<1>1. s \in Seq(Opening) /\ Len(s) <= OpenedCap /\ Len(s) \in Nat
  BY ChannelFields
<1>2. e \in Opening /\ OpenedCap \in Nat
  BY ChannelAssumption DEF Opening
<1>3. /\ new = [ch EXCEPT !.opened = new.opened]
      /\ \/ /\ on /\ \E i \in 1..Len(s) : s[i].vid = v
            /\ new.opened \in Seq(Opening) /\ Len(new.opened) = Len(s)
            /\ \A i \in 1..Len(s) :
                 new.opened[i] = IF s[i].vid = v THEN e ELSE s[i]
         \/ /\ on /\ Len(s) < OpenedCap
            /\ new.opened = Append(s, e)
         \/ /\ on /\ Len(s) = OpenedCap
            /\ new.opened = Without(Append(s, e), OldestEntry(Append(s, e)))
         \/ ~on /\ new.opened = s
         \/ ~on /\ \E i \in 1..Len(s) : new.opened = Without(s, i)
  BY OpenedCases
<1> HIDE DEF s, e, new
<1>4. new.opened \in Seq(Opening) /\ Len(new.opened) <= OpenedCap
  <2>1. Append(s, e) \in Seq(Opening) /\ Len(Append(s, e)) = Len(s) + 1
    BY <1>1, <1>2, AppendProperties
  <2>2. LET a == Append(s, e) IN
          Without(a, OldestEntry(a)) \in Seq(Opening) /\ Len(Without(a, OldestEntry(a))) = Len(s)
    <3> DEFINE a == Append(s, e)
    <3> HIDE DEF a
    <3>1. a \in Seq(Opening) /\ Len(a) = Len(s) + 1 /\ Len(a) > 0
      BY <1>1, <2>1 DEF a
    <3>2. OldestEntry(a) \in 1..Len(a)
      BY <3>1, OldestIs
    <3>3. Without(a, OldestEntry(a)) \in Seq(Opening)
          /\ Len(Without(a, OldestEntry(a))) = Len(a) - 1
      BY <3>1, <3>2, WithoutOne
    <3> QED BY <1>1, <3>1, <3>3 DEF a
  <2>3. \A i \in 1..Len(s) : Without(s, i) \in Seq(Opening) /\ Len(Without(s, i)) = Len(s) - 1
    BY <1>1, WithoutOne
  <2> DEFINE fresh == Append(s, e)
             capped == Without(fresh, OldestEntry(fresh))
  <2>4. fresh \in Seq(Opening) /\ Len(fresh) = Len(s) + 1
    BY <2>1
  <2>5. capped \in Seq(Opening) /\ Len(capped) = Len(s)
    BY <2>2
  <2>6. \/ new.opened \in Seq(Opening) /\ Len(new.opened) = Len(s)
        \/ new.opened = fresh /\ Len(s) < OpenedCap
        \/ new.opened = capped
        \/ new.opened = s
        \/ \E i \in 1..Len(s) : new.opened = Without(s, i)
    BY <1>3
  <2> HIDE DEF fresh, capped
  <2> QED BY <1>1, <1>2, <2>3, <2>4, <2>5, <2>6
<1>5. ChannelRec(new)
  BY <1>3, <1>4 DEF ChannelRec, ChannelSet
<1> QED BY <1>5 DEF new

(***************************************************************************)
(* What a step may do to the table and to its file: nothing; a save; a     *)
(* call on the record of one title, or of one channel; a restart.          *)
(***************************************************************************)
Quiet ==
  /\ UNCHANGED <<mem, dirty, disk, lastSave, watchedAt, restarts>>
  /\ now' \in {now, now + 1}

SaveStep ==
  /\ \E force \in BOOLEAN : Save(force)
  /\ UNCHANGED <<watchedAt, restarts, now>>

Marked(t, rec) ==
  /\ dirty' = TRUE
  /\ \/ \E on \in BOOLEAN, p \in Posters, k \in Kinds : rec = SetFav(Title(t), on, p, k, now)
     \/ \E n \in Numbers, on \in BOOLEAN : rec = SetWatched(Title(t), n, on, now)
     \/ \E mutes \in SUBSET (Numbers \cup {Star}) : rec = Drop(Title(t), mutes, now)
     \/ \E n \in Numbers : rec = Begin(Title(t), n)

Reported(t, rec) ==
  \E d \in Devices :
    /\ beats[d] # None /\ beats[d].job[1] = t /\ Note(d)
    /\ rec = NoteProgress(Title(t), beats[d].job[2], beats[d].report, beats[d].about, now).rec
    /\ IF NoteProgress(Title(t), beats[d].job[2], beats[d].report, beats[d].about, now).dirty
       THEN dirty' = TRUE ELSE dirty' = dirty

TitleStep ==
  /\ UNCHANGED <<disk, lastSave, restarts, now>>
  /\ \E t \in Titles : \E rec : SetTitle(t, rec) /\ (Marked(t, rec) \/ Reported(t, rec))

ChannelCall(c, rec) ==
  \/ rec = Seen(Channel(c), now)
  \/ \E v \in Vids, on \in BOOLEAN : rec = VideoOpened(Channel(c), v, on, now)
  \/ \E on \in BOOLEAN, snap \in {None, "snap"} : rec = Follow(Channel(c), on, snap, now)
  \/ \E videos \in SUBSET Vids : rec = SetLatest(Channel(c), videos, now)
  \/ \E videos \in SUBSET Vids : rec = SetSnap(SetLatest(Channel(c), videos, now), "snap")
  \/ rec = SetSnap(Channel(c), "snap")

ChannelStep ==
  /\ UNCHANGED <<disk, lastSave, restarts, now>>
  /\ dirty' = TRUE
  /\ \E c \in Channels : \E rec : SetChannel(c, rec) /\ ChannelCall(c, rec)

LEMMA JobsAreOfTitles ==
  ASSUME NEW j \in JobSet
  PROVE  j[1] \in Titles /\ j[2] \in Numbers
BY DEF JobSet, Titles, Numbers

LEMMA ViewerSteps ==
  ASSUME TypeOK, NEW c \in Callers,
         \/ PostFav(c) \/ PostWatched(c) \/ PostDrop(c)
         \/ PostFollow(c) \/ PostSeen(c) \/ PostOpened(c)
  PROVE  TitleStep \/ ChannelStep
<1>1. CASE PostFav(c)
  <2>1. PICK t \in Titles, on \in BOOLEAN, p \in Posters :
          \E k \in {None, Kind(t)} : TitleAct(c, t, SetFav(Title(t), on, p, k, now))
    BY <1>1 DEF PostFav
  <2>2. PICK k \in {None, Kind(t)} : TitleAct(c, t, SetFav(Title(t), on, p, k, now))
    BY <2>1
  <2>3. k \in Kinds
    BY DEF Kind, Kinds
  <2> DEFINE rec == SetFav(Title(t), on, p, k, now)
  <2>4. /\ SetTitle(t, rec) /\ dirty' = TRUE
        /\ UNCHANGED <<disk, lastSave, restarts, now>>
    BY <2>2 DEF TitleAct, Act, Changed, file, clock
  <2>5. Marked(t, rec)
    BY <2>3, <2>4 DEF Marked
  <2> HIDE DEF rec
  <2> QED BY <2>4, <2>5 DEF TitleStep
<1>2. CASE PostWatched(c)
  <2>1. PICK t \in Titles, n \in Numbers, on \in BOOLEAN :
          TitleAct(c, t, SetWatched(Title(t), n, on, now))
    BY <1>2 DEF PostWatched
  <2> DEFINE rec == SetWatched(Title(t), n, on, now)
  <2>2. /\ SetTitle(t, rec) /\ dirty' = TRUE
        /\ UNCHANGED <<disk, lastSave, restarts, now>>
    BY <2>1 DEF TitleAct, Act, Changed, file, clock
  <2>3. Marked(t, rec)
    BY <2>2 DEF Marked
  <2> HIDE DEF rec
  <2> QED BY <2>2, <2>3 DEF TitleStep
<1>3. CASE PostDrop(c)
  <2>1. PICK t \in Titles, mutes \in SUBSET (Numbers \cup {Star}) :
          TitleAct(c, t, Drop(Title(t), mutes, now))
    <3>1. CASE \E t \in Titles : TitleAct(c, t, Drop(Title(t), {0, Star}, now))
      BY <3>1 DEF Numbers
    <3>2. CASE \E j \in JobSet : TitleAct(c, j[1], Drop(Title(j[1]), {j[2]}, now))
      <4>1. PICK j \in JobSet : TitleAct(c, j[1], Drop(Title(j[1]), {j[2]}, now))
        BY <3>2
      <4>2. j[1] \in Titles /\ {j[2]} \in SUBSET (Numbers \cup {Star})
        BY JobsAreOfTitles
      <4> QED BY <4>1, <4>2
    <3> QED BY <1>3, <3>1, <3>2 DEF PostDrop
  <2> DEFINE rec == Drop(Title(t), mutes, now)
  <2>2. /\ SetTitle(t, rec) /\ dirty' = TRUE
        /\ UNCHANGED <<disk, lastSave, restarts, now>>
    BY <2>1 DEF TitleAct, Act, Changed, file, clock
  <2>3. Marked(t, rec)
    BY <2>2 DEF Marked
  <2> HIDE DEF rec
  <2> QED BY <2>2, <2>3 DEF TitleStep
<1>4. CASE PostFollow(c) \/ PostSeen(c) \/ PostOpened(c)
  <2>1. PICK ch \in Channels : \E rec : ChannelAct(c, ch, rec) /\ ChannelCall(ch, rec)
    <3>1. CASE PostFollow(c)
      BY <3>1 DEF PostFollow, ChannelCall
    <3>2. CASE PostSeen(c)
      BY <3>2 DEF PostSeen, ChannelCall
    <3>3. CASE PostOpened(c)
      BY <3>3 DEF PostOpened, ChannelCall
    <3> QED BY <1>4, <3>1, <3>2, <3>3
  <2>2. PICK rec : ChannelAct(c, ch, rec) /\ ChannelCall(ch, rec)
    BY <2>1
  <2>3. /\ SetChannel(ch, rec) /\ dirty' = TRUE
        /\ UNCHANGED <<disk, lastSave, restarts, now>>
    BY <2>2 DEF ChannelAct, Act, Changed, file, clock
  <2> QED BY <2>2, <2>3 DEF ChannelStep
<1> QED BY <1>1, <1>2, <1>3, <1>4

LEMMA BeginSteps ==
  ASSUME TypeOK, ShelfBegin
  PROVE  TitleStep \/ Quiet
<1>1. PICK j \in JobSet :
        /\ IF Begin(Title(j[1]), j[2]) # Title(j[1])
           THEN SetTitle(j[1], Begin(Title(j[1]), j[2])) /\ Changed
           ELSE UNCHANGED <<mem, dirty, watchedAt>>
        /\ UNCHANGED <<disk, lastSave, restarts, now>>
  BY DEF ShelfBegin, file, clock
<1>2. j[1] \in Titles /\ j[2] \in Numbers
  BY JobsAreOfTitles
<1>3. CASE Begin(Title(j[1]), j[2]) # Title(j[1])
  <2> DEFINE t == j[1]
             rec == Begin(Title(t), j[2])
  <2>1. SetTitle(t, rec) /\ dirty' = TRUE
    BY <1>1, <1>3 DEF Changed
  <2>2. Marked(t, rec)
    BY <1>2, <2>1 DEF Marked
  <2>3. t \in Titles
    BY <1>2
  <2> HIDE DEF t, rec
  <2> QED BY <1>1, <2>1, <2>2, <2>3 DEF TitleStep
<1>4. CASE ~ (Begin(Title(j[1]), j[2]) # Title(j[1]))
  BY <1>1, <1>4 DEF Quiet
<1> QED BY <1>3, <1>4

LEMMA NoteSteps ==
  ASSUME TypeOK, NEW d \in Devices, Note(d)
  PROVE  TitleStep
<1> DEFINE t == beats[d].job[1]
           new == NoteProgress(Title(t), beats[d].job[2], beats[d].report, beats[d].about, now)
           rec == new.rec
<1>1. beats[d] # None /\ beats[d] \in Beats
  BY DEF Note, TypeOK
<1>2. t \in Titles
  BY <1>1, JobsAreOfTitles DEF Beats
<1>3. /\ SetTitle(t, rec)
      /\ IF new.dirty THEN dirty' = TRUE ELSE dirty' = dirty
      /\ UNCHANGED <<disk, lastSave, restarts, now>>
  BY DEF Note, Changed, file, clock
<1>4. Reported(t, rec)
  BY <1>1, <1>3 DEF Reported
<1> HIDE DEF rec, new, t
<1> QED BY <1>2, <1>3, <1>4 DEF TitleStep

LEMMA LatestSteps ==
  ASSUME TypeOK, NEW f \in Fetchers, Latest(f)
  PROVE  ChannelStep
<1> DEFINE c == fetches[f].channel
           videos == fetches[f].videos
<1>1. fetches[f] \in Fetches
  BY DEF Latest, TypeOK
<1>2. c \in Channels /\ videos \in SUBSET Vids
  BY <1>1 DEF Fetches
<1>3. dirty' = TRUE /\ UNCHANGED <<disk, lastSave, restarts, now>>
  BY DEF Latest, Changed, file, clock
<1>4. \E rec : SetChannel(c, rec) /\ ChannelCall(c, rec)
  <2>1. \/ PrimeApplies(c, videos) \/ SweepApplies(c, videos) \/ PageApplies(c, videos)
    BY DEF Latest, Fetchers
  <2> HIDE DEF c, videos
  <2> QED BY <1>2, <2>1 DEF PrimeApplies, SweepApplies, PageApplies, ChannelCall
<1> QED BY <1>2, <1>3, <1>4 DEF ChannelStep

LEMMA StepKinds ==
  ASSUME TypeOK, [Next]_vars
  PROVE  Quiet \/ SaveStep \/ TitleStep \/ ChannelStep \/ Restart
<1> USE DEF table, file, clock
<1>1. CASE UNCHANGED vars
  BY <1>1 DEF vars, Quiet
<1>2. ASSUME NEW c \in Callers,
             \/ PostFav(c) \/ PostWatched(c) \/ PostDrop(c)
             \/ PostFollow(c) \/ PostSeen(c) \/ PostOpened(c)
      PROVE  TitleStep \/ ChannelStep
  BY <1>2, ViewerSteps
<1>3. ASSUME NEW c \in Callers, AnswerCall(c)
      PROVE  SaveStep
  BY <1>3 DEF AnswerCall, SaveStep
<1>4. CASE Play
  BY <1>4 DEF Play, Quiet
<1>5. CASE ShelfBegin
  BY <1>5, BeginSteps
<1>6. CASE Idle
  BY <1>6 DEF Idle, SaveStep
<1>7. ASSUME NEW d \in Devices, Beat(d)
      PROVE  Quiet
  BY <1>7 DEF Beat, Quiet
<1>8. ASSUME NEW d \in Devices, Note(d)
      PROVE  TitleStep
  BY <1>8, NoteSteps
<1>9. ASSUME NEW d \in Devices, NoteSave(d)
      PROVE  SaveStep
  BY <1>9 DEF NoteSave, SaveStep
<1>10. ASSUME NEW f \in Fetchers, Fetch(f)
       PROVE  Quiet
  BY <1>10 DEF Fetch, Quiet
<1>11. ASSUME NEW f \in Fetchers, Latest(f)
       PROVE  ChannelStep
  BY <1>11, LatestSteps
<1>12. ASSUME NEW f \in Fetchers, FetchSave(f)
       PROVE  SaveStep
  BY <1>12 DEF FetchSave, SaveStep
<1>13. CASE Tick
  BY <1>13 DEF Tick, Quiet
<1> QED BY <1>1, <1>2, <1>3, <1>4, <1>5, <1>6, <1>7, <1>8, <1>9, <1>10, <1>11, <1>12,
           <1>13 DEF Next

(***************************************************************************)
(* Types.                                                                  *)
(***************************************************************************)
LEMMA EmptyTyped == TableOK(Empty)
BY NewRecTyped, NewChannelTyped DEF Empty, TableOK

LEMMA TableTitle ==
  ASSUME NEW tab, TableOK(tab), NEW t \in Titles, NEW rec, TitleRec(rec)
  PROVE  TableOK([tab EXCEPT !.titles[t] = rec])
BY DEF TableOK

LEMMA TableChannel ==
  ASSUME NEW tab, TableOK(tab), NEW c \in Channels, NEW rec, ChannelRec(rec)
  PROVE  TableOK([tab EXCEPT !.channels[c] = rec])
BY DEF TableOK

LEMMA TitleTyped ==
  ASSUME TypeOK, NEW t \in Titles
  PROVE  TitleRec(Title(t))
BY DEF TypeOK, TableOK, Title

LEMMA ChannelTyped ==
  ASSUME TypeOK, NEW c \in Channels
  PROVE  ChannelRec(Channel(c))
BY DEF TypeOK, TableOK, Channel

LEMMA BeatTyped ==
  ASSUME TypeOK, NEW d \in Devices, beats[d] # None
  PROVE  /\ beats[d] \in Beats
         /\ beats[d].job \in JobSet /\ beats[d].job[1] \in Titles
         /\ beats[d].job[2] \in Numbers
         /\ beats[d].report \in Reports /\ beats[d].about \in Abouts
<1>1. beats[d] \in Beats
  BY DEF TypeOK
<1> QED BY <1>1, JobsAreOfTitles DEF Beats

LEMMA MarkedTyped ==
  ASSUME TypeOK, NEW t \in Titles, NEW rec, Marked(t, rec)
  PROVE  TitleRec(rec)
<1>1. TitleRec(Title(t)) /\ now \in Nat
  BY TitleTyped DEF TypeOK
<1> QED BY <1>1, SetFavTyped, SetWatchedTyped, DropTyped, BeginTyped DEF Marked

LEMMA ReportedTyped ==
  ASSUME TypeOK, NEW t \in Titles, NEW rec, Reported(t, rec)
  PROVE  TitleRec(rec) /\ dirty' \in BOOLEAN
<1>1. TitleRec(Title(t)) /\ now \in Nat /\ dirty \in BOOLEAN
  BY TitleTyped DEF TypeOK
<1>2. PICK d \in Devices :
        /\ beats[d] # None
        /\ rec = NoteProgress(Title(t), beats[d].job[2], beats[d].report,
                              beats[d].about, now).rec
        /\ \/ dirty' = TRUE
           \/ dirty' = dirty
  BY DEF Reported
<1>3. /\ beats[d].job[2] \in Numbers /\ beats[d].report \in Reports
      /\ beats[d].about \in Abouts
  BY <1>2, BeatTyped
<1>4. TitleRec(rec)
  BY <1>1, <1>2, <1>3, NoteTyped
<1> QED BY <1>1, <1>2, <1>4

LEMMA ChannelCallTyped ==
  ASSUME TypeOK, NEW c \in Channels, NEW rec, ChannelCall(c, rec)
  PROVE  ChannelRec(rec)
<1> DEFINE ch == Channel(c)
<1>1. ChannelRec(ch) /\ now \in Nat
  BY ChannelTyped DEF TypeOK
<1>2. \A videos \in SUBSET Vids : ChannelRec(SetLatest(ch, videos, now))
  BY <1>1, LatestTyped
<1>3. \/ rec = Seen(ch, now)
      \/ \E v \in Vids, on \in BOOLEAN : rec = VideoOpened(ch, v, on, now)
      \/ \E on \in BOOLEAN, snap \in {None, "snap"} : rec = Follow(ch, on, snap, now)
      \/ \E videos \in SUBSET Vids : rec = SetLatest(ch, videos, now)
      \/ \E videos \in SUBSET Vids : rec = SetSnap(SetLatest(ch, videos, now), "snap")
      \/ rec = SetSnap(ch, "snap")
  BY DEF ChannelCall
<1> HIDE DEF ch
<1>4. CASE \E videos \in SUBSET Vids : rec = SetSnap(SetLatest(ch, videos, now), "snap")
  <2>1. PICK videos \in SUBSET Vids : rec = SetSnap(SetLatest(ch, videos, now), "snap")
    BY <1>4
  <2> QED BY <1>2, <2>1, SnapTyped
<1> QED BY <1>1, <1>2, <1>3, <1>4, ChannelSeenTyped, OpenedTyped, FollowTyped, SnapTyped

DiskOK == disk = [is |-> disk.is, table |-> disk.table] /\ TableOK(disk.table)

LEMMA SaveTyped ==
  ASSUME TypeOK, NEW force \in BOOLEAN, Save(force)
  PROVE  TableOK(mem)' /\ dirty' \in BOOLEAN /\ lastSave' \in Nat /\ DiskOK'
<1>1. mem' = mem /\ (Written \/ UNCHANGED <<file, dirty>>)
  BY DEF Save, Failed
<1>2. CASE Written
  BY <1>1, <1>2 DEF Written, File, TypeOK, DiskOK
<1>3. CASE UNCHANGED <<file, dirty>>
  BY <1>1, <1>3 DEF TypeOK, DiskOK, file
<1> QED BY <1>1, <1>2, <1>3

LEMMA TableTyped ==
  ASSUME TypeOK, Quiet \/ SaveStep \/ TitleStep \/ ChannelStep \/ Restart
  PROVE  /\ TableOK(mem)' /\ dirty' \in BOOLEAN /\ lastSave' \in Nat /\ DiskOK'
         /\ now' \in Nat /\ watchedAt' \in [Titles -> Nat] /\ restarts' \in Nat
<1>1. CASE Quiet
  BY <1>1 DEF Quiet, TypeOK, DiskOK
<1>2. CASE SaveStep
  BY <1>2, SaveTyped DEF SaveStep, TypeOK
<1>3. CASE TitleStep
  <2>1. PICK t \in Titles : \E rec : SetTitle(t, rec) /\ (Marked(t, rec) \/ Reported(t, rec))
    BY <1>3 DEF TitleStep
  <2>2. PICK rec : SetTitle(t, rec) /\ (Marked(t, rec) \/ Reported(t, rec))
    BY <2>1
  <2>3. TitleRec(rec)
    BY <2>2, MarkedTyped, ReportedTyped
  <2>4. dirty' \in BOOLEAN
    <3>1. CASE Marked(t, rec)
      BY <3>1 DEF Marked
    <3>2. CASE Reported(t, rec)
      BY <3>2, ReportedTyped
    <3> QED BY <2>2, <3>1, <3>2
  <2>5. mem' = [mem EXCEPT !.titles[t] = rec]
    BY <2>2 DEF SetTitle
  <2>6. watchedAt' \in [Titles -> Nat]
    BY <2>2 DEF SetTitle, TypeOK
  <2>7. TableOK(mem')
    BY <2>3, <2>5, TableTitle DEF TypeOK
  <2> QED BY <1>3, <2>4, <2>6, <2>7 DEF TitleStep, TypeOK, DiskOK
<1>4. CASE ChannelStep
  <2>1. PICK c \in Channels : \E rec : SetChannel(c, rec) /\ ChannelCall(c, rec)
    BY <1>4 DEF ChannelStep
  <2>2. PICK rec : SetChannel(c, rec) /\ ChannelCall(c, rec)
    BY <2>1
  <2>3. ChannelRec(rec)
    BY <2>2, ChannelCallTyped
  <2>4. mem' = [mem EXCEPT !.channels[c] = rec] /\ watchedAt' = watchedAt
    BY <2>2 DEF SetChannel
  <2>5. TableOK(mem')
    BY <2>3, <2>4, TableChannel DEF TypeOK
  <2> QED BY <1>4, <2>4, <2>5 DEF ChannelStep, TypeOK, DiskOK
<1>5. CASE Restart
  <2>1. PICK f \in {disk} \cup (IF disk.is = "missing" THEN {} ELSE {Damaged}) :
          /\ mem' = f.table /\ dirty' = FALSE /\ lastSave' = 0
          /\ IF f.is = "damaged" THEN disk' \in {Missing, Damaged} ELSE UNCHANGED disk
          /\ restarts' = restarts + 1 /\ UNCHANGED <<now, watchedAt>>
    BY <1>5 DEF Restart
  <2>2. TableOK(f.table)
    BY EmptyTyped DEF Damaged, TypeOK
  <2>3. DiskOK'
    BY <2>1, EmptyTyped DEF DiskOK, Damaged, Missing, TypeOK
  <2>4. TableOK(mem')
    BY <2>1, <2>2
  <2>5. dirty' \in BOOLEAN /\ lastSave' \in Nat /\ now' \in Nat /\ restarts' \in Nat
    <3>1. dirty' = FALSE /\ lastSave' = 0 /\ restarts' = restarts + 1 /\ now' = now
      BY <1>5 DEF Restart
    <3>2. now \in Nat /\ restarts \in Nat
      BY DEF TypeOK
    <3>3. dirty' \in BOOLEAN
      BY <3>1
    <3> QED BY <3>1, <3>2, <3>3
  <2>6. watchedAt' \in [Titles -> Nat]
    BY <2>1 DEF TypeOK
  <2> QED BY <2>3, <2>4, <2>5, <2>6
<1> QED BY <1>1, <1>2, <1>3, <1>4, <1>5

(* The jobs, the reports under way, the acts and the fetches. *)
OthersOK ==
  /\ jobs \in [JobSet -> Plays]
  /\ beats \in [Devices -> Beats \cup {None}]
  /\ calls \in [Callers -> {None, "unsaved", "saved"}]
  /\ fetches \in [Fetchers -> Fetches \cup {None}]
  /\ ops \in [Titles \cup Channels -> Nat]
  /\ kept \in BOOLEAN

LEMMA NothingTyped == Nothing \in Abouts /\ Unplayed \in Plays
BY NoneIsNoNumber DEF Nothing, Abouts, Unplayed, Plays

LEMMA AboutTyped ==
  ASSUME NEW j, NEW r \in OptNat, NEW p \in Posters
  PROVE  About(j, r, p) \in Abouts
<1> DEFINE count == Cardinality(Episodes)
           next == j[2] + 1 \in Episodes
<1>1. count \in OptNat /\ next \in BOOLEAN
  BY EpisodesAssumption, FS_CardinalityType DEF OptNat
<1>2. About(j, r, p) =
        IF j[1] \in Films
        THEN [Nothing EXCEPT !.kind = "movie", !.runtime = r, !.poster = p]
        ELSE [kind |-> "tv", runtime |-> r, poster |-> p, aired |-> count, hasNext |-> next]
  BY DEF About
<1> HIDE DEF count, next
<1>3. [Nothing EXCEPT !.kind = "movie", !.runtime = r, !.poster = p] \in Abouts
  BY NothingTyped DEF Abouts
<1>4. [kind |-> "tv", runtime |-> r, poster |-> p, aired |-> count, hasNext |-> next] \in Abouts
  BY <1>1 DEF Abouts
<1> QED BY <1>2, <1>3, <1>4

LEMMA OpTyped ==
  ASSUME OthersOK, NEW x \in Titles \cup Channels, Op(x)
  PROVE  ops' \in [Titles \cup Channels -> Nat]
BY DEF OthersOK, Op

LEMMA AfterSaveTyped ==
  ASSUME OthersOK
  PROVE  AfterSave \in [Callers -> {None, "unsaved", "saved"}]
BY DEF OthersOK, AfterSave

LEMMA OthersTyped ==
  ASSUME TypeOK, [Next]_vars
  PROVE  OthersOK'
<1>0. OthersOK
  BY DEF TypeOK, OthersOK
<1> USE <1>0 DEF table, file, players, clock
<1>1. CASE UNCHANGED vars
  BY <1>1 DEF vars, OthersOK
<1>2. ASSUME NEW c \in Callers,
             \/ PostFav(c) \/ PostWatched(c) \/ PostDrop(c)
             \/ PostFollow(c) \/ PostSeen(c) \/ PostOpened(c)
      PROVE  OthersOK'
  <2>1. \E x \in Titles \cup Channels : Op(x) /\ calls' = [calls EXCEPT ![c] = "unsaved"]
                                        /\ UNCHANGED <<players, fetches, kept>>
    <3> USE DEF TitleAct, ChannelAct, Act
    <3>1. CASE PostFav(c)
      BY <3>1 DEF PostFav
    <3>2. CASE PostWatched(c)
      BY <3>2 DEF PostWatched
    <3>3. CASE PostDrop(c)
      BY <3>3, JobsAreOfTitles DEF PostDrop
    <3>4. CASE PostFollow(c)
      BY <3>4 DEF PostFollow
    <3>5. CASE PostSeen(c)
      BY <3>5 DEF PostSeen
    <3>6. CASE PostOpened(c)
      BY <3>6 DEF PostOpened
    <3> QED BY <1>2, <3>1, <3>2, <3>3, <3>4, <3>5, <3>6
  <2> QED BY <2>1, OpTyped DEF OthersOK
<1>3. ASSUME NEW c \in Callers, AnswerCall(c)
      PROVE  OthersOK'
  <2>1. AfterSave \in [Callers -> {None, "unsaved", "saved"}]
    BY AfterSaveTyped
  <2>2. /\ calls' = [AfterSave EXCEPT ![c] = None]
        /\ UNCHANGED <<jobs, beats, fetches, ops>> /\ kept' \in BOOLEAN
    BY <1>3 DEF AnswerCall
  <2>3. calls' \in [Callers -> {None, "unsaved", "saved"}]
    BY <2>1, <2>2
  <2> QED BY <2>2, <2>3 DEF OthersOK
<1>4. CASE Play
  <2>1. PICK j \in JobSet, s \in Starts :
          /\ Op(j[1])
          /\ jobs' = [jobs EXCEPT ![j].start = s, ![j].begun = FALSE]
          /\ beats' = [d \in Devices |->
               IF beats[d] = None THEN None
               ELSE [beats[d] EXCEPT !.crossed = @ \/ beats[d].job = j]]
          /\ UNCHANGED <<calls, fetches, kept>>
    BY <1>4 DEF Play
  <2>2. s \in OptNat /\ j[1] \in Titles \cup Channels
    BY PlayersAssumption, JobsAreOfTitles DEF OptNat
  <2>3. jobs' \in [JobSet -> Plays]
    BY <2>1, <2>2 DEF OthersOK, Plays
  <2>4. ASSUME NEW d \in Devices, beats[d] # None
        PROVE  [beats[d] EXCEPT !.crossed = @ \/ beats[d].job = j] \in Beats
    <3>1. beats[d] \in Beats
      BY <2>4 DEF OthersOK
    <3>2. beats[d].crossed \in BOOLEAN
      BY <3>1 DEF Beats
    <3> DEFINE x == beats[d].crossed \/ beats[d].job = j
    <3>3. x \in BOOLEAN
      OBVIOUS
    <3>4. [beats[d] EXCEPT !.crossed = @ \/ beats[d].job = j] = [beats[d] EXCEPT !.crossed = x]
      BY <3>1
    <3> HIDE DEF x
    <3> QED BY <3>1, <3>3, <3>4 DEF Beats
  <2>5. beats' \in [Devices -> Beats \cup {None}]
    BY <2>1, <2>4
  <2> QED BY <2>1, <2>2, <2>3, <2>5, OpTyped DEF OthersOK
<1>5. CASE ShelfBegin
  <2>1. PICK j \in JobSet, r \in Runtimes, p \in Posters :
          /\ jobs' = [jobs EXCEPT ![j].begun = TRUE, ![j].about = About(j, r, p)]
          /\ UNCHANGED <<beats, calls, fetches, ops, kept>>
    BY <1>5 DEF ShelfBegin
  <2>2. About(j, r, p) \in Abouts
    BY AboutTyped, PlayersAssumption DEF OptNat
  <2>3. jobs' \in [JobSet -> Plays]
    BY <2>1, <2>2 DEF OthersOK, Plays
  <2> QED BY <2>1, <2>3 DEF OthersOK
<1>6. CASE Idle
  BY <1>6, AfterSaveTyped DEF Idle, OthersOK
<1>7. ASSUME NEW d \in Devices, Beat(d)
      PROVE  OthersOK'
  <2>1. PICK j \in JobSet, r \in Reports :
          /\ Op(j[1])
          /\ beats' = [beats EXCEPT ![d] =
               [pc |-> "note", job |-> j, report |-> r, about |-> jobs[j].about,
                crossed |-> FALSE]]
          /\ UNCHANGED <<jobs, calls, fetches, kept>>
    BY <1>7 DEF Beat
  <2>2. j[1] \in Titles \cup Channels /\ jobs[j].about \in Abouts
    BY JobsAreOfTitles DEF OthersOK, Plays
  <2>3. beats' \in [Devices -> Beats \cup {None}]
    BY <2>1, <2>2 DEF OthersOK, Beats
  <2> QED BY <2>1, <2>2, <2>3, OpTyped DEF OthersOK
<1>8. ASSUME NEW d \in Devices, Note(d)
      PROVE  OthersOK'
  <2>1. beats[d] \in Beats /\ beats' = [beats EXCEPT ![d].pc = "save"]
    BY <1>8 DEF Note, OthersOK
  <2>2. beats' \in [Devices -> Beats \cup {None}]
    BY <2>1 DEF OthersOK, Beats
  <2> QED BY <1>8, <2>2 DEF Note, OthersOK
<1>9. ASSUME NEW d \in Devices, NoteSave(d)
      PROVE  OthersOK'
  BY <1>9, AfterSaveTyped DEF NoteSave, OthersOK
<1>10. ASSUME NEW f \in Fetchers, Fetch(f)
       PROVE  OthersOK'
  <2>1. PICK c \in Channels :
          /\ Op(c)
          /\ fetches' = [fetches EXCEPT ![f] =
               [pc |-> "apply", channel |-> c, videos |-> {v \in Vids : Published[v] <= now}]]
          /\ UNCHANGED <<jobs, beats, calls, kept>>
    BY <1>10 DEF Fetch
  <2>2. fetches' \in [Fetchers -> Fetches \cup {None}]
    BY <2>1 DEF OthersOK, Fetches
  <2> QED BY <2>1, <2>2, OpTyped DEF OthersOK
<1>11. ASSUME NEW f \in Fetchers, Latest(f)
       PROVE  OthersOK'
  <2>1. /\ fetches[f] \in Fetches
        /\ fetches' = [fetches EXCEPT ![f] = IF f = "page" THEN None ELSE [@ EXCEPT !.pc = "save"]]
        /\ UNCHANGED <<jobs, beats, calls, ops, kept>>
    BY <1>11 DEF Latest, OthersOK
  <2>2. [fetches[f] EXCEPT !.pc = "save"] \in Fetches
    BY <2>1 DEF Fetches
  <2>3. fetches' \in [Fetchers -> Fetches \cup {None}]
    BY <2>1, <2>2 DEF OthersOK
  <2> QED BY <2>1, <2>3 DEF OthersOK
<1>12. ASSUME NEW f \in Fetchers, FetchSave(f)
       PROVE  OthersOK'
  BY <1>12, AfterSaveTyped DEF FetchSave, OthersOK
<1>13. CASE Restart
  BY <1>13, NothingTyped DEF Restart, OthersOK
<1>14. CASE Tick
  BY <1>14 DEF Tick, OthersOK
<1> QED BY <1>1, <1>2, <1>3, <1>4, <1>5, <1>6, <1>7, <1>8, <1>9, <1>10, <1>11, <1>12,
           <1>13, <1>14 DEF Next

LEMMA TypeInit == Init => TypeOK
<1> SUFFICES ASSUME Init PROVE TypeOK
  OBVIOUS
<1>1. TableOK(mem) /\ TableOK(disk.table) /\ disk = [is |-> disk.is, table |-> disk.table]
  BY EmptyTyped DEF Init, Missing
<1>2. jobs \in [JobSet -> Plays]
  BY NothingTyped DEF Init
<1>3. now \in Nat /\ lastSave \in Nat /\ restarts \in Nat
  BY TimeAssumption DEF Init
<1> QED BY <1>1, <1>2, <1>3 DEF Init, TypeOK

LEMMA TypeNext == TypeOK /\ [Next]_vars => TypeOK'
<1> SUFFICES ASSUME TypeOK, [Next]_vars PROVE TypeOK'
  OBVIOUS
<1>1. /\ TableOK(mem)' /\ dirty' \in BOOLEAN /\ lastSave' \in Nat /\ DiskOK'
      /\ now' \in Nat /\ watchedAt' \in [Titles -> Nat] /\ restarts' \in Nat
  BY StepKinds, TableTyped
<1>2. OthersOK'
  BY OthersTyped
<1> QED BY <1>1, <1>2 DEF TypeOK, DiskOK, OthersOK

(* Every record of the shelf keeps its shape, in memory and in the file, and
   the table of opened videos its cap, through any calls, saves and restarts. *)
THEOREM ShelfTypeCorrect == Spec => []TypeOK
<1> QED BY TypeInit, TypeNext, PTL DEF Spec

(***************************************************************************)
(* What a call does to the stamps of what was watched, and to positions.   *)
(***************************************************************************)
LEMMA StampsTyped ==
  ASSUME NEW r, TitleRec(r)
  PROVE  WatchedStamps(r) \subseteq Nat
<1>1. EpsOK(r.eps) /\ r.watched \in OptNat
  BY TitleFields
<1>2. \A e \in DOMAIN r.eps : r.eps[e].watched \in OptNat
  BY <1>1 DEF EpsOK, EpRec
<1> QED BY <1>1, <1>2 DEF WatchedStamps, OptNat

LEMMA WithEpKeeps ==
  ASSUME NEW r, TitleRec(r), NEW e \in Episodes, NEW ep
  PROVE  /\ WatchedStamps(WithEp(r, e, ep)) \subseteq WatchedStamps(r) \cup ({ep.watched} \ {None})
         /\ \A n \in Episodes : Ep(WithEp(r, e, ep), n) = IF n = e THEN ep ELSE Ep(r, n)
         /\ WithEp(r, e, ep).pos = r.pos
         /\ WithEp(r, e, ep).muted = r.muted
<1> DEFINE eps == [x \in DOMAIN r.eps \cup {e} |-> IF x = e THEN ep ELSE r.eps[x]]
           q == WithEp(r, e, ep)
<1>1. /\ q.eps = eps /\ q.watched = r.watched /\ q.pos = r.pos /\ q.muted = r.muted
  BY DEF WithEp, TitleRec
<1>2. DOMAIN eps = DOMAIN r.eps \cup {e}
      /\ \A x \in DOMAIN eps : eps[x] = IF x = e THEN ep ELSE r.eps[x]
  OBVIOUS
<1> HIDE DEF eps, q
<1>3. WatchedStamps(q) \subseteq WatchedStamps(r) \cup ({ep.watched} \ {None})
  BY <1>1, <1>2 DEF WatchedStamps
<1>4. \A n \in Episodes : Ep(q, n) = IF n = e THEN ep ELSE Ep(r, n)
  BY <1>1, <1>2 DEF Ep
<1> QED BY <1>1, <1>3, <1>4 DEF q

RecordedIn(r, n) == IF n = 0 THEN r.pos.s ELSE Ep(r, n).s

(* From the record r to the record q, seen at the time at. *)
NewStampsAt(r, q, at) == WatchedStamps(q) \subseteq WatchedStamps(r) \cup {at}
NoNewPosition(r, q) == \A n \in Numbers : RecordedIn(q, n) \in {RecordedIn(r, n), None}

LEMMA NoPosIsNone == NoPos.s = None /\ NewEp.s = None /\ NewEp.watched = None
BY DEF NoPos, NewEp

LEMMA SameTimes ==
  ASSUME NEW r, NEW q, q.eps = r.eps, q.watched = r.watched, q.pos = r.pos, NEW at
  PROVE  NewStampsAt(r, q, at) /\ NoNewPosition(r, q)
BY DEF NewStampsAt, NoNewPosition, WatchedStamps, RecordedIn, Ep

LEMMA SetFavTimes ==
  ASSUME NEW r, TitleRec(r), NEW on, NEW p, NEW k, NEW at
  PROVE  NewStampsAt(r, SetFav(r, on, p, k, at), at)
         /\ NoNewPosition(r, SetFav(r, on, p, k, at))
<1> DEFINE q == SetFav(r, on, p, k, at)
<1>1. q.eps = r.eps /\ q.watched = r.watched /\ q.pos = r.pos
  BY DEF SetFav, TitleRec
<1> HIDE DEF q
<1>2. NewStampsAt(r, q, at) /\ NoNewPosition(r, q)
  BY <1>1, SameTimes
<1> QED BY <1>2 DEF q

LEMMA BeginTimes ==
  ASSUME NEW r, TitleRec(r), NEW n, NEW at
  PROVE  NewStampsAt(r, Begin(r, n), at) /\ NoNewPosition(r, Begin(r, n))
<1> DEFINE q == Begin(r, n)
<1>1. q.eps = r.eps /\ q.watched = r.watched /\ q.pos = r.pos
  BY DEF Begin, TitleRec
<1> HIDE DEF q
<1>2. NewStampsAt(r, q, at) /\ NoNewPosition(r, q)
  BY <1>1, SameTimes
<1> QED BY <1>2 DEF q

LEMMA DropTimes ==
  ASSUME NEW r, TitleRec(r), NEW mutes, NEW at
  PROVE  NewStampsAt(r, Drop(r, mutes, at), at) /\ NoNewPosition(r, Drop(r, mutes, at))
<1> DEFINE eps == [e \in DOMAIN r.eps |->
                     IF r.eps[e].watched # None THEN r.eps[e] ELSE NewEp]
           q == Drop(r, mutes, at)
<1>1. q.eps = eps /\ q.watched = r.watched /\ q.pos = NoPos
  BY DEF Drop, ClearUnwatchedPositions, TitleRec
<1>2. DOMAIN eps = DOMAIN r.eps
      /\ \A e \in DOMAIN r.eps : eps[e] \in {r.eps[e], NewEp}
  OBVIOUS
<1> HIDE DEF eps, q
<1>3. NewStampsAt(r, q, at)
  BY <1>1, <1>2, NoPosIsNone DEF NewStampsAt, WatchedStamps
<1>4. NoNewPosition(r, q)
  BY <1>1, <1>2, NoPosIsNone DEF NoNewPosition, RecordedIn, Ep
<1> QED BY <1>3, <1>4 DEF q

LEMMA SeenFields ==
  ASSUME NEW at
  PROVE  [NewEp EXCEPT !.watched = at].s = None /\ [NewEp EXCEPT !.watched = at].watched = at
BY DEF NewEp

LEMMA WithEpTimes ==
  ASSUME NEW r, TitleRec(r), NEW e \in Episodes, NEW ep, NEW at,
         ep.watched \in {at, None, Ep(r, e).watched}
  PROVE  /\ NewStampsAt(r, WithEp(r, e, ep), at)
         /\ \A n \in Numbers \ {e} : RecordedIn(WithEp(r, e, ep), n) = RecordedIn(r, n)
         /\ RecordedIn(WithEp(r, e, ep), e) = ep.s
<1> DEFINE q == WithEp(r, e, ep)
<1>1. /\ WatchedStamps(q) \subseteq WatchedStamps(r) \cup ({ep.watched} \ {None})
      /\ \A n \in Episodes : Ep(q, n) = IF n = e THEN ep ELSE Ep(r, n)
      /\ q.pos = r.pos
  BY WithEpKeeps
<1>2. {Ep(r, e).watched} \ {None} \subseteq WatchedStamps(r)
  BY NoPosIsNone DEF Ep, WatchedStamps
<1> HIDE DEF q
<1>3. e # 0
  BY NoneIsNoNumber
<1>4. \A n \in Numbers \ {e} : RecordedIn(q, n) = RecordedIn(r, n)
  BY <1>1 DEF RecordedIn, Numbers
<1>5. RecordedIn(q, e) = ep.s
  BY <1>1, <1>3 DEF RecordedIn
<1>6. NewStampsAt(r, q, at)
  BY <1>1, <1>2 DEF NewStampsAt
<1> QED BY <1>4, <1>5, <1>6 DEF q

LEMMA SetWatchedTimes ==
  ASSUME NEW r, TitleRec(r), NEW n \in Numbers, NEW on \in BOOLEAN, NEW at
  PROVE  NewStampsAt(r, SetWatched(r, n, on, at), at)
         /\ NoNewPosition(r, SetWatched(r, n, on, at))
<1> DEFINE q == SetWatched(r, n, on, at)
           seen == [NewEp EXCEPT !.watched = at]
           un == [Ep(r, n) EXCEPT !.watched = None]
<1>1. seen.s = None /\ seen.watched = at
  BY SeenFields
<1>2. un.s = Ep(r, n).s /\ un.watched = None
  BY EpTyped DEF EpRec
<1>3. CASE n # 0
  <2> DEFINE ep == IF on THEN seen ELSE un
  <2>1. q = WithEp(r, n, ep)
    BY <1>3 DEF SetWatched
  <2>2. n \in Episodes
    BY <1>3 DEF Numbers
  <2>3. ep.watched \in {at, None} /\ ep.s \in {None, Ep(r, n).s}
    BY <1>1, <1>2
  <2> HIDE DEF q, ep, seen, un
  <2>4. /\ NewStampsAt(r, q, at)
        /\ \A m \in Numbers \ {n} : RecordedIn(q, m) = RecordedIn(r, m)
        /\ RecordedIn(q, n) = ep.s
    BY <2>1, <2>2, <2>3, WithEpTimes
  <2>5. NoNewPosition(r, q)
    BY <1>3, <2>3, <2>4 DEF NoNewPosition, RecordedIn
  <2> QED BY <2>4, <2>5 DEF q
<1>4. CASE n = 0 /\ on
  <2> DEFINE eps == [e \in DOMAIN r.eps |-> seen]
  <2>1. q.watched = at /\ q.pos = NoPos /\ q.eps = eps
    BY <1>4 DEF SetWatched, TitleRec
  <2>2. DOMAIN eps = DOMAIN r.eps /\ \A e \in DOMAIN eps : eps[e] = seen
    OBVIOUS
  <2> HIDE DEF q, eps, seen, un
  <2>3. NewStampsAt(r, q, at)
    BY <1>1, <2>1, <2>2 DEF NewStampsAt, WatchedStamps
  <2>4. NoNewPosition(r, q)
    BY <1>1, <2>1, <2>2, NoPosIsNone DEF NoNewPosition, RecordedIn, Ep
  <2> QED BY <2>3, <2>4 DEF q
<1>5. CASE n = 0 /\ ~on
  <2>1. q.watched = None /\ q.pos = r.pos /\ q.eps = r.eps
    BY <1>5 DEF SetWatched, TitleRec
  <2> HIDE DEF q
  <2>2. NewStampsAt(r, q, at)
    BY <2>1 DEF NewStampsAt, WatchedStamps
  <2>3. NoNewPosition(r, q)
    BY <2>1 DEF NoNewPosition, RecordedIn, Ep
  <2> QED BY <2>2, <2>3 DEF q
<1> QED BY <1>3, <1>4, <1>5

SamePositions(r, q) == \A n \in Numbers : RecordedIn(q, n) = RecordedIn(r, n)
OnlyPosition(r, q, n, pos) ==
  \A m \in Numbers : RecordedIn(q, m) \in {RecordedIn(r, m), None}
                     \/ (m = n /\ RecordedIn(q, m) = pos)

LEMMA BaseTimes ==
  ASSUME NEW r, TitleRec(r), NEW n \in Numbers, NEW about \in Abouts, NEW at
  PROVE  /\ WatchedStamps(Base(r, n, about)) \subseteq WatchedStamps(r)
         /\ SamePositions(r, Base(r, n, about))
<1> DEFINE m == MergeAbout(r, about)
           b == Base(r, n, about)
<1>1. TitleRec(m)
  BY MergeTyped
<1>2. m.eps = r.eps /\ m.watched = r.watched /\ m.pos = r.pos
  BY DEF MergeAbout, TitleRec
<1>3. b = IF n = 0 THEN m ELSE WithEp(m, n, Ep(m, n))
  BY DEF Base
<1> HIDE DEF m, b
<1>4. WatchedStamps(m) = WatchedStamps(r) /\ SamePositions(r, m)
  BY <1>2 DEF WatchedStamps, SamePositions, RecordedIn, Ep
<1>5. CASE n = 0
  BY <1>3, <1>4, <1>5 DEF b
<1>6. CASE n # 0
  <2>1. n \in Episodes
    BY <1>6 DEF Numbers
  <2> DEFINE ep == Ep(m, n)
  <2>2. {ep.watched} \ {None} \subseteq WatchedStamps(m)
    BY NoPosIsNone DEF Ep, WatchedStamps
  <2>3. ep.s = RecordedIn(m, n)
    BY <1>6 DEF RecordedIn
  <2>4. ep.watched \in {at, None, Ep(m, n).watched}
    OBVIOUS
  <2>5. b = WithEp(m, n, ep)
    BY <1>3, <1>6
  <2> HIDE DEF ep
  <2>6. /\ \A k \in Numbers \ {n} : RecordedIn(b, k) = RecordedIn(m, k)
        /\ RecordedIn(b, n) = ep.s
    BY <1>1, <2>1, <2>4, <2>5, WithEpTimes
  <2>7. WatchedStamps(b) \subseteq WatchedStamps(m) \cup ({ep.watched} \ {None})
    BY <1>1, <2>1, <2>5, WithEpKeeps
  <2>8. SamePositions(m, b)
    BY <2>3, <2>6 DEF SamePositions
  <2> QED BY <1>4, <2>2, <2>7, <2>8 DEF SamePositions, b
<1> QED BY <1>5, <1>6

LEMMA PutWatchedTimes ==
  ASSUME NEW r, TitleRec(r), NEW n \in Numbers, NEW at
  PROVE  NewStampsAt(r, PutWatched(r, n, at), at) /\ NoNewPosition(r, PutWatched(r, n, at))
<1> DEFINE r2 == [r EXCEPT !.touched = at]
           seen == [NewEp EXCEPT !.watched = at]
           q == PutWatched(r, n, at)
<1>1. seen.s = None /\ seen.watched = at
  BY SeenFields
<1>2. CASE n = 0
  <2>1. q.eps = r.eps /\ q.watched = at /\ q.pos = NoPos
    BY <1>2 DEF PutWatched, TitleRec
  <2> HIDE DEF q
  <2>2. NewStampsAt(r, q, at)
    BY <2>1 DEF NewStampsAt, WatchedStamps
  <2>3. NoNewPosition(r, q)
    BY <2>1, NoPosIsNone DEF NoNewPosition, RecordedIn, Ep
  <2> QED BY <2>2, <2>3 DEF q
<1>3. CASE n # 0
  <2>1. q.eps = [x \in DOMAIN r.eps \cup {n} |-> IF x = n THEN seen ELSE r.eps[x]]
        /\ q.watched = r.watched /\ q.pos = r.pos
    BY <1>3 DEF PutWatched, WithEp, TitleRec
  <2>2. DOMAIN q.eps = DOMAIN r.eps \cup {n}
        /\ \A x \in DOMAIN q.eps : q.eps[x] = IF x = n THEN seen ELSE r.eps[x]
    BY <2>1
  <2> HIDE DEF q, seen
  <2>3. NewStampsAt(r, q, at)
    BY <1>1, <2>1, <2>2 DEF NewStampsAt, WatchedStamps
  <2>4. NoNewPosition(r, q)
    BY <1>1, <2>1, <2>2, NoPosIsNone DEF NoNewPosition, RecordedIn, Ep
  <2> QED BY <2>3, <2>4 DEF q
<1> QED BY <1>2, <1>3

LEMMA PutPositionTimes ==
  ASSUME NEW r, TitleRec(r), NEW n \in Numbers, NEW pos, NEW dur, NEW at
  PROVE  /\ WatchedStamps(PutPosition(r, n, pos, dur, at)) \subseteq WatchedStamps(r)
         /\ OnlyPosition(r, PutPosition(r, n, pos, dur, at), n, pos)
<1> DEFINE ep == [s |-> pos, dur |-> dur, at |-> at, watched |-> Ep(r, n).watched]
           q == PutPosition(r, n, pos, dur, at)
<1>1. ep.s = pos /\ ep.watched = Ep(r, n).watched
  OBVIOUS
<1>2. CASE n = 0
  <2>1. q.eps = r.eps /\ q.watched = r.watched /\ q.pos = [s |-> pos, dur |-> dur, at |-> at]
    BY <1>2 DEF PutPosition, TitleRec
  <2>2. q.pos.s = pos
    BY <2>1
  <2> HIDE DEF q
  <2>3. WatchedStamps(q) \subseteq WatchedStamps(r)
    BY <2>1 DEF WatchedStamps
  <2>4. OnlyPosition(r, q, n, pos)
    BY <1>2, <2>1, <2>2 DEF OnlyPosition, RecordedIn, Ep
  <2> QED BY <2>3, <2>4 DEF q
<1>3. CASE n # 0
  <2>1. q.eps = [x \in DOMAIN r.eps \cup {n} |-> IF x = n THEN ep ELSE r.eps[x]]
        /\ q.watched = r.watched /\ q.pos = r.pos
    BY <1>3 DEF PutPosition, WithEp, TitleRec
  <2>2. DOMAIN q.eps = DOMAIN r.eps \cup {n}
        /\ \A x \in DOMAIN q.eps : q.eps[x] = IF x = n THEN ep ELSE r.eps[x]
    BY <2>1
  <2>3. {ep.watched} \ {None} \subseteq WatchedStamps(r)
    BY NoPosIsNone DEF Ep, WatchedStamps
  <2> HIDE DEF q, ep
  <2>4. WatchedStamps(q) \subseteq WatchedStamps(r)
    BY <2>1, <2>2, <2>3 DEF WatchedStamps
  <2>5. OnlyPosition(r, q, n, pos)
    BY <1>1, <1>3, <2>1, <2>2 DEF OnlyPosition, RecordedIn, Ep
  <2> QED BY <2>4, <2>5 DEF q
<1> QED BY <1>2, <1>3

(* A report adds a stamp of now or none, and a position to the job it is of,
   its own, unless that is muted. *)
LEMMA NoteTimes ==
  ASSUME NEW r, TitleRec(r), NEW n \in Numbers, NEW p \in Reports, NEW about \in Abouts,
         NEW at,
         NEW q, q = NoteProgress(r, n, p, about, at).rec
  PROVE  /\ NewStampsAt(r, q, at)
         /\ OnlyPosition(r, q, n, p.pos)
         /\ IsMuted(r, n) => q = r
<1> DEFINE b == Base(r, n, about)
           new == NoteProgress(r, n, p, about, at)
<1>1. TitleRec(b) /\ WatchedStamps(b) \subseteq WatchedStamps(r) /\ SamePositions(r, b)
  BY BaseTyped, BaseTimes
<1>2. b = Base(r, n, about) /\ new = NoteProgress(r, n, p, about, at) /\ q = new.rec
  OBVIOUS
<1> HIDE DEF b, new
<1>3. \/ /\ IsMuted(r, n)
         /\ new = [rec |-> r, dirty |-> FALSE]
      \/ /\ ~IsMuted(r, n)
         /\ new = [rec |-> PutWatched(b, n, at), dirty |-> TRUE]
      \/ /\ ~IsMuted(r, n)
         /\ \E dur \in OptNat :
              new = [rec |-> PutPosition(b, n, p.pos, dur, at), dirty |-> TRUE]
      \/ /\ ~IsMuted(r, n)
         /\ new = [rec |-> b, dirty |-> MergeAbout(r, about) # r]
  BY <1>2, NoteCases
<1>4. CASE IsMuted(r, n)
  <2>1. q = r
    BY <1>2, <1>3, <1>4
  <2> QED BY <2>1 DEF NewStampsAt, OnlyPosition
<1>5. CASE ~IsMuted(r, n) /\ new = [rec |-> PutWatched(b, n, at), dirty |-> TRUE]
  <2>1. q = PutWatched(b, n, at)
    BY <1>2, <1>5
  <2>2. NewStampsAt(b, q, at) /\ NoNewPosition(b, q)
    BY <1>1, <2>1, PutWatchedTimes
  <2> QED BY <1>1, <1>5, <2>2
          DEF NewStampsAt, NoNewPosition, SamePositions, OnlyPosition
<1>6. CASE /\ ~IsMuted(r, n)
           /\ \E dur \in OptNat :
                new = [rec |-> PutPosition(b, n, p.pos, dur, at), dirty |-> TRUE]
  <2>1. PICK dur \in OptNat : q = PutPosition(b, n, p.pos, dur, at)
    BY <1>2, <1>6
  <2>2. WatchedStamps(q) \subseteq WatchedStamps(b) /\ OnlyPosition(b, q, n, p.pos)
    BY <1>1, <2>1, PutPositionTimes
  <2> QED BY <1>1, <1>6, <2>2 DEF NewStampsAt, SamePositions, OnlyPosition
<1>7. CASE ~IsMuted(r, n) /\ new = [rec |-> b, dirty |-> MergeAbout(r, about) # r]
  <2>1. q = b
    BY <1>2, <1>7
  <2> QED BY <1>1, <1>7, <2>1 DEF NewStampsAt, SamePositions, OnlyPosition
<1> QED BY <1>3, <1>4, <1>5, <1>6, <1>7

LEMMA MarkedTimes ==
  ASSUME TypeOK, NEW t \in Titles, NEW rec, Marked(t, rec)
  PROVE  NewStampsAt(Title(t), rec, now) /\ NoNewPosition(Title(t), rec)
<1>1. TitleRec(Title(t))
  BY TitleTyped
<1> QED BY <1>1, SetFavTimes, SetWatchedTimes, DropTimes, BeginTimes DEF Marked

LEMMA ReportedTimes ==
  ASSUME TypeOK, NEW t \in Titles, NEW rec, Reported(t, rec)
  PROVE  /\ NewStampsAt(Title(t), rec, now)
         /\ \E n \in Numbers, p \in Reports :
              /\ OnlyPosition(Title(t), rec, n, p.pos)
              /\ IsMuted(Title(t), n) => rec = Title(t)
<1>1. PICK d \in Devices :
        /\ beats[d] # None
        /\ rec = NoteProgress(Title(t), beats[d].job[2], beats[d].report,
                              beats[d].about, now).rec
  BY DEF Reported
<1>2. TitleRec(Title(t))
  BY TitleTyped
<1>3. /\ beats[d].job[2] \in Numbers /\ beats[d].report \in Reports
      /\ beats[d].about \in Abouts
  BY <1>1, BeatTyped
<1> DEFINE n == beats[d].job[2]
           p == beats[d].report
           a == beats[d].about
<1>4. n \in Numbers /\ p \in Reports /\ a \in Abouts
      /\ rec = NoteProgress(Title(t), n, p, a, now).rec
  BY <1>1, <1>3
<1> HIDE DEF n, p, a
<1>5. /\ NewStampsAt(Title(t), rec, now)
      /\ OnlyPosition(Title(t), rec, n, p.pos)
      /\ IsMuted(Title(t), n) => rec = Title(t)
  BY <1>2, <1>4, NoteTimes
<1> QED BY <1>4, <1>5

LEMMA OneTitle ==
  ASSUME TypeOK, NEW t \in Titles, NEW rec, SetTitle(t, rec), NEW u \in Titles
  PROVE  mem'.titles[u] = IF u = t THEN rec ELSE Title(u)
BY DEF SetTitle, Title, TypeOK, TableOK

LEMMA OneChannel ==
  ASSUME TypeOK, NEW c \in Channels, NEW rec, SetChannel(c, rec), NEW x \in Channels
  PROVE  mem'.channels[x] = IF x = c THEN rec ELSE Channel(x)
BY DEF SetChannel, Channel, TypeOK, TableOK

LEMMA TitlesOnly ==
  ASSUME TypeOK, NEW t \in Titles, NEW rec, SetTitle(t, rec)
  PROVE  mem'.channels = mem.channels
BY DEF SetTitle, TypeOK, TableOK

LEMMA ChannelsOnly ==
  ASSUME TypeOK, NEW c \in Channels, NEW rec, SetChannel(c, rec)
  PROVE  mem'.titles = mem.titles
BY DEF SetChannel, TypeOK, TableOK

(***************************************************************************)
(* What a step makes of the two tables: a save writes that of memory, a    *)
(* restart reads that of the file, or starts from an empty one.            *)
(***************************************************************************)
DamagedIsEmpty == disk.is = "damaged" => disk.table = Empty

LEMMA SaveTables ==
  ASSUME SaveStep
  PROVE  /\ mem' = mem /\ watchedAt' = watchedAt /\ now' = now /\ restarts' = restarts
         /\ \/ disk' = File(mem) /\ dirty' = FALSE
            \/ disk' = disk /\ dirty' = dirty
BY DEF SaveStep, Save, Written, Failed, file

LEMMA SaveFile ==
  ASSUME SaveStep
  PROVE  \/ disk' = disk /\ dirty' = dirty
         \/ disk'.is = "whole" /\ disk'.table = mem
<1>1. (disk' = disk /\ dirty' = dirty) \/ disk' = File(mem)
  BY SaveTables
<1>2. File(mem).is = "whole" /\ File(mem).table = mem
  BY DEF File
<1> QED BY <1>1, <1>2

LEMMA RestartTables ==
  ASSUME TypeOK, DamagedIsEmpty, Restart
  PROVE  /\ mem' = disk'.table /\ mem' \in {disk.table, Empty} /\ DamagedIsEmpty'
         /\ dirty' = FALSE /\ watchedAt' = watchedAt /\ now' = now
         /\ restarts' = restarts + 1
<1>1. PICK f \in {disk} \cup (IF disk.is = "missing" THEN {} ELSE {Damaged}) :
        /\ mem' = f.table /\ restarts' = restarts + 1 /\ dirty' = FALSE
        /\ IF f.is = "damaged" THEN disk' \in {Missing, Damaged} ELSE UNCHANGED disk
        /\ UNCHANGED <<now, watchedAt>>
  BY DEF Restart
<1>2. Missing.table = Empty /\ Damaged.table = Empty /\ Missing.is = "missing"
      /\ Damaged.is = "damaged"
  BY DEF Missing, Damaged
<1>3. CASE f.is = "damaged"
  <2>1. f.table = Empty
    BY <1>2, <1>3 DEF DamagedIsEmpty
  <2>2. disk'.table = Empty
    BY <1>1, <1>2, <1>3
  <2>3. mem' = Empty
    BY <1>1, <2>1
  <2> QED BY <1>1, <2>2, <2>3 DEF DamagedIsEmpty
<1>4. CASE f.is # "damaged"
  <2>1. f = disk /\ disk' = disk
    BY <1>1, <1>2, <1>4
  <2> QED BY <1>1, <2>1 DEF DamagedIsEmpty
<1> QED BY <1>3, <1>4

LEMMA DamagedNext ==
  ASSUME TypeOK, DamagedIsEmpty, [Next]_vars
  PROVE  DamagedIsEmpty'
<1>1. CASE Quiet
  BY <1>1 DEF Quiet, DamagedIsEmpty
<1>2. CASE SaveStep
  BY <1>2, SaveFile DEF DamagedIsEmpty
<1>3. CASE TitleStep \/ ChannelStep
  BY <1>3 DEF TitleStep, ChannelStep, DamagedIsEmpty
<1>4. CASE Restart
  BY <1>4, RestartTables
<1> QED BY <1>1, <1>2, <1>3, <1>4, StepKinds

(***************************************************************************)
(* The watchlist.  No stamp of a title is later than the moment something  *)
(* of it was last watched, in memory or in the file.                       *)
(***************************************************************************)
StampsOf(tab) ==
  \A t \in Titles : \A at \in WatchedStamps(tab.titles[t]) : at <= watchedAt[t]

WatchInv ==
  /\ StampsOf(mem) /\ StampsOf(disk.table)
  /\ \A t \in Titles : watchedAt[t] <= now

LEMMA EmptyStamps == \A t \in Titles : WatchedStamps(Empty.titles[t]) = {}
BY DEF Empty, NewRec, WatchedStamps

LEMMA WatchInit == Init => WatchInv /\ DamagedIsEmpty
<1> SUFFICES ASSUME Init PROVE WatchInv /\ DamagedIsEmpty
  OBVIOUS
<1>1. mem = Empty /\ disk.table = Empty /\ disk.is = "missing"
  BY DEF Init, Missing
<1>2. \A t \in Titles : watchedAt[t] = 0 /\ 0 <= now
  BY TimeAssumption DEF Init
<1> QED BY <1>1, <1>2, EmptyStamps DEF WatchInv, StampsOf, DamagedIsEmpty

LEMMA WatchTitle ==
  ASSUME TypeOK, WatchInv, NEW t \in Titles, NEW rec, TitleRec(rec), SetTitle(t, rec),
         NewStampsAt(Title(t), rec, now)
  PROVE  /\ \A u \in Titles : /\ watchedAt[u] <= watchedAt'[u]
                              /\ watchedAt'[u] <= now
         /\ \A at \in WatchedStamps(rec) : at <= watchedAt'[t]
<1>1. watchedAt' = [watchedAt EXCEPT ![t] =
        IF WatchedStamps(rec) \ WatchedStamps(Title(t)) # {} THEN now ELSE @]
  BY DEF SetTitle
<1>2. watchedAt \in [Titles -> Nat] /\ now \in Nat
      /\ \A u \in Titles : watchedAt[u] <= now
  BY DEF TypeOK, WatchInv
<1>3. \A u \in Titles : watchedAt[u] <= watchedAt'[u] /\ watchedAt'[u] <= now
  BY <1>1, <1>2
<1>4. ASSUME NEW at \in WatchedStamps(rec)
      PROVE  at <= watchedAt'[t]
  <2>1. CASE at \in WatchedStamps(Title(t))
    <3>1. at <= watchedAt[t]
      BY <2>1 DEF WatchInv, StampsOf, Title
    <3>2. at \in Nat
      BY StampsTyped
    <3>3. watchedAt'[t] \in Nat /\ watchedAt[t] \in Nat
      BY <1>1, <1>2
    <3> QED BY <1>3, <3>1, <3>2, <3>3
  <2>2. CASE at \notin WatchedStamps(Title(t))
    <3>1. at = now
      BY <2>2 DEF NewStampsAt
    <3>2. watchedAt'[t] = now
      BY <1>1, <1>2, <2>2
    <3> QED BY <1>2, <3>1, <3>2
  <2> QED BY <2>1, <2>2
<1> QED BY <1>3, <1>4

LEMMA WatchNext ==
  ASSUME TypeOK, DamagedIsEmpty, WatchInv, [Next]_vars
  PROVE  WatchInv'
<1>1. CASE Quiet
  <2>1. \A t \in Titles : watchedAt[t] \in Nat /\ now \in Nat
    BY DEF TypeOK
  <2> QED BY <1>1, <2>1 DEF Quiet, WatchInv, StampsOf
<1>2. CASE SaveStep
  <2>1. /\ mem' = mem /\ watchedAt' = watchedAt /\ now' = now
        /\ disk'.table \in {mem, disk.table}
    BY <1>2, SaveTables, SaveFile
  <2> QED BY <2>1 DEF WatchInv, StampsOf
<1>3. CASE TitleStep
  <2>1. PICK t \in Titles : \E rec : SetTitle(t, rec) /\ (Marked(t, rec) \/ Reported(t, rec))
    BY <1>3 DEF TitleStep
  <2>2. PICK rec : SetTitle(t, rec) /\ (Marked(t, rec) \/ Reported(t, rec))
    BY <2>1
  <2>3. TitleRec(rec) /\ NewStampsAt(Title(t), rec, now)
    BY <2>2, MarkedTyped, ReportedTyped, MarkedTimes, ReportedTimes
  <2>4. /\ \A u \in Titles : /\ watchedAt[u] <= watchedAt'[u]
                             /\ watchedAt'[u] <= now
        /\ \A at \in WatchedStamps(rec) : at <= watchedAt'[t]
    BY <2>2, <2>3, WatchTitle
  <2>5. now' = now /\ disk' = disk
    BY <1>3 DEF TitleStep
  <2>6. ASSUME NEW u \in Titles, NEW r, TitleRec(r), NEW at \in WatchedStamps(r),
               at <= watchedAt[u]
        PROVE  at <= watchedAt'[u]
    <3>1. at \in Nat /\ watchedAt[u] \in Nat
      BY <2>6, StampsTyped DEF TypeOK
    <3>2. watchedAt'[u] \in Nat
      BY StepKinds, TableTyped
    <3> QED BY <2>4, <2>6, <3>1, <3>2
  <2>7. \A u \in Titles : TitleRec(Title(u)) /\ TitleRec(disk.table.titles[u])
    BY DEF TypeOK, TableOK, Title
  <2>8. ASSUME NEW u \in Titles, NEW at \in WatchedStamps(mem'.titles[u])
        PROVE  at <= watchedAt'[u]
    <3>1. CASE u = t
      BY <2>2, <2>4, <2>8, <3>1, OneTitle
    <3>2. CASE u # t
      <4>1. mem'.titles[u] = Title(u)
        BY <2>2, <3>2, OneTitle
      <4>2. at <= watchedAt[u]
        BY <2>8, <4>1 DEF WatchInv, StampsOf, Title
      <4> QED BY <2>6, <2>7, <2>8, <4>1, <4>2
    <3> QED BY <3>1, <3>2
  <2>9. ASSUME NEW u \in Titles, NEW at \in WatchedStamps(disk.table.titles[u])
        PROVE  at <= watchedAt'[u]
    BY <2>6, <2>7, <2>9 DEF WatchInv, StampsOf
  <2> QED BY <2>4, <2>5, <2>8, <2>9 DEF WatchInv, StampsOf
<1>4. CASE ChannelStep
  <2>1. /\ mem'.titles = mem.titles /\ watchedAt' = watchedAt /\ now' = now
        /\ disk' = disk
    BY <1>4, ChannelsOnly DEF ChannelStep, SetChannel
  <2> QED BY <2>1 DEF WatchInv, StampsOf
<1>5. CASE Restart
  <2>1. /\ mem' = disk'.table /\ mem' \in {disk.table, Empty}
        /\ watchedAt' = watchedAt /\ now' = now
    BY <1>5, RestartTables
  <2>2. StampsOf(Empty)
    BY EmptyStamps DEF StampsOf
  <2>3. StampsOf(Empty) /\ watchedAt' = watchedAt => \A t \in Titles :
          \A at \in WatchedStamps(Empty.titles[t]) : at <= watchedAt'[t]
    BY DEF StampsOf
  <2> QED BY <2>1, <2>2, <2>3 DEF WatchInv, StampsOf
<1> QED BY <1>1, <1>2, <1>3, <1>4, <1>5, StepKinds

(* A title stays on the watchlist until something of it is watched after it
   was saved, through any marks, reports, counts of episodes and restarts. *)
THEOREM WatchlistIsKept == Spec => []WatchlistKeepsSaved
<1>1. TypeOK /\ WatchInv => WatchlistKeepsSaved
  <2> SUFFICES ASSUME TypeOK, WatchInv, NEW t \in Titles,
                      Title(t).fav # None, ~OnWatchlist(Title(t), now)
               PROVE  watchedAt[t] >= Title(t).fav
    BY DEF WatchlistKeepsSaved
  <2>1. PICK at \in WatchedStamps(Title(t)) : at >= Title(t).fav
    BY DEF OnWatchlist
  <2>2. at <= watchedAt[t]
    BY DEF WatchInv, StampsOf, Title
  <2>3. TitleRec(Title(t))
    BY TitleTyped
  <2>4. at \in Nat /\ Title(t).fav \in Nat /\ watchedAt[t] \in Nat
    BY <2>3, StampsTyped, TitleFields DEF OptNat, TypeOK
  <2> QED BY <2>1, <2>2, <2>4
<1>2. WatchInv /\ DamagedIsEmpty /\ TypeOK /\ [Next]_vars => WatchInv' /\ DamagedIsEmpty'
  BY WatchNext, DamagedNext
<1> QED BY <1>1, <1>2, TypeInit, TypeNext, WatchInit, PTL DEF Spec

(***************************************************************************)
(* So long as nothing is marked unsaved, the file says what memory says.   *)
(***************************************************************************)
LEMMA MeaningOfNote ==
  ASSUME NEW r, TitleRec(r), NEW n \in Numbers
  PROVE  Meaning(IF n = 0 THEN r ELSE WithEp(r, n, Ep(r, n))) = Meaning(r)
<1>1. CASE n = 0
  BY <1>1
<1>2. CASE n # 0
  <2> DEFINE ep == Ep(r, n)
             eps == [x \in DOMAIN r.eps \cup {n} |-> IF x = n THEN ep ELSE r.eps[x]]
             kept1 == [e \in {x \in DOMAIN r.eps : r.eps[x] # NewEp} |-> r.eps[e]]
             kept2 == [e \in {x \in DOMAIN eps : eps[x] # NewEp} |-> eps[e]]
             q == WithEp(r, n, ep)
  <2>1. q = [r EXCEPT !.eps = eps]
    BY DEF WithEp
  <2>2. q.eps = eps
    <3> HIDE DEF eps, q
    <3> QED BY <2>1 DEF TitleRec
  <2>3. ep = IF n \in DOMAIN r.eps THEN r.eps[n] ELSE NewEp
    BY DEF Ep
  <2> HIDE DEF ep
  <2>4. \A x : (x \in DOMAIN eps /\ eps[x] # NewEp) <=> (x \in DOMAIN r.eps /\ r.eps[x] # NewEp)
    BY <2>3
  <2>5. \A x \in DOMAIN r.eps : eps[x] = r.eps[x]
    BY <2>3
  <2>6. {x \in DOMAIN eps : eps[x] # NewEp} = {x \in DOMAIN r.eps : r.eps[x] # NewEp}
    <3> HIDE DEF eps
    <3> QED BY <2>4
  <2>7. kept2 = kept1
    <3> DEFINE S == {x \in DOMAIN r.eps : r.eps[x] # NewEp}
    <3>1. \A e \in S : eps[e] = r.eps[e]
      BY <2>5
    <3>2. kept2 = [e \in S |-> eps[e]] /\ kept1 = [e \in S |-> r.eps[e]]
      <4> HIDE DEF eps
      <4> QED BY <2>6
    <3> HIDE DEF S, kept1, kept2, eps
    <3> QED BY <3>1, <3>2
  <2>8. Meaning(r) = [r EXCEPT !.eps = kept1] /\ Meaning(q) = [q EXCEPT !.eps = kept2]
    <3> HIDE DEF q, eps
    <3> QED BY <2>2 DEF Meaning
  <2> HIDE DEF kept1, kept2, eps
  <2>9. [q EXCEPT !.eps = kept2] = [r EXCEPT !.eps = kept2]
    <3> HIDE DEF q
    <3> QED BY <2>1 DEF TitleRec
  <2> QED BY <1>2, <2>7, <2>8, <2>9 DEF ep
<1> QED BY <1>1, <1>2

(* A report that does not mark the table unsaved leaves what it means. *)
LEMMA SilentReport ==
  ASSUME TypeOK, NEW t \in Titles, NEW rec, Reported(t, rec), dirty' # TRUE
  PROVE  dirty' = dirty /\ Meaning(rec) = Meaning(Title(t))
<1>1. PICK d \in Devices :
        /\ beats[d] # None
        /\ rec = NoteProgress(Title(t), beats[d].job[2], beats[d].report,
                              beats[d].about, now).rec
        /\ IF NoteProgress(Title(t), beats[d].job[2], beats[d].report, beats[d].about, now).dirty
           THEN dirty' = TRUE ELSE dirty' = dirty
  BY DEF Reported
<1>2. /\ beats[d].job[2] \in Numbers /\ beats[d].report \in Reports
      /\ beats[d].about \in Abouts
  BY <1>1, BeatTyped
<1> DEFINE n == beats[d].job[2]
           p == beats[d].report
           a == beats[d].about
           r == Title(t)
           b == Base(r, n, a)
           new == NoteProgress(r, n, p, a, now)
<1>3. n \in Numbers /\ p \in Reports /\ a \in Abouts /\ b = Base(r, n, a)
      /\ new = NoteProgress(r, n, p, a, now) /\ rec = new.rec
      /\ (IF new.dirty THEN dirty' = TRUE ELSE dirty' = dirty)
  BY <1>1, <1>2
<1>4. TitleRec(r)
  BY TitleTyped
<1> HIDE DEF n, p, a, r, b, new
<1>5. ~new.dirty /\ dirty' = dirty
  BY <1>3
<1>6. \/ /\ IsMuted(r, n)
         /\ new = [rec |-> r, dirty |-> FALSE]
      \/ /\ ~IsMuted(r, n)
         /\ new = [rec |-> PutWatched(b, n, now), dirty |-> TRUE]
      \/ /\ ~IsMuted(r, n)
         /\ \E dur \in OptNat :
              new = [rec |-> PutPosition(b, n, p.pos, dur, now), dirty |-> TRUE]
      \/ /\ ~IsMuted(r, n)
         /\ new = [rec |-> b, dirty |-> MergeAbout(r, a) # r]
  BY <1>3, NoteCases
<1>7. rec = r \/ (rec = b /\ MergeAbout(r, a) = r)
  <2>1. CASE new = [rec |-> r, dirty |-> FALSE]
    BY <1>3, <2>1
  <2>2. CASE new = [rec |-> PutWatched(b, n, now), dirty |-> TRUE]
    BY <1>5, <2>2
  <2>3. CASE \E dur \in OptNat :
               new = [rec |-> PutPosition(b, n, p.pos, dur, now), dirty |-> TRUE]
    BY <1>5, <2>3
  <2>4. CASE new = [rec |-> b, dirty |-> MergeAbout(r, a) # r]
    <3>1. rec = b
      BY <1>3, <2>4
    <3>2. new.dirty = (MergeAbout(r, a) # r)
      BY <2>4
    <3>3. MergeAbout(r, a) = r
      BY <1>5, <3>2
    <3> QED BY <3>1, <3>3
  <2> QED BY <1>6, <2>1, <2>2, <2>3, <2>4
<1>8. MergeAbout(r, a) = r => b = IF n = 0 THEN r ELSE WithEp(r, n, Ep(r, n))
  BY <1>3 DEF Base
<1>9. Meaning(rec) = Meaning(r)
  BY <1>3, <1>4, <1>7, <1>8, MeaningOfNote
<1> QED BY <1>5, <1>9 DEF r

LEMMA UnsavedNext ==
  ASSUME TypeOK, DamagedIsEmpty, UnsavedIsDirty, [Next]_vars
  PROVE  UnsavedIsDirty'
<1>0. dirty \in BOOLEAN
  BY DEF TypeOK
<1>1. CASE Quiet
  BY <1>1 DEF Quiet, UnsavedIsDirty, SameShelf
<1>2. CASE SaveStep
  <2>1. mem' = mem /\ (disk'.table = mem \/ (disk' = disk /\ dirty' = dirty))
    BY <1>2, SaveTables, SaveFile
  <2> QED BY <2>1 DEF UnsavedIsDirty, SameShelf
<1>3. CASE TitleStep
  <2>1. PICK t \in Titles : \E rec : SetTitle(t, rec) /\ (Marked(t, rec) \/ Reported(t, rec))
    BY <1>3 DEF TitleStep
  <2>2. PICK rec : SetTitle(t, rec) /\ (Marked(t, rec) \/ Reported(t, rec))
    BY <2>1
  <2>3. CASE dirty' = TRUE
    BY <2>3 DEF UnsavedIsDirty
  <2>4. CASE dirty' # TRUE
    <3>1. Reported(t, rec)
      BY <2>2, <2>4 DEF Marked
    <3>2. dirty' = dirty /\ Meaning(rec) = Meaning(Title(t))
      BY <2>4, <3>1, SilentReport
    <3>3. mem'.channels = mem.channels /\ disk' = disk
      BY <1>3, <2>2, TitlesOnly DEF TitleStep
    <3>4. \A u \in Titles : Meaning(mem'.titles[u]) = Meaning(mem.titles[u])
      BY <2>2, <3>2, OneTitle DEF Title
    <3> QED BY <3>2, <3>3, <3>4 DEF UnsavedIsDirty, SameShelf
  <2> QED BY <2>3, <2>4
<1>4. CASE ChannelStep
  BY <1>4 DEF ChannelStep, UnsavedIsDirty
<1>5. CASE Restart
  <2>1. mem' = disk'.table
    BY <1>5, RestartTables
  <2> QED BY <2>1 DEF UnsavedIsDirty, SameShelf
<1> QED BY <1>1, <1>2, <1>3, <1>4, <1>5, StepKinds

(* No call changes the table and forgets to mark it unsaved, and no save, failed
   or not, unmarks it without having written it. *)
THEOREM FileFollowsMemory == Spec => []UnsavedIsDirty
<1>1. Init => UnsavedIsDirty
  BY DEF Init, Missing, UnsavedIsDirty, SameShelf
<1>2. TypeOK /\ DamagedIsEmpty /\ UnsavedIsDirty /\ [Next]_vars
        => UnsavedIsDirty' /\ DamagedIsEmpty'
  BY UnsavedNext, DamagedNext
<1> QED BY <1>1, <1>2, TypeInit, TypeNext, WatchInit, PTL DEF Spec

(***************************************************************************)
(* What an answer vouches for.  A call whose change no file holds has left *)
(* the table marked unsaved, so that its own save writes it or fails.      *)
(***************************************************************************)
AckInv == kept /\ \A c \in Callers : calls[c] # None /\ calls[c] = "unsaved" => dirty

LEMMA CallSteps ==
  ASSUME TypeOK, [Next]_vars
  PROVE  \/ calls' = calls /\ kept' = kept /\ (dirty => dirty')
         \/ dirty' /\ kept' = kept
         \/ calls' = AfterSave /\ kept' = kept /\ \E force \in BOOLEAN : Save(force)
         \/ \E c \in Callers : AnswerCall(c)
         \/ kept' = kept /\ calls' = [c \in Callers |-> None]
<1> DEFINE Goal == \/ calls' = calls /\ kept' = kept /\ (dirty => dirty')
                   \/ dirty' /\ kept' = kept
                   \/ calls' = AfterSave /\ kept' = kept /\ \E force \in BOOLEAN : Save(force)
                   \/ \E c \in Callers : AnswerCall(c)
                   \/ kept' = kept /\ calls' = [c \in Callers |-> None]
<1> USE DEF table
<1>1. CASE UNCHANGED vars
  BY <1>1 DEF vars
<1>2. ASSUME NEW c \in Callers,
             \/ PostFav(c) \/ PostWatched(c) \/ PostDrop(c)
             \/ PostFollow(c) \/ PostSeen(c) \/ PostOpened(c)
      PROVE  dirty' /\ kept' = kept
  <2> USE DEF TitleAct, ChannelAct, Act, Changed
  <2>1. CASE PostFav(c)
    BY <2>1 DEF PostFav
  <2>2. CASE PostWatched(c)
    BY <2>2 DEF PostWatched
  <2>3. CASE PostDrop(c)
    BY <2>3 DEF PostDrop
  <2>4. CASE PostFollow(c)
    BY <2>4 DEF PostFollow
  <2>5. CASE PostSeen(c)
    BY <2>5 DEF PostSeen
  <2>6. CASE PostOpened(c)
    BY <2>6 DEF PostOpened
  <2> QED BY <1>2, <2>1, <2>2, <2>3, <2>4, <2>5, <2>6
<1>3. CASE Play \/ Tick
  BY <1>3 DEF Play, Tick
<1>4. CASE ShelfBegin
  BY <1>4 DEF ShelfBegin, Changed
<1>5. CASE Idle
  BY <1>5 DEF Idle
<1>6. ASSUME NEW d \in Devices, Beat(d) \/ Note(d) \/ NoteSave(d)
      PROVE  Goal
  BY <1>6 DEF Beat, Note, NoteSave, Changed
<1>7. ASSUME NEW f \in Fetchers, Fetch(f) \/ Latest(f) \/ FetchSave(f)
      PROVE  Goal
  BY <1>7 DEF Fetch, Latest, FetchSave, Changed
<1>8. CASE Restart
  BY <1>8 DEF Restart
<1> QED BY <1>1, <1>2, <1>3, <1>4, <1>5, <1>6, <1>7, <1>8 DEF Next

LEMMA SaveMarks ==
  ASSUME TypeOK, AckInv, NEW force \in BOOLEAN, Save(force)
  PROVE  \A c \in Callers : AfterSave[c] # None /\ AfterSave[c] = "unsaved" => dirty'
<1>1. AfterSave = [c \in Callers |-> IF dirty /\ ~dirty' /\ calls[c] # None
                                     THEN "saved" ELSE calls[c]]
  BY DEF AfterSave
<1> QED BY <1>1 DEF AckInv

LEMMA AckNext ==
  ASSUME TypeOK, AckInv, [Next]_vars
  PROVE  AckInv'
<1>1. CASE calls' = calls /\ kept' = kept /\ (dirty => dirty')
  BY <1>1 DEF AckInv
<1>2. CASE dirty' /\ kept' = kept
  BY <1>2 DEF AckInv
<1>3. CASE calls' = AfterSave /\ kept' = kept /\ \E force \in BOOLEAN : Save(force)
  BY <1>3, SaveMarks DEF AckInv
<1>4. ASSUME NEW c \in Callers, AnswerCall(c)
      PROVE  AckInv'
  <2>1. /\ calls[c] # None /\ Save(TRUE)
        /\ calls' = [AfterSave EXCEPT ![c] = None]
        /\ kept' = (kept /\ (AfterSave[c] = "saved" \/ (Failed /\ dirty /\ ~Throttled(TRUE))))
    BY <1>4 DEF AnswerCall
  <2>2. \A x \in Callers : AfterSave[x] # None /\ AfterSave[x] = "unsaved" => dirty'
    BY <2>1, SaveMarks
  <2>3. AfterSave[c] = "saved" \/ (Failed /\ dirty /\ ~Throttled(TRUE))
    <3>1. AfterSave[c] = IF dirty /\ ~dirty' THEN "saved" ELSE calls[c]
      BY <2>1 DEF AfterSave
    <3>2. CASE ~dirty
      <4>1. calls[c] # "unsaved" /\ calls[c] \in {"unsaved", "saved"}
        BY <2>1, <3>2 DEF AckInv, TypeOK
      <4> QED BY <3>1, <3>2, <4>1
    <3>3. CASE dirty
      <4>1. ~Throttled(TRUE)
        BY DEF Throttled
      <4>2. Written \/ Failed
        BY <2>1, <3>3, <4>1 DEF Save
      <4>3. Written => ~dirty'
        BY DEF Written
      <4> QED BY <3>1, <3>3, <4>1, <4>2, <4>3
    <3> QED BY <3>2, <3>3
  <2>4. kept'
    BY <2>1, <2>3 DEF AckInv
  <2>5. \A x \in Callers : calls'[x] = IF x = c THEN None ELSE AfterSave[x]
    BY <2>1 DEF AfterSave
  <2> QED BY <2>2, <2>4, <2>5 DEF AckInv
<1>5. CASE kept' = kept /\ calls' = [c \in Callers |-> None]
  BY <1>5 DEF AckInv
<1> QED BY <1>1, <1>2, <1>3, <1>4, <1>5, CallSteps

(* An act of the viewer that was answered is in the file, whoever wrote it,
   unless the write of its own save failed. *)
THEOREM AnswersAreKept == Spec => []AckedOnDisk
<1>1. Init => AckInv
  BY DEF Init, AckInv
<1>2. AckInv => AckedOnDisk
  BY DEF AckInv, AckedOnDisk
<1>3. TypeOK /\ AckInv /\ [Next]_vars => AckInv'
  BY AckNext
<1> QED BY <1>1, <1>2, <1>3, TypeInit, TypeNext, PTL DEF Spec

(***************************************************************************)
(* Drops and resume points.                                                *)
(***************************************************************************)
LEMMA RecordedOf ==
  ASSUME NEW t, NEW n
  PROVE  /\ Recorded(t, n) = RecordedIn(Title(t), n)
         /\ Recorded(t, n)' = RecordedIn(mem'.titles[t], n)
BY DEF Recorded, RecordedIn, Title

LEMMA TablesUntouched ==
  ASSUME TypeOK, Quiet \/ SaveStep \/ ChannelStep
  PROVE  mem'.titles = mem.titles
BY ChannelsOnly, SaveTables DEF Quiet, ChannelStep

LEMMA DropStep ==
  ASSUME TypeOK, [Next]_vars, restarts' = restarts,
         NEW t \in Titles, NEW n \in Numbers,
         Barred(t, n), Recorded(t, n) = None
  PROVE  Recorded(t, n)' = None
<1>1. CASE Quiet \/ SaveStep \/ ChannelStep
  <2>1. mem'.titles[t] = Title(t)
    BY <1>1, TablesUntouched DEF Title
  <2> QED BY <2>1, RecordedOf
<1>2. CASE TitleStep
  <2>1. PICK u \in Titles : \E rec : SetTitle(u, rec) /\ (Marked(u, rec) \/ Reported(u, rec))
    BY <1>2 DEF TitleStep
  <2>2. PICK rec : SetTitle(u, rec) /\ (Marked(u, rec) \/ Reported(u, rec))
    BY <2>1
  <2>3. mem'.titles[t] = IF t = u THEN rec ELSE Title(t)
    BY <2>2, OneTitle
  <2>4. RecordedIn(Title(t), n) = None
    BY RecordedOf
  <2>5. CASE t # u
    BY <2>3, <2>4, <2>5, RecordedOf
  <2>6. CASE t = u
    <3>1. CASE Marked(u, rec)
      <4>1. NoNewPosition(Title(t), rec)
        BY <2>6, <3>1, MarkedTimes
      <4> QED BY <2>3, <2>4, <2>6, <4>1, RecordedOf DEF NoNewPosition
    <3>2. CASE Reported(u, rec)
      <4>1. PICK m \in Numbers, p \in Reports :
              /\ OnlyPosition(Title(t), rec, m, p.pos)
              /\ IsMuted(Title(t), m) => rec = Title(t)
        BY <2>6, <3>2, ReportedTimes
      <4>2. RecordedIn(rec, n) = None
        <5>1. CASE m = n
          <6>1. IsMuted(Title(t), n)
            BY DEF Barred, IsMuted
          <6> QED BY <2>4, <4>1, <5>1, <6>1
        <5>2. CASE m # n
          BY <2>4, <4>1, <5>2 DEF OnlyPosition
        <5> QED BY <5>1, <5>2
      <4> QED BY <2>3, <2>6, <4>2, RecordedOf
    <3> QED BY <2>2, <3>1, <3>2
  <2> QED BY <2>5, <2>6
<1>3. CASE Restart
  <2>1. restarts' = restarts + 1 /\ restarts \in Nat
    BY <1>3 DEF Restart, TypeOK
  <2> QED BY <2>1
<1> QED BY <1>1, <1>2, <1>3, StepKinds

(* No report brings back a position that was dropped, from any player and
   however late, until a play lifts the mute. *)
THEOREM DropsHold == Spec => DropHolds
<1>1. TypeOK /\ [Next]_vars =>
        [restarts' = restarts => \A t \in Titles, n \in Numbers :
           Barred(t, n) /\ Barred(t, n)' /\ Recorded(t, n) = None
             => Recorded(t, n)' = None]_vars
  BY DropStep
<1> QED BY <1>1, ShelfTypeCorrect, PTL DEF DropHolds, Spec

(* A report the guard let through stays above the resume point of its job
   until a play moves that. *)
ResumeInv ==
  \A d \in Devices :
    beats[d] # None /\ beats[d].pc = "note" /\ ~beats[d].crossed =>
      ~Held(beats[d].report.pos, jobs[beats[d].job].start)

LEMMA ResumeFrame ==
  ASSUME ResumeInv, UNCHANGED players
  PROVE  ResumeInv'
BY DEF ResumeInv, players

LEMMA ResumeNext ==
  ASSUME TypeOK, ResumeInv, [Next]_vars
  PROVE  ResumeInv'
<1>1. CASE UNCHANGED vars
  BY <1>1, ResumeFrame DEF vars, players
<1>2. ASSUME NEW c \in Callers,
             \/ PostFav(c) \/ PostWatched(c) \/ PostDrop(c)
             \/ PostFollow(c) \/ PostSeen(c) \/ PostOpened(c) \/ AnswerCall(c)
      PROVE  ResumeInv'
  <2>1. UNCHANGED players
    <3> USE DEF TitleAct, ChannelAct, Act
    <3>1. CASE PostFav(c) \/ PostWatched(c) \/ PostDrop(c)
      BY <3>1 DEF PostFav, PostWatched, PostDrop
    <3>2. CASE PostFollow(c) \/ PostSeen(c) \/ PostOpened(c)
      BY <3>2 DEF PostFollow, PostSeen, PostOpened
    <3>3. CASE AnswerCall(c)
      BY <3>3 DEF AnswerCall
    <3> QED BY <1>2, <3>1, <3>2, <3>3
  <2> QED BY <2>1, ResumeFrame
<1>3. CASE Play
  <2>1. PICK j \in JobSet, s \in Starts :
          /\ jobs' = [jobs EXCEPT ![j].start = s, ![j].begun = FALSE]
          /\ beats' = [d \in Devices |->
               IF beats[d] = None THEN None
               ELSE [beats[d] EXCEPT !.crossed = @ \/ beats[d].job = j]]
    BY <1>3 DEF Play
  <2> SUFFICES ASSUME NEW d \in Devices,
                      beats'[d] # None, beats'[d].pc = "note", ~beats'[d].crossed
               PROVE  ~Held(beats'[d].report.pos, jobs'[beats'[d].job].start)
    BY DEF ResumeInv
  <2>2. beats[d] # None /\ beats[d] \in Beats
    BY <2>1 DEF TypeOK
  <2>3. beats'[d] = [beats[d] EXCEPT !.crossed = @ \/ beats[d].job = j]
    BY <2>1, <2>2
  <2>4. /\ beats'[d].pc = beats[d].pc /\ beats'[d].job = beats[d].job
        /\ beats'[d].report = beats[d].report
    BY <2>2, <2>3 DEF Beats
  <2>5. beats'[d].crossed = (beats[d].crossed \/ beats[d].job = j)
    BY <2>2, <2>3 DEF Beats
  <2>6. ~beats[d].crossed /\ beats[d].job # j
    BY <2>5
  <2>7. beats[d].job \in JobSet
    BY <2>2, BeatTyped
  <2>8. jobs'[beats[d].job] = jobs[beats[d].job]
    BY <2>1, <2>6, <2>7 DEF TypeOK
  <2> QED BY <2>2, <2>4, <2>6, <2>8 DEF ResumeInv
<1>4. CASE ShelfBegin
  <2>1. PICK j \in JobSet, r \in Runtimes, p \in Posters :
          /\ jobs' = [jobs EXCEPT ![j].begun = TRUE, ![j].about = About(j, r, p)]
          /\ beats' = beats
    BY <1>4 DEF ShelfBegin
  <2>2. \A x \in JobSet : jobs'[x].start = jobs[x].start
    BY <2>1 DEF TypeOK, Plays
  <2> QED BY <2>1, <2>2, BeatTyped DEF ResumeInv
<1>5. CASE Idle \/ Tick
  BY <1>5, ResumeFrame DEF Idle, Tick
<1>6. ASSUME NEW d \in Devices, Beat(d)
      PROVE  ResumeInv'
  <2>1. PICK j \in JobSet, r \in Reports :
          /\ ~Held(r.pos, jobs[j].start)
          /\ beats' = [beats EXCEPT ![d] =
               [pc |-> "note", job |-> j, report |-> r, about |-> jobs[j].about,
                crossed |-> FALSE]]
          /\ jobs' = jobs
    BY <1>6 DEF Beat
  <2>2. beats'[d].job = j /\ beats'[d].report = r
    BY <2>1 DEF TypeOK
  <2>3. \A x \in Devices : x # d => beats'[x] = beats[x]
    BY <2>1 DEF TypeOK
  <2> QED BY <2>1, <2>2, <2>3 DEF ResumeInv
<1>7. ASSUME NEW d \in Devices, Note(d) \/ NoteSave(d)
      PROVE  ResumeInv'
  <2>1. jobs' = jobs /\ beats[d] \in Beats /\ beats[d] # None
    BY <1>7 DEF Note, NoteSave, TypeOK
  <2>2. \A x \in Devices : x # d => beats'[x] = beats[x]
    BY <1>7 DEF Note, NoteSave, TypeOK
  <2>3. beats'[d] = None \/ beats'[d].pc = "save"
    BY <1>7, <2>1 DEF Note, NoteSave, TypeOK, Beats
  <2> QED BY <2>1, <2>2, <2>3 DEF ResumeInv
<1>8. ASSUME NEW f \in Fetchers, Fetch(f) \/ Latest(f) \/ FetchSave(f)
      PROVE  ResumeInv'
  BY <1>8, ResumeFrame DEF Fetch, Latest, FetchSave
<1>9. CASE Restart
  BY <1>9 DEF Restart, ResumeInv
<1> QED BY <1>1, <1>2, <1>3, <1>4, <1>5, <1>6, <1>7, <1>8, <1>9 DEF Next

(* A report that passed the resume guard does not set the resume point before the offset
   of its title, whichever player sends it and however long it is under way, unless a
   play of the same title is begun between the guard and the note. *)
THEOREM ResumePointHolds == Spec => ResumePointKept
<1>1. TypeOK /\ ResumeInv /\ [Next]_vars =>
        [\A d \in Devices : Note(d) /\ ~beats[d].crossed => NotBefore(d)]_vars
  <2> SUFFICES ASSUME TypeOK, ResumeInv, NEW d \in Devices, Note(d), ~beats[d].crossed
               PROVE  NotBefore(d)
    OBVIOUS
  <2> DEFINE j == beats[d].job
             t == j[1]
             n == j[2]
  <2> SUFFICES ASSUME Recorded(t, n)' # Recorded(t, n), Recorded(t, n)' # None,
                      jobs[j].start # None
               PROVE  Recorded(t, n)' >= jobs[j].start - 10
    BY DEF NotBefore
  <2> DEFINE p == beats[d].report
             a == beats[d].about
             q == NoteProgress(Title(t), n, p, a, now).rec
  <2>1. beats[d] # None /\ beats[d].pc = "note" /\ SetTitle(t, q)
    BY DEF Note
  <2>2. t \in Titles /\ n \in Numbers /\ p \in Reports /\ a \in Abouts
        /\ beats[d].job \in JobSet
    BY <2>1, BeatTyped
  <2>3. TitleRec(Title(t))
    BY <2>2, TitleTyped
  <2>4. q = NoteProgress(Title(t), n, p, a, now).rec
    OBVIOUS
  <2>j. t' = t /\ n' = n
    <3>1. beats[d] \in Beats /\ beats' = [beats EXCEPT ![d].pc = "save"]
      BY <2>1, BeatTyped DEF Note
    <3>2. beats'[d].job = beats[d].job
      BY <3>1 DEF TypeOK, Beats
    <3> QED BY <3>2
  <2> HIDE DEF p, a, q, t, n
  <2>5. OnlyPosition(Title(t), q, n, p.pos)
    BY <2>2, <2>3, <2>4, NoteTimes
  <2>6. mem'.titles[t] = q
    BY <2>1, <2>2, OneTitle
  <2>r. Recorded(t, n) = RecordedIn(Title(t), n)
    BY DEF Recorded, RecordedIn
  <2>s. Recorded(t, n)' = RecordedIn(q, n)
    BY <2>6, <2>j DEF Recorded, RecordedIn, Title
  <2>7. Recorded(t, n)' = p.pos
    BY <2>2, <2>5, <2>r, <2>s DEF OnlyPosition
  <2>8. ~Held(p.pos, jobs[beats[d].job].start)
    BY <2>1 DEF ResumeInv, p
  <2>9. p.pos \in Nat /\ jobs[beats[d].job].start \in Nat
    BY <2>2, ReportTyped DEF TypeOK, Plays, OptNat
  <2> QED BY <2>7, <2>8, <2>9 DEF Held
<1>2. Init => ResumeInv
  BY DEF Init, ResumeInv
<1>3. TypeOK /\ ResumeInv /\ [Next]_vars => ResumeInv'
  BY ResumeNext
<1> QED BY <1>1, <1>2, <1>3, TypeInit, TypeNext, PTL DEF ResumePointKept, Spec

(***************************************************************************)
(* The opened videos of a channel.  Every entry is stamped no later than   *)
(* now, in memory and in the file, so that what the cap drops is not the   *)
(* video just opened.                                                      *)
(***************************************************************************)
Stamped(s, at) == \A i \in 1..Len(s) : s[i].at <= at

LEMMA Entries ==
  ASSUME NEW s \in Seq(Opening), NEW i \in 1..Len(s)
  PROVE  s[i] \in Opening /\ s[i].at \in Nat /\ s[i].vid \in Vids
<1>1. s[i] \in Opening
  BY ElementOfSeq
<1> QED BY <1>1 DEF Opening

(* One more entry than the cap, and the oldest of them dropped. *)
LEMMA CapDropsOldest ==
  ASSUME NEW s \in Seq(Opening), Len(s) = OpenedCap, NEW e \in Opening, Stamped(s, e.at),
         NEW new, new = Without(Append(s, e), OldestEntry(Append(s, e)))
  PROVE  /\ new \in Seq(Opening) /\ Len(new) = Len(s)
         /\ \A k \in 1..Len(s) : new[k] = e \/ \E i \in 1..Len(s) : new[k] = s[i]
         /\ new[Len(s)] = e
         /\ \A i \in 1..Len(s) :
              \/ \E k \in 1..Len(s) : new[k] = s[i]
              \/ \A k \in 1..Len(s) : s[i].at <= new[k].at
<1> DEFINE a == Append(s, e)
           o == OldestEntry(a)
<1>1. OpenedCap \in Nat \ {0} /\ Len(s) \in Nat
  BY ChannelAssumption
<1>2. /\ a \in Seq(Opening) /\ Len(a) = Len(s) + 1
      /\ \A i \in 1..Len(s) : a[i] = s[i]
      /\ a[Len(s) + 1] = e
  BY AppendProperties
<1>3. o = OldestEntry(a) /\ new = Without(a, o)
  OBVIOUS
<1> HIDE DEF a, o
<1>4. /\ o \in 1..Len(a)
      /\ \A k \in 1..Len(a) : a[o].at <= a[k].at
      /\ \A i \in 1..Len(a) :
           (\A k \in 1..Len(a) : a[i].at <= a[k].at) => o <= i
  <2>1. Len(a) > 0
    BY <1>1, <1>2
  <2>2. /\ OldestEntry(a) \in 1..Len(a)
        /\ \A k \in 1..Len(a) : a[OldestEntry(a)].at <= a[k].at
        /\ \A i \in 1..Len(a) :
             (\A k \in 1..Len(a) : a[i].at <= a[k].at) => OldestEntry(a) <= i
    BY <1>2, <2>1, OldestIs
  <2> QED BY <1>3, <2>2
<1>5. /\ new \in Seq(Opening) /\ Len(new) = Len(a) - 1
      /\ \A k \in 1..(Len(a) - 1) : new[k] = IF k < o THEN a[k] ELSE a[k + 1]
  BY <1>2, <1>3, <1>4, WithoutOne
<1>6. \A i \in 1..Len(a) : a[i].at \in Nat
  BY <1>2, Entries
<1>7. \A i \in 1..Len(a) : a[i].at <= e.at
  BY <1>1, <1>2, <1>6 DEF Stamped
<1>8. o # Len(s) + 1
  <2> SUFFICES ASSUME o = Len(s) + 1 PROVE FALSE
    OBVIOUS
  <2>1. 1 \in 1..Len(a)
    BY <1>1, <1>2
  <2>2. \A k \in 1..Len(a) : a[1].at <= a[k].at
    BY <1>2, <1>4, <1>6, <1>7, <2>1
  <2>3. o <= 1
    BY <1>4, <2>1, <2>2
  <2> QED BY <1>1, <2>3
<1>9. o \in 1..Len(s)
  BY <1>1, <1>2, <1>4, <1>8
<1>10. new[Len(s)] = e
  BY <1>1, <1>2, <1>5, <1>9
<1>11. ASSUME NEW k \in 1..Len(s)
       PROVE  new[k] = e \/ \E i \in 1..Len(s) : new[k] = s[i]
  <2>1. CASE k < o
    BY <1>1, <1>2, <1>5, <2>1
  <2>2. CASE ~(k < o) /\ k = Len(s)
    BY <1>10, <2>2
  <2>3. CASE ~(k < o) /\ k # Len(s)
    <3>1. k + 1 \in 1..Len(s) /\ new[k] = a[k + 1]
      BY <1>1, <1>2, <1>5, <2>3
    <3> QED BY <1>2, <3>1
  <2> QED BY <2>1, <2>2, <2>3
<1>12. ASSUME NEW i \in 1..Len(s)
       PROVE  \/ \E k \in 1..Len(s) : new[k] = s[i]
              \/ \A k \in 1..Len(s) : s[i].at <= new[k].at
  <2>1. CASE i < o
    BY <1>1, <1>2, <1>5, <2>1
  <2>2. CASE i > o
    <3>1. i - 1 \in 1..Len(s) /\ ~(i - 1 < o) /\ (i - 1) + 1 = i
      BY <1>1, <1>9, <2>2
    <3>2. new[i - 1] = a[i]
      BY <1>2, <1>5, <3>1
    <3> QED BY <1>2, <3>1, <3>2
  <2>3. CASE i = o
    <3>1. \A k \in 1..Len(s) : \E m \in 1..Len(a) : new[k] = a[m]
      <4> TAKE k \in 1..Len(s)
      <4>1. k \in 1..Len(a) /\ k + 1 \in 1..Len(a) /\ k \in 1..(Len(a) - 1)
        BY <1>1, <1>2
      <4> QED BY <1>5, <4>1
    <3>2. s[i].at = a[o].at
      BY <1>2, <2>3
    <3> QED BY <1>4, <3>1, <3>2
  <2> QED BY <1>1, <1>9, <2>1, <2>2, <2>3
<1> QED BY <1>1, <1>2, <1>5, <1>10, <1>11, <1>12

(* Opening or forgetting a video: what is kept is of before or of now, an opened
   video is there, and of a full table only what is oldest goes. *)
LEMMA OpenedKeeps ==
  ASSUME NEW ch, ChannelRec(ch), NEW v \in Vids, NEW on \in BOOLEAN, NEW at \in Nat,
         NEW s, s = ch.opened, Stamped(s, at),
         NEW new, new = VideoOpened(ch, v, on, at).opened
  PROVE  /\ new \in Seq(Opening) /\ Stamped(new, at)
         /\ on => \E k \in 1..Len(new) : new[k].vid = v
         /\ Len(s) = OpenedCap /\ Len(new) = OpenedCap =>
              \A i \in 1..Len(s) :
                (\A k \in 1..Len(new) : new[k].vid # s[i].vid) =>
                  \A k \in 1..Len(new) : s[i].at <= new[k].at
<1> DEFINE e == [vid |-> v, at |-> at]
           q == VideoOpened(ch, v, on, at)
<1>1. /\ s \in Seq(Opening) /\ Len(s) \in Nat /\ Len(s) <= OpenedCap
      /\ OpenedCap \in Nat \ {0}
  BY ChannelFields, ChannelAssumption
<1>2. e \in Opening /\ e.vid = v /\ e.at = at
  BY DEF Opening
<1>3. e = [vid |-> v, at |-> at] /\ q = VideoOpened(ch, v, on, at) /\ new = q.opened
  OBVIOUS
<1> HIDE DEF e, q
<1>4. \/ /\ on /\ \E i \in 1..Len(s) : s[i].vid = v
         /\ new \in Seq(Opening) /\ Len(new) = Len(s)
         /\ \A i \in 1..Len(s) :
              new[i] = IF s[i].vid = v THEN e ELSE s[i]
      \/ /\ on /\ Len(s) < OpenedCap
         /\ new = Append(s, e)
      \/ /\ on /\ Len(s) = OpenedCap
         /\ new = Without(Append(s, e), OldestEntry(Append(s, e)))
      \/ ~on /\ new = s
      \/ ~on /\ \E i \in 1..Len(s) : new = Without(s, i)
  BY <1>3, OpenedCases
<1>5. CASE /\ on /\ \E i \in 1..Len(s) : s[i].vid = v
           /\ new \in Seq(Opening) /\ Len(new) = Len(s)
           /\ \A i \in 1..Len(s) :
                new[i] = IF s[i].vid = v THEN e ELSE s[i]
  <2>1. \A i \in 1..Len(s) : new[i].vid = s[i].vid
    BY <1>2, <1>5
  <2>2. \A i \in 1..Len(s) : new[i].at \in {s[i].at, at}
    BY <1>2, <1>5
  <2>3. \A i \in 1..Len(s) : new[i].at <= at
    BY <2>2 DEF Stamped
  <2>4. Stamped(new, at)
    BY <1>5, <2>3 DEF Stamped
  <2>5. \E k \in 1..Len(new) : new[k].vid = v
    BY <1>5, <2>1
  <2> QED BY <1>5, <2>1, <2>4, <2>5
<1>6. CASE on /\ Len(s) < OpenedCap /\ new = Append(s, e)
  <2>1. /\ new \in Seq(Opening) /\ Len(new) = Len(s) + 1
        /\ \A i \in 1..Len(s) : new[i] = s[i]
        /\ new[Len(s) + 1] = e
    <3>1. /\ Append(s, e) \in Seq(Opening) /\ Len(Append(s, e)) = Len(s) + 1
          /\ \A i \in 1..Len(s) : Append(s, e)[i] = s[i]
          /\ Append(s, e)[Len(s) + 1] = e
      BY <1>1, <1>2, AppendProperties
    <3> QED BY <1>6, <3>1
  <2>2. Stamped(new, at)
    BY <1>1, <1>2, <2>1 DEF Stamped
  <2>3. Len(s) + 1 \in 1..Len(new)
    BY <1>1, <2>1
  <2>4. new[Len(s) + 1].vid = v
    BY <1>2, <2>1
  <2> QED BY <1>1, <1>6, <2>1, <2>2, <2>3, <2>4
<1>7. CASE /\ on /\ Len(s) = OpenedCap
           /\ new = Without(Append(s, e), OldestEntry(Append(s, e)))
  <2>1. /\ new \in Seq(Opening) /\ Len(new) = Len(s)
        /\ \A k \in 1..Len(s) : new[k] = e \/ \E i \in 1..Len(s) : new[k] = s[i]
        /\ new[Len(s)] = e
        /\ \A i \in 1..Len(s) :
             \/ \E k \in 1..Len(s) : new[k] = s[i]
             \/ \A k \in 1..Len(s) : s[i].at <= new[k].at
    <3>1. Stamped(s, e.at) /\ Len(s) = OpenedCap
          /\ new = Without(Append(s, e), OldestEntry(Append(s, e)))
      BY <1>2, <1>7
    <3> QED BY <1>1, <1>2, <3>1, CapDropsOldest
  <2>2. Stamped(new, at)
    BY <1>1, <1>2, <2>1 DEF Stamped
  <2>3. Len(s) \in 1..Len(new)
    <3>1. Len(s) \in Nat \ {0} /\ Len(new) = Len(s)
      BY <1>1, <1>7, <2>1
    <3> QED BY <3>1
  <2>4. new[Len(s)].vid = v
    BY <1>2, <2>1
  <2>5. ASSUME NEW i \in 1..Len(s), \A k \in 1..Len(new) : new[k].vid # s[i].vid
        PROVE  \A k \in 1..Len(new) : s[i].at <= new[k].at
    BY <2>1, <2>5
  <2> QED BY <2>1, <2>2, <2>3, <2>4, <2>5
<1>8. CASE ~on /\ new = s
  BY <1>1, <1>8
<1>9. CASE ~on /\ \E i \in 1..Len(s) : new = Without(s, i)
  <2>1. PICK i \in 1..Len(s) : new = Without(s, i)
    BY <1>9
  <2>2. /\ new \in Seq(Opening) /\ Len(new) = Len(s) - 1
        /\ \A k \in 1..(Len(s) - 1) : new[k] = IF k < i THEN s[k] ELSE s[k + 1]
    BY <1>1, <2>1, WithoutOne
  <2>3. Stamped(new, at)
    <3>1. \A k \in 1..(Len(s) - 1) : \E m \in 1..Len(s) : new[k] = s[m]
      <4> TAKE k \in 1..(Len(s) - 1)
      <4>1. k \in 1..Len(s) /\ k + 1 \in 1..Len(s)
        BY <1>1
      <4> QED BY <2>2, <4>1
    <3> QED BY <2>2, <3>1 DEF Stamped
  <2> QED BY <1>1, <1>9, <2>2, <2>3
<1> QED BY <1>4, <1>5, <1>6, <1>7, <1>8, <1>9

(* A call on a channel leaves its opened videos, or is VideoOpened. *)
LEMMA ChannelCallOpened ==
  ASSUME TypeOK, NEW c \in Channels, NEW rec, ChannelCall(c, rec)
  PROVE  \/ rec.opened = Channel(c).opened
         \/ \E v \in Vids, on \in BOOLEAN : rec = VideoOpened(Channel(c), v, on, now)
<1> DEFINE ch == Channel(c)
<1>1. ChannelRec(ch)
  BY ChannelTyped
<1>2. \/ rec = Seen(ch, now)
      \/ \E v \in Vids, on \in BOOLEAN : rec = VideoOpened(ch, v, on, now)
      \/ \E on \in BOOLEAN, snap \in {None, "snap"} : rec = Follow(ch, on, snap, now)
      \/ \E videos \in SUBSET Vids : rec = SetLatest(ch, videos, now)
      \/ \E videos \in SUBSET Vids : rec = SetSnap(SetLatest(ch, videos, now), "snap")
      \/ rec = SetSnap(ch, "snap")
  BY DEF ChannelCall
<1>3. \A videos : SetLatest(ch, videos, now).opened = ch.opened
      /\ SetSnap(SetLatest(ch, videos, now), "snap").opened = ch.opened
  <2> HIDE DEF ch
  <2> QED BY <1>1 DEF SetLatest, SetSnap, ChannelRec, ChannelSet
<1>4. /\ Seen(ch, now).opened = ch.opened /\ SetSnap(ch, "snap").opened = ch.opened
      /\ \A on, snap : Follow(ch, on, snap, now).opened = ch.opened
  <2> HIDE DEF ch
  <2> QED BY <1>1 DEF Seen, SetSnap, Follow, ChannelRec, ChannelSet
<1> HIDE DEF ch
<1>5. \/ rec.opened = ch.opened
      \/ \E v \in Vids, on \in BOOLEAN : rec = VideoOpened(ch, v, on, now)
  BY <1>2, <1>3, <1>4
<1> QED BY <1>5 DEF ch

OpenedOf(tab, at) == \A c \in Channels : Stamped(tab.channels[c].opened, at)
OpenedInv == OpenedOf(mem, now) /\ OpenedOf(disk.table, now)

LEMMA OpenedLater ==
  ASSUME NEW tab, TableOK(tab), NEW a \in Nat, NEW b \in Nat, a <= b, OpenedOf(tab, a)
  PROVE  OpenedOf(tab, b)
<1> SUFFICES ASSUME NEW c \in Channels, NEW i \in 1..Len(tab.channels[c].opened)
             PROVE  tab.channels[c].opened[i].at <= b
  BY DEF OpenedOf, Stamped
<1>1. tab.channels[c].opened \in Seq(Opening)
  BY ChannelFields DEF TableOK
<1>2. tab.channels[c].opened[i].at \in Nat
  BY <1>1, Entries
<1>3. tab.channels[c].opened[i].at <= a
  BY DEF OpenedOf, Stamped
<1> QED BY <1>2, <1>3

LEMMA EmptyOpened == \A at : OpenedOf(Empty, at)
BY DEF Empty, NewChannel, OpenedOf, Stamped

LEMMA OpenedInit == Init => OpenedInv
BY EmptyOpened DEF Init, Missing, OpenedInv

LEMMA OpenedNext ==
  ASSUME TypeOK, DamagedIsEmpty, OpenedInv, [Next]_vars
  PROVE  OpenedInv'
<1>0. now \in Nat /\ TableOK(mem) /\ TableOK(disk.table)
  BY DEF TypeOK
<1>1. CASE Quiet
  <2>1. now' \in Nat /\ now <= now'
    BY <1>0, <1>1 DEF Quiet
  <2>2. OpenedOf(mem, now') /\ OpenedOf(disk.table, now')
    BY <1>0, <2>1, OpenedLater DEF OpenedInv
  <2> QED BY <1>1, <2>2 DEF Quiet, OpenedInv
<1>2. CASE SaveStep
  <2>1. mem' = mem /\ now' = now /\ disk'.table \in {mem, disk.table}
    BY <1>2, SaveTables, SaveFile
  <2> QED BY <2>1 DEF OpenedInv
<1>3. CASE TitleStep
  <2>1. mem'.channels = mem.channels /\ now' = now /\ disk' = disk
    BY <1>3, TitlesOnly DEF TitleStep
  <2> QED BY <2>1 DEF OpenedInv, OpenedOf
<1>4. CASE ChannelStep
  <2>1. PICK c \in Channels : \E rec : SetChannel(c, rec) /\ ChannelCall(c, rec)
    BY <1>4 DEF ChannelStep
  <2>2. PICK rec : SetChannel(c, rec) /\ ChannelCall(c, rec)
    BY <2>1
  <2>3. Stamped(Channel(c).opened, now) /\ ChannelRec(Channel(c))
    BY ChannelTyped DEF OpenedInv, OpenedOf, Channel
  <2>4. Stamped(rec.opened, now)
    BY <1>0, <2>2, <2>3, ChannelCallOpened, OpenedKeeps
  <2>5. OpenedOf(mem', now)
    BY <2>2, <2>4, OneChannel DEF OpenedInv, OpenedOf, Channel
  <2> QED BY <1>4, <2>5 DEF ChannelStep, OpenedInv
<1>5. CASE Restart
  <2>1. mem' = disk'.table /\ mem' \in {disk.table, Empty} /\ now' = now
    BY <1>5, RestartTables
  <2> QED BY <2>1, EmptyOpened DEF OpenedInv
<1> QED BY <1>1, <1>2, <1>3, <1>4, <1>5, StepKinds

(* What one step does to the opened videos of one channel. *)
NewestOf(ch, was, is) ==
  /\ Len(was) = OpenedCap /\ Len(is) = OpenedCap =>
       \A i \in DOMAIN was :
         (\A k \in DOMAIN is : is[k].vid # was[i].vid) =>
           \A k \in DOMAIN is : was[i].at <= is[k].at
  /\ \A c \in Callers, v \in Vids :
       ChannelAct(c, ch, VideoOpened(Channel(ch), v, TRUE, now))
         => v \in {is[i].vid : i \in DOMAIN is}

LEMMA NewestStep ==
  ASSUME TypeOK, OpenedInv, [Next]_vars, restarts' = restarts, NEW ch \in Channels,
         NEW was, was = Channel(ch).opened,
         NEW is, is = mem'.channels[ch].opened
  PROVE  NewestOf(ch, was, is)
<1>1. ChannelRec(Channel(ch)) /\ Stamped(was, now) /\ now \in Nat
  BY ChannelTyped DEF OpenedInv, OpenedOf, Channel, TypeOK
<1>2. was \in Seq(Opening) /\ DOMAIN was = 1..Len(was)
  BY <1>1, ChannelFields
<1>3. ASSUME is = was
      PROVE  Len(was) = OpenedCap /\ Len(is) = OpenedCap =>
               \A i \in DOMAIN was :
                 (\A k \in DOMAIN is : is[k].vid # was[i].vid) =>
                   \A k \in DOMAIN is : was[i].at <= is[k].at
  BY <1>3
<1>4. ASSUME NEW v \in Vids, NEW on \in BOOLEAN,
             is = VideoOpened(Channel(ch), v, on, now).opened
      PROVE  Len(was) = OpenedCap /\ Len(is) = OpenedCap =>
               \A i \in DOMAIN was :
                 (\A k \in DOMAIN is : is[k].vid # was[i].vid) =>
                   \A k \in DOMAIN is : was[i].at <= is[k].at
  <2>1. /\ is \in Seq(Opening)
        /\ Len(was) = OpenedCap /\ Len(is) = OpenedCap =>
             \A i \in 1..Len(was) :
               (\A k \in 1..Len(is) : is[k].vid # was[i].vid) =>
                 \A k \in 1..Len(is) : was[i].at <= is[k].at
    BY <1>1, <1>4, OpenedKeeps
  <2>2. DOMAIN is = 1..Len(is)
    BY <2>1
  <2> QED BY <1>2, <2>1, <2>2
<1>5. is = was \/ \E v \in Vids, on \in BOOLEAN :
                    is = VideoOpened(Channel(ch), v, on, now).opened
  <2>1. CASE ChannelStep
    <3>1. PICK c \in Channels : \E rec : SetChannel(c, rec) /\ ChannelCall(c, rec)
      BY <2>1 DEF ChannelStep
    <3>2. PICK rec : SetChannel(c, rec) /\ ChannelCall(c, rec)
      BY <3>1
    <3>3. mem'.channels[ch] = IF ch = c THEN rec ELSE Channel(ch)
      BY <3>2, OneChannel
    <3> QED BY <3>2, <3>3, ChannelCallOpened
  <2>2. CASE Quiet \/ SaveStep
    BY <2>2, SaveTables DEF Quiet, Channel
  <2>3. CASE TitleStep
    BY <2>3, TitlesOnly DEF TitleStep, Channel
  <2>4. CASE Restart
    <3>1. restarts' = restarts + 1 /\ restarts \in Nat
      BY <2>4 DEF Restart, TypeOK
    <3> QED BY <3>1
  <2> QED BY <2>1, <2>2, <2>3, <2>4, StepKinds
<1>6. ASSUME NEW c \in Callers, NEW v \in Vids,
             ChannelAct(c, ch, VideoOpened(Channel(ch), v, TRUE, now))
      PROVE  v \in {is[i].vid : i \in DOMAIN is}
  <2> DEFINE rec == VideoOpened(Channel(ch), v, TRUE, now)
  <2>1. SetChannel(ch, rec)
    BY <1>6 DEF ChannelAct, Act
  <2>2. is = rec.opened
    <3> HIDE DEF rec
    <3> QED BY <2>1, OneChannel
  <2>3. is \in Seq(Opening) /\ \E k \in 1..Len(is) : is[k].vid = v
    <3>1. PICK on \in BOOLEAN : on /\ rec = VideoOpened(Channel(ch), v, on, now)
      OBVIOUS
    <3>2. is = VideoOpened(Channel(ch), v, on, now).opened
      BY <2>2, <3>1
    <3> HIDE DEF rec
    <3>3. is \in Seq(Opening) /\ (on => \E k \in 1..Len(is) : is[k].vid = v)
      BY <1>1, <3>2, OpenedKeeps
    <3> QED BY <3>1, <3>3
  <2>4. DOMAIN is = 1..Len(is)
    BY <2>3
  <2> QED BY <2>3, <2>4
<1> QED BY <1>3, <1>4, <1>5, <1>6 DEF NewestOf

(* Of a full table of opened videos only the oldest is dropped, and never the
   video just opened: the clock does not run behind what is stamped, not even
   after the file was read again. *)
THEOREM OpenedStayNewest == Spec => OpenedNewest
<1>1. TypeOK /\ OpenedInv /\ [Next]_vars =>
        [restarts' = restarts => \A ch \in Channels :
           LET was == Channel(ch).opened
               is  == Channel(ch)'.opened
           IN  /\ Len(was) = OpenedCap /\ Len(is) = OpenedCap =>
                    \A i \in DOMAIN was :
                      (\A k \in DOMAIN is : is[k].vid # was[i].vid) =>
                        \A k \in DOMAIN is : was[i].at <= is[k].at
               /\ \A c \in Callers, v \in Vids :
                    ChannelAct(c, ch, VideoOpened(Channel(ch), v, TRUE, now))
                      => v \in OpenedSet(Channel(ch)')]_vars
  <2> SUFFICES ASSUME TypeOK, OpenedInv, [Next]_vars, restarts' = restarts,
                      NEW ch \in Channels
               PROVE  NewestOf(ch, Channel(ch).opened, Channel(ch)'.opened)
    BY DEF NewestOf, OpenedSet
  <2>1. Channel(ch)'.opened = mem'.channels[ch].opened
    BY DEF Channel
  <2> QED BY <2>1, NewestStep
<1>2. TypeOK /\ DamagedIsEmpty /\ OpenedInv /\ [Next]_vars => OpenedInv' /\ DamagedIsEmpty'
  BY OpenedNext, DamagedNext
<1> QED BY <1>1, <1>2, TypeInit, TypeNext, WatchInit, OpenedInit, PTL DEF OpenedNewest, Spec
=============================================================================
