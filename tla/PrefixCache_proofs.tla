-------------------------- MODULE PrefixCache_proofs --------------------------
(***************************************************************************)
(* Theorems about the prefix cache, for every set of prompts, requests,    *)
(* configurations and limits, with proofs checked by TLAPS.  What a        *)
(* request restores is a prefix of its prompt because entries are faithful *)
(* to their keys, and these stay so because insert compares the lengths.   *)
(* The byte total is the number of bytes there are because every entry has *)
(* a key of its own, and the entry evicted is the least recently used one  *)
(* because a stamp is the place of that use in the history of uses.        *)
(***************************************************************************)
EXTENDS PrefixCache, SequenceTheorems, FiniteSetTheorems, TLAPS

(***************************************************************************)
(* Sequences.                                                              *)
(***************************************************************************)
(* swap_remove yields a sequence that is one shorter (insert and           *)
(* evict_to_budget).                                                       *)
LEMMA SwapRemoveIsSeq ==
    ASSUME NEW S, NEW s \in Seq(S), NEW i \in 1..Len(s)
    PROVE  /\ SwapRemove(s, i) \in Seq(S)
           /\ Len(SwapRemove(s, i)) = Len(s) - 1
           /\ \A j \in 1..(Len(s) - 1) :
                 SwapRemove(s, i)[j] = IF j = i THEN s[Len(s)] ELSE s[j]
<1>1. Len(s) \in Nat /\ \A j \in 1..Len(s) : s[j] \in S
  BY LenProperties, ElementOfSeq
<1>2. SwapRemove(s, i) \in [1..(Len(s) - 1) -> S]
  BY <1>1 DEF SwapRemove
<1>3. Len(s) - 1 \in Nat
  BY <1>1
<1>4. SwapRemove(s, i) \in Seq(S)
  BY <1>2, <1>3, IsASeq DEF SwapRemove
<1>5. Len(SwapRemove(s, i)) = Len(s) - 1
  BY <1>2, <1>3, <1>4, LenProperties
<1> QED BY <1>4, <1>5 DEF SwapRemove

(* A strict prefix is shorter: find_longest_prefix leaves a token to       *)
(* prefill.                                                                *)
LEMMA StrictPrefixIsShorter ==
    ASSUME NEW S, NEW c \in Seq(S), NEW p \in Seq(S), IsStrictPrefix(c, p)
    PROVE  Len(c) < Len(p)
<1>1. Len(c) \in Nat /\ Len(p) \in Nat /\ Len(c) <= Len(p)
  BY LenProperties DEF IsStrictPrefix, IsPrefix
<1>2. CASE Len(c) = Len(p)
  <2>1. SubSeq(c, 1, Len(c)) = c /\ SubSeq(p, 1, Len(p)) = p
    BY SubSeqFull
  <2>2. SubSeq(c, 1, Len(c)) = SubSeq(p, 1, Len(c)) /\ c # p
    BY DEF IsStrictPrefix, IsPrefix
  <2> QED BY <2>1, <2>2, <1>2
<1> QED BY <1>1, <1>2

(* The empty cache is a strict prefix of every prompt.                     *)
LEMMA EmptyIsStrictPrefix ==
    ASSUME NEW S, NEW p \in Seq(S), p # <<>>
    PROVE  IsStrictPrefix(<<>>, p)
<1>1. Len(p) \in Nat /\ Len(<<>>) = 0 /\ <<>> \in Seq(S)
  BY LenProperties, EmptySeq
<1>2. SubSeq(<<>>, 1, 0) = <<>> /\ SubSeq(p, 1, 0) = <<>>
  BY SubSeqEmpty
<1> QED BY <1>1, <1>2 DEF IsStrictPrefix, IsPrefix

(* A strict prefix and the rest of the prompt make the prompt.             *)
LEMMA PrefixAndRest ==
    ASSUME NEW S, NEW c \in Seq(S), NEW p \in Seq(S), IsStrictPrefix(c, p)
    PROVE  c \o SubSeq(p, Len(c) + 1, Len(p)) = p
<1>1. Len(c) \in Nat /\ Len(p) \in Nat /\ Len(c) < Len(p)
  BY LenProperties, StrictPrefixIsShorter
<1>2. SubSeq(c, 1, Len(c)) = SubSeq(p, 1, Len(c))
  BY DEF IsStrictPrefix, IsPrefix
<1>3. SubSeq(p, 1, Len(c)) = c /\ SubSeq(p, 1, Len(p)) = p
  BY <1>2, SubSeqFull
<1>4. /\ 1 \in 1..(Len(p) + 1)
      /\ Len(c) \in (1 - 1)..Len(p)
      /\ Len(p) \in Len(c)..Len(p)
  BY <1>1
<1>5. SubSeq(p, 1, Len(c)) \o SubSeq(p, Len(c) + 1, Len(p)) = SubSeq(p, 1, Len(p))
  BY <1>4, ConcatAdjacentSubSeq
<1> QED BY <1>3, <1>5

(* Prefilled, of a prefix and a prompt.                                    *)
Fed(c, p, again) ==
  LET rest == SubSeq(p, Len(c) + 1, Len(p)) IN c \o SubSeq(rest, 1, again) \o rest

(* The prefill of what the restored prefix leaves gives the whole prompt;  *)
(* tokens fed twice make the cache longer, and insert skips it.            *)
LEMMA FedOnce ==
    ASSUME NEW c \in Seq(Nat), NEW p \in Seq(Nat), IsStrictPrefix(c, p),
           NEW again \in 0..(Len(p) - Len(c))
    PROVE  /\ Fed(c, p, again) \in Seq(Nat)
           /\ Len(Fed(c, p, again)) = Len(p) => Fed(c, p, again) = p
<1>0. PICK rest, held :
         /\ rest = SubSeq(p, Len(c) + 1, Len(p))
         /\ held = c \o SubSeq(rest, 1, again) \o rest
         /\ held = Fed(c, p, again)
  BY DEF Fed
<1>1. Len(c) \in Nat /\ Len(p) \in Nat /\ Len(c) < Len(p)
  BY LenProperties, StrictPrefixIsShorter
<1>2. rest \in Seq(Nat) /\ Len(rest) = Len(p) - Len(c)
  <2>1. \A i \in (Len(c) + 1)..Len(p) : p[i] \in Nat
    BY <1>1, ElementOfSeq
  <2>2. /\ SubSeq(p, Len(c) + 1, Len(p)) \in Seq(Nat)
        /\ Len(SubSeq(p, Len(c) + 1, Len(p)))
             = IF Len(c) + 1 <= Len(p) THEN Len(p) - (Len(c) + 1) + 1 ELSE 0
    BY <2>1, <1>1, SubSeqProperties
  <2> QED BY <2>2, <1>0, <1>1
<1>3. SubSeq(rest, 1, again) \in Seq(Nat) /\ Len(SubSeq(rest, 1, again)) = again
  <2>1. \A i \in 1..again : rest[i] \in Nat
    BY <1>1, <1>2, ElementOfSeq
  <2>2. /\ SubSeq(rest, 1, again) \in Seq(Nat)
        /\ Len(SubSeq(rest, 1, again)) = IF 1 <= again THEN again - 1 + 1 ELSE 0
    BY <2>1, <1>1, SubSeqProperties
  <2> QED BY <2>2, <1>1
<1>4. /\ c \o SubSeq(rest, 1, again) \in Seq(Nat)
      /\ Len(c \o SubSeq(rest, 1, again)) = Len(c) + again
  BY <1>3, ConcatProperties
<1>5. held \in Seq(Nat) /\ Len(held) = Len(c) + again + (Len(p) - Len(c))
  <2>1. PICK front : front = c \o SubSeq(rest, 1, again)
    OBVIOUS
  <2>2. /\ front \o rest \in Seq(Nat)
        /\ Len(front \o rest) = Len(front) + Len(rest)
    BY <1>2, <1>4, <2>1, ConcatProperties, Zenon
  <2>3. held = front \o rest
    BY <1>0, <2>1
  <2> QED BY <2>1, <2>2, <2>3, <1>2, <1>4
<1>6. CASE again = 0
  <2>1. SubSeq(rest, 1, again) = <<>>
    BY <1>6, SubSeqEmpty
  <2>2. c \o SubSeq(rest, 1, again) = c
    BY <2>1, ConcatEmptySeq
  <2> QED BY <1>0, <1>5, <2>2, PrefixAndRest
<1>7. CASE again # 0
  <2>1. \A k, m \in Nat, n \in Nat \ {0} : k + n + (m - k) # m
    OBVIOUS
  <2>2. again \in Nat \ {0}
    BY <1>1, <1>7
  <2>3. Len(c) + again + (Len(p) - Len(c)) # Len(p)
    BY <1>1, <2>1, <2>2, Zenon
  <2> QED BY <1>0, <1>5, <2>3, Zenon
<1> QED BY <1>0, <1>6, <1>7

(***************************************************************************)
(* The entries.                                                            *)
(***************************************************************************)
(* EntriesFaithful, of any sequence of entries.                            *)
Faithful(s) ==
  /\ \A i \in 1..Len(s) : s[i].held = s[i].tokens
  /\ \A i, j \in 1..Len(s) :
        s[i].tokens = s[j].tokens \/ s[i].used = s[j].used => i = j

(* No entry was used later than now.                                       *)
Stamped(s) == \A i \in 1..Len(s) : s[i].used <= clock

PrefixInv == PrefixTypeOK /\ RestoredIsPrefix /\ EntriesFaithful /\ Stamped(entries)

(* swap_remove keeps what is said of single entries and pairs of them, and *)
(* the key of the entry removed is gone.                                   *)
LEMMA RemoveKeeps ==
    ASSUME NEW s \in Seq(Entry), NEW i \in 1..Len(s), Faithful(s), Stamped(s)
    PROVE  /\ Faithful(SwapRemove(s, i))
           /\ Stamped(SwapRemove(s, i))
           /\ \A j \in 1..Len(SwapRemove(s, i)) : SwapRemove(s, i)[j].tokens # s[i].tokens
<1> DEFINE t == SwapRemove(s, i)
           from(j) == IF j = i THEN Len(s) ELSE j
<1>1. /\ Len(s) \in Nat
      /\ Len(t) = Len(s) - 1
      /\ \A j \in 1..(Len(s) - 1) : t[j] = IF j = i THEN s[Len(s)] ELSE s[j]
  BY LenProperties, SwapRemoveIsSeq, Zenon
<1> HIDE DEF t
<1>2. \A j \in 1..Len(t) : from(j) \in 1..Len(s) /\ from(j) # i /\ t[j] = s[from(j)]
  BY <1>1
<1>3. \A j, k \in 1..Len(t) : from(j) = from(k) => j = k
  BY <1>1
<1> HIDE DEF from
<1>4. Faithful(t)
  <2>1. ASSUME NEW j \in 1..Len(t)
        PROVE  t[j].held = t[j].tokens
    <3>1. from(j) \in 1..Len(s) /\ t[j] = s[from(j)]
      BY <1>2
    <3>2. s[from(j)].held = s[from(j)].tokens
      BY <3>1, Zenon DEF Faithful
    <3> QED BY <3>1, <3>2, Zenon
  <2>2. ASSUME NEW j \in 1..Len(t), NEW k \in 1..Len(t),
               t[j].tokens = t[k].tokens \/ t[j].used = t[k].used
        PROVE  j = k
    <3>1. /\ from(j) \in 1..Len(s) /\ t[j] = s[from(j)]
          /\ from(k) \in 1..Len(s) /\ t[k] = s[from(k)]
      BY <1>2
    <3>2. s[from(j)].tokens = s[from(k)].tokens \/ s[from(j)].used = s[from(k)].used
      BY <2>2, <3>1, Zenon
    <3>3. from(j) = from(k)
      BY <3>1, <3>2, Zenon DEF Faithful
    <3> QED BY <1>3, <3>3
  <2> QED BY <2>1, <2>2, Zenon DEF Faithful
<1>5. Stamped(t)
  BY <1>2, Zenon DEF Stamped
<1>6. \A j \in 1..Len(t) : t[j].tokens # s[i].tokens
  BY <1>2, Zenon DEF Faithful
<1> QED BY <1>4, <1>5, <1>6 DEF t

(* An entry of a new key and a new stamp joins them.                       *)
LEMMA AppendKeeps ==
    ASSUME NEW s \in Seq(Entry), NEW e \in Entry, Faithful(s), e.held = e.tokens,
           \A j \in 1..Len(s) : s[j].tokens # e.tokens /\ s[j].used # e.used
    PROVE  Faithful(Append(s, e))
<1> DEFINE t == Append(s, e)
<1>1. /\ Len(s) \in Nat
      /\ Len(t) = Len(s) + 1
      /\ \A j \in 1..Len(s) : t[j] = s[j]
      /\ t[Len(s) + 1] = e
  BY LenProperties, AppendProperties
<1> HIDE DEF t
<1>2. \A j \in 1..Len(t) : j \in 1..Len(s) \/ j = Len(s) + 1
  BY <1>1
<1>3. \A i \in 1..Len(t) : t[i].held = t[i].tokens
  BY <1>1, <1>2, Zenon DEF Faithful
<1>4. ASSUME NEW i \in 1..Len(t), NEW j \in 1..Len(t),
             t[i].tokens = t[j].tokens \/ t[i].used = t[j].used
      PROVE  i = j
  BY <1>1, <1>2, <1>4, Zenon DEF Faithful
<1>5. Faithful(t)
  BY <1>3, <1>4, Zenon DEF Faithful
<1> QED BY <1>5 DEF t

(* The bytes of a cache are a number.                                      *)
LEMMA BytesAreNat == \A n \in Nat : CacheBytes(n) \in Nat
<1>1. ASSUME NEW n \in Nat, NEW S \in Nat \ {0}
      PROVE  (n + S - 1) \div S \in Nat
  OBVIOUS
<1>2. \A a, b \in Nat : a * b \in Nat
  OBVIOUS
<1> QED BY <1>1, <1>2, PrefixAssumption DEF CacheBytes

LEMMA LessIsNat == \A a, b \in Nat : Less(a, b) \in Nat
BY DEF Less

(***************************************************************************)
(* PrefixInv, one lemma per action.                                        *)
(***************************************************************************)
LEMMA PrefixInitInv == PrefixInit => PrefixInv
<1> SUFFICES ASSUME PrefixInit PROVE PrefixInv
  OBVIOUS
<1>1. entries \in Seq(Entry) /\ Len(entries) = 0
  BY EmptySeq DEF PrefixInit
<1>2. PrefixTypeOK
  <2>1. uses \in Seq(Prompts)
    BY EmptySeq DEF PrefixInit
  <2> QED BY <1>1, <2>1, PrefixAssumption, EmptySeq DEF PrefixInit, PrefixTypeOK, Idle
<1>3. RestoredIsPrefix
  BY DEF PrefixInit, RestoredIsPrefix
<1>4. EntriesFaithful /\ Stamped(entries)
  BY <1>1 DEF EntriesFaithful, Stamped
<1> QED BY <1>2, <1>3, <1>4 DEF PrefixInv

(* A prompt is a sequence of tokens that is not empty.                     *)
LEMMA PromptIsSeq ==
    ASSUME NEW p \in Prompts
    PROVE  p \in Seq(Nat) /\ p # <<>>
BY PrefixAssumption

(* A request that begins on a strict prefix of its prompt keeps what is    *)
(* said of the requests.                                                   *)
LEMMA BeginKeeps ==
    ASSUME NEW r \in Req, NEW p \in Prompts, NEW c \in Configs,
           NEW cache \in Seq(Nat), IsStrictPrefix(cache, p),
           PrefixTypeOK, RestoredIsPrefix, Begin(r, p, cache, c)
    PROVE  /\ work' \in [Req -> [prompt : Prompts \cup {<<>>}, cache : Seq(Nat),
                                 config : Configs]]
           /\ RestoredIsPrefix'
BY Zenon DEF PrefixTypeOK, RestoredIsPrefix, Begin, Idle

LEMMA MissInv ==
    ASSUME PrefixInv, NEW r \in Req, NEW p \in Prompts, NEW c \in Configs, Miss(r, p, c)
    PROVE  PrefixInv'
<1>1. <<>> \in Seq(Nat) /\ IsStrictPrefix(<<>>, p)
  BY PromptIsSeq, EmptySeq, EmptyIsStrictPrefix
<1>2. /\ work' \in [Req -> [prompt : Prompts \cup {<<>>}, cache : Seq(Nat), config : Configs]]
      /\ RestoredIsPrefix'
  BY <1>1, BeginKeeps DEF PrefixInv, Miss
<1>3. PrefixTypeOK'
  BY <1>2 DEF PrefixInv, PrefixTypeOK, Miss
<1>4. EntriesFaithful' /\ Stamped(entries)'
  BY DEF PrefixInv, EntriesFaithful, Stamped, Miss
<1> QED BY <1>2, <1>3, <1>4 DEF PrefixInv

LEMMA AbortInv ==
    ASSUME PrefixInv, NEW r \in Req, Abort(r)
    PROVE  PrefixInv'
<1>1. work' \in [Req -> [prompt : Prompts \cup {<<>>}, cache : Seq(Nat), config : Configs]]
  BY PrefixAssumption, EmptySeq DEF PrefixInv, PrefixTypeOK, Abort, Idle
<1>2. PrefixTypeOK'
  BY <1>1 DEF PrefixInv, PrefixTypeOK, Abort
<1>3. RestoredIsPrefix'
  BY Zenon DEF PrefixInv, PrefixTypeOK, RestoredIsPrefix, Abort, Idle
<1>4. EntriesFaithful' /\ Stamped(entries)'
  BY DEF PrefixInv, EntriesFaithful, Stamped, Abort
<1> QED BY <1>2, <1>3, <1>4 DEF PrefixInv

LEMMA EvictInv ==
    ASSUME PrefixInv, Evict
    PROVE  PrefixInv'
<1>1. PICK i \in 1..Len(entries) :
         /\ entries' = SwapRemove(entries, i)
         /\ total' = Less(total, CacheBytes(Len(entries[i].held)))
  BY Zenon DEF Evict
<1>2. entries \in Seq(Entry) /\ Faithful(entries) /\ Stamped(entries)
  BY DEF PrefixInv, PrefixTypeOK, EntriesFaithful, Faithful
<1>3. SwapRemove(entries, i) \in Seq(Entry)
  BY <1>2, SwapRemoveIsSeq
<1>4. Faithful(SwapRemove(entries, i)) /\ Stamped(SwapRemove(entries, i))
  BY <1>2, RemoveKeeps
<1>5. total' \in Nat
  <2>1. entries[i] \in Entry
    BY <1>2, ElementOfSeq
  <2>2. Len(entries[i].held) \in Nat
    BY <2>1, LenProperties DEF Entry
  <2> QED BY <1>1, <2>2, BytesAreNat, LessIsNat DEF PrefixInv, PrefixTypeOK
<1>6. PrefixTypeOK'
  BY <1>1, <1>3, <1>5 DEF PrefixInv, PrefixTypeOK, Evict
<1>7. RestoredIsPrefix'
  BY DEF PrefixInv, RestoredIsPrefix, Evict
<1>8. clock' = clock
  BY DEF Evict
<1>9. EntriesFaithful' /\ Stamped(entries)'
  BY <1>1, <1>4, <1>8 DEF EntriesFaithful, Faithful, Stamped
<1> QED BY <1>6, <1>7, <1>9 DEF PrefixInv

LEMMA EmptiedInv ==
    ASSUME PrefixInv, Clear \/ SetLimits
    PROVE  PrefixInv'
<1>1. entries' = <<>> /\ total' = 0 /\ work' = work /\ stage' = stage
  BY DEF Clear, SetLimits
<1>2. clock' \in 0..MaxClock /\ limit' \in Limits
  BY PrefixAssumption DEF PrefixInv, PrefixTypeOK, Clear, SetLimits
<1>3. entries' \in Seq(Entry) /\ Len(entries') = 0
  BY <1>1, EmptySeq
<1>4. PrefixTypeOK'
  <2>1. uses' \in Seq(Prompts)
    BY EmptySeq DEF PrefixInv, PrefixTypeOK, Clear, SetLimits
  <2> QED BY <1>1, <1>2, <1>3, <2>1 DEF PrefixInv, PrefixTypeOK
<1>5. RestoredIsPrefix'
  BY <1>1 DEF PrefixInv, RestoredIsPrefix
<1>6. EntriesFaithful' /\ Stamped(entries)'
  BY <1>3 DEF EntriesFaithful, Stamped
<1> QED BY <1>4, <1>5, <1>6 DEF PrefixInv

LEMMA RestInv ==
    ASSUME PrefixInv, EvictEnd \/ UNCHANGED prefixVars
    PROVE  PrefixInv'
<1>1. PrefixTypeOK'
  BY DEF PrefixInv, PrefixTypeOK, EvictEnd, prefixVars
<1>2. RestoredIsPrefix'
  BY DEF PrefixInv, RestoredIsPrefix, EvictEnd, prefixVars
<1>3. EntriesFaithful' /\ Stamped(entries)'
  BY DEF PrefixInv, EntriesFaithful, Stamped, EvictEnd, prefixVars
<1> QED BY <1>1, <1>2, <1>3 DEF PrefixInv

LEMMA HitInv ==
    ASSUME PrefixInv, NEW r \in Req, NEW p \in Prompts, NEW c \in Configs, Hit(r, p, c)
    PROVE  PrefixInv'
<1>1. PICK i \in 1..Len(entries) :
         /\ IsBest(i, p)
         /\ entries' = Refreshed(i)
         /\ uses' = Append(uses, entries[i].tokens)
         /\ \/ Begin(r, p, entries[i].held, c)
            \/ Begin(r, p, <<>>, c)
            \/ work' = work
  BY Zenon DEF Hit
<1>2. /\ clock < MaxClock /\ clock' = clock + 1 /\ clock \in Nat /\ MaxClock \in Nat
      /\ UNCHANGED <<total, limit, stage>>
  BY PrefixAssumption DEF Hit, PrefixInv, PrefixTypeOK
<1>3. /\ entries \in Seq(Entry) /\ Faithful(entries) /\ Stamped(entries)
      /\ Len(entries) \in Nat
  BY LenProperties DEF PrefixInv, PrefixTypeOK, EntriesFaithful, Faithful
<1>4. entries[i] \in Entry
  BY <1>3, ElementOfSeq
<1>5. PICK e \in Entry :
         /\ e.tokens = entries[i].tokens /\ e.held = entries[i].held /\ e.used = clock + 1
         /\ entries' = [entries EXCEPT ![i] = e]
  <2> DEFINE e == [entries[i] EXCEPT !.used = clock + 1]
  <2>1. e \in Entry /\ e.tokens = entries[i].tokens /\ e.held = entries[i].held
        /\ e.used = clock + 1
    BY <1>2, <1>4 DEF Entry
  <2>2. entries' = [entries EXCEPT ![i] = e]
    BY <1>1 DEF Refreshed, Stamp
  <2> HIDE DEF e
  <2> QED BY <2>1, <2>2
<1>6. /\ entries' \in Seq(Entry)
      /\ Len(entries') = Len(entries)
      /\ \A j \in 1..Len(entries) : entries'[j] = IF j = i THEN e ELSE entries[j]
  BY <1>3, <1>5, ExceptSeq
<1>7. Faithful(entries')
  <2>1. ASSUME NEW j \in 1..Len(entries)
        PROVE  /\ entries'[j].held = entries'[j].tokens
               /\ entries'[j].tokens = entries[j].tokens
               /\ entries[j].used \in Int /\ entries[j].used <= clock
    <3>1. entries[j] \in Entry
      BY <1>3, ElementOfSeq
    <3> QED BY <1>3, <1>5, <1>6, <3>1 DEF Faithful, Stamped, Entry
  <2>2. ASSUME NEW j \in 1..Len(entries), NEW k \in 1..Len(entries),
               \/ entries'[j].tokens = entries'[k].tokens
               \/ entries'[j].used = entries'[k].used
        PROVE  j = k
    <3>1. CASE entries'[j].tokens = entries'[k].tokens
      BY <1>3, <2>1, <3>1, Zenon DEF Faithful
    <3>2. CASE entries'[j].used = entries'[k].used /\ j # i /\ k # i
      BY <1>3, <1>6, <3>2, Zenon DEF Faithful
    <3>3. CASE entries'[j].used = entries'[k].used /\ (j = i \/ k = i)
      BY <1>2, <1>5, <1>6, <2>1, <3>3
    <3> QED BY <2>2, <3>1, <3>2, <3>3
  <2> QED BY <1>6, <2>1, <2>2 DEF Faithful
<1>8. ASSUME NEW j \in 1..Len(entries)
      PROVE  entries'[j].used <= clock'
  <2>1. entries[j] \in Entry
    BY <1>3, ElementOfSeq
  <2> QED BY <1>2, <1>3, <1>5, <1>6, <2>1 DEF Stamped, Entry
<1>9. /\ work' \in [Req -> [prompt : Prompts \cup {<<>>}, cache : Seq(Nat), config : Configs]]
      /\ RestoredIsPrefix'
  <2>1. CASE Begin(r, p, entries[i].held, c)
    <3>1. entries[i].held \in Seq(Nat) /\ IsStrictPrefix(entries[i].held, p)
      BY <1>1, <1>3, <1>4 DEF IsBest, Matches, Faithful, Entry
    <3> QED BY <2>1, <3>1, BeginKeeps DEF PrefixInv
  <2>2. CASE Begin(r, p, <<>>, c)
    <3>1. <<>> \in Seq(Nat) /\ IsStrictPrefix(<<>>, p)
      BY PromptIsSeq, EmptySeq, EmptyIsStrictPrefix
    <3> QED BY <2>2, <3>1, BeginKeeps DEF PrefixInv
  <2>3. CASE work' = work
    BY <2>3 DEF PrefixInv, PrefixTypeOK, RestoredIsPrefix
  <2> QED BY <1>1, <2>1, <2>2, <2>3
<1>10. PrefixTypeOK'
  <2>1. uses' = Append(uses, entries[i].tokens)
    BY <1>1
  <2>2. uses' \in Seq(Prompts)
    BY <1>4, <2>1, AppendProperties DEF Entry, PrefixInv, PrefixTypeOK
  <2> QED BY <1>2, <1>6, <1>9, <2>2 DEF PrefixInv, PrefixTypeOK
<1>11. EntriesFaithful' /\ Stamped(entries)'
  BY <1>6, <1>7, <1>8 DEF EntriesFaithful, Faithful, Stamped
<1> QED BY <1>9, <1>10, <1>11 DEF PrefixInv

(* There is at most one entry of a key, and insert finds it.               *)
LEMMA PositionIsAt ==
    ASSUME PrefixInv, NEW key, At(key) # {}
    PROVE  PositionOf(key) \in At(key)
<1>1. PICK k \in At(key) : TRUE
  OBVIOUS
<1>2. \A j \in At(key) : j = k
  BY <1>1, Zenon DEF PrefixInv, EntriesFaithful, At
<1>3. k <= k
  BY DEF At
<1>4. k \in At(key) /\ \A j \in At(key) : k <= j
  BY <1>2, <1>3
<1> QED BY <1>4, Zenon DEF PositionOf

(* insert without the entry of the same key, if there is one.              *)
LEMMA WithoutKeyKeeps ==
    ASSUME PrefixInv, NEW key
    PROVE  /\ WithoutKey(key) \in Seq(Entry)
           /\ Faithful(WithoutKey(key)) /\ Stamped(WithoutKey(key))
           /\ \A j \in 1..Len(WithoutKey(key)) : WithoutKey(key)[j].tokens # key
           /\ TotalWithout(key) \in Nat
<1>1. entries \in Seq(Entry) /\ Faithful(entries) /\ Stamped(entries) /\ total \in Nat
  BY DEF PrefixInv, PrefixTypeOK, EntriesFaithful, Faithful
<1>2. CASE At(key) = {}
  <2>1. WithoutKey(key) = entries /\ BytesOf(key) = 0
    BY <1>2 DEF WithoutKey, BytesOf
  <2>2. \A j \in 1..Len(entries) : entries[j].tokens # key
    BY <1>2 DEF At
  <2>3. TotalWithout(key) \in Nat
    <3>1. 0 \in Nat
      OBVIOUS
    <3> QED BY <1>1, <2>1, <3>1, LessIsNat, Zenon DEF TotalWithout
  <2> QED BY <1>1, <2>1, <2>2, <2>3, Zenon
<1>3. CASE At(key) # {}
  <2> DEFINE i == PositionOf(key)
  <2>3. i \in At(key)
    BY <1>3, PositionIsAt
  <2>4. i \in 1..Len(entries) /\ entries[i].tokens = key
    BY <2>3 DEF At
  <2>5. WithoutKey(key) = SwapRemove(entries, i)
    BY <1>3 DEF WithoutKey
  <2>6. SwapRemove(entries, i) \in Seq(Entry)
    BY <1>1, <2>4, SwapRemoveIsSeq
  <2>7. /\ Faithful(SwapRemove(entries, i)) /\ Stamped(SwapRemove(entries, i))
        /\ \A j \in 1..Len(SwapRemove(entries, i)) : SwapRemove(entries, i)[j].tokens # key
    BY <1>1, <2>4, RemoveKeeps
  <2>8. Len(entries[i].held) \in Nat
    <3>1. entries[i] \in Entry
      BY <1>1, <2>4, ElementOfSeq
    <3> QED BY <3>1, LenProperties DEF Entry
  <2>9. TotalWithout(key) \in Nat
    BY <1>1, <1>3, <2>8, BytesAreNat, LessIsNat DEF TotalWithout, BytesOf
  <2> QED BY <2>5, <2>6, <2>7, <2>9
<1> QED BY <1>2, <1>3

LEMMA SaveInv ==
    ASSUME PrefixInv, NEW r \in Req, NEW again \in 0..Len(work[r].prompt), Save(r, again)
    PROVE  PrefixInv'
<1> DEFINE w == work[r]
           held == Prefilled(w, again)
<1>1. /\ w # Idle
      /\ again <= Len(w.prompt) - Len(w.cache)
      /\ work' = [work EXCEPT ![r] = Idle]
      /\ UNCHANGED limit
  BY DEF Save
<1>2. /\ w.prompt \in Prompts \cup {<<>>} /\ w.cache \in Seq(Nat) /\ w.config \in Configs
      /\ IsStrictPrefix(w.cache, w.prompt)
  BY <1>1 DEF PrefixInv, PrefixTypeOK, RestoredIsPrefix
<1>3. w.prompt \in Seq(Nat)
  BY <1>2, PrefixAssumption, EmptySeq
<1>4. again \in 0..(Len(w.prompt) - Len(w.cache))
  <2>1. Len(w.prompt) \in Nat /\ Len(w.cache) \in Nat
    BY <1>2, <1>3, LenProperties
  <2> QED BY <1>1, <2>1
<1>5. held \in Seq(Nat) /\ (Len(held) = Len(w.prompt) => held = w.prompt)
  <2> HIDE DEF w
  <2>1. held = Fed(w.cache, w.prompt, again)
    BY DEF Prefilled, Fed
  <2> HIDE DEF held
  <2> QED BY <1>2, <1>3, <1>4, <2>1, FedOnce
<1>6. /\ work' \in [Req -> [prompt : Prompts \cup {<<>>}, cache : Seq(Nat), config : Configs]]
      /\ RestoredIsPrefix'
  <2>1. Idle \in [prompt : Prompts \cup {<<>>}, cache : Seq(Nat), config : Configs]
    BY PrefixAssumption, EmptySeq DEF Idle
  <2>2. \A q \in Req : work'[q] = IF q = r THEN Idle ELSE work[q]
    BY <1>1 DEF PrefixInv, PrefixTypeOK
  <2>3. RestoredIsPrefix'
    BY <2>2, Zenon DEF PrefixInv, RestoredIsPrefix
  <2>4. work' \in [Req -> [prompt : Prompts \cup {<<>>}, cache : Seq(Nat), config : Configs]]
    BY <1>1, <2>1 DEF PrefixInv, PrefixTypeOK
  <2> QED BY <2>3, <2>4
<1>7. CASE ~Savable(w.prompt, held)
  <2>1. UNCHANGED <<entries, total, clock, uses, stage>>
    BY <1>7 DEF Save
  <2>2. PrefixTypeOK'
    BY <1>1, <1>6, <2>1 DEF PrefixInv, PrefixTypeOK
  <2>3. EntriesFaithful' /\ Stamped(entries)'
    BY <2>1 DEF PrefixInv, EntriesFaithful, Stamped
  <2> QED BY <1>6, <2>2, <2>3 DEF PrefixInv
<1>8. CASE Savable(w.prompt, held)
  <2> DEFINE e == [tokens |-> w.prompt, held |-> held, config |-> w.config, used |-> Stamp]
             s == WithoutKey(w.prompt)
  <2>1. /\ clock < MaxClock /\ clock' = clock + 1
        /\ entries' = Append(s, e)
        /\ total' = TotalWithout(w.prompt) + CacheBytes(Len(held))
        /\ uses' = Append(uses, w.prompt)
        /\ stage' = "evict"
    BY <1>8 DEF Save
  <2>2. clock \in Nat /\ MaxClock \in Nat
    BY PrefixAssumption DEF PrefixInv, PrefixTypeOK
  <2>3. /\ e \in Entry /\ e.tokens = w.prompt /\ e.held = e.tokens /\ e.used = clock + 1
        /\ Len(held) \in Nat
    <3>1. held = w.prompt /\ w.prompt # <<>>
      BY <1>5, <1>8 DEF Savable
    <3>2. w.prompt \in Prompts /\ Stamp \in 1..MaxClock
      BY <1>2, <2>1, <2>2, <3>1 DEF Stamp
    <3>3. Len(held) \in Nat
      BY <1>5, LenProperties
    <3> HIDE DEF w, held
    <3> QED BY <1>2, <1>5, <3>1, <3>2, <3>3 DEF Entry, Stamp
  <2>4. /\ s \in Seq(Entry) /\ Faithful(s) /\ Stamped(s)
        /\ \A j \in 1..Len(s) : s[j].tokens # w.prompt
        /\ TotalWithout(w.prompt) \in Nat
    BY WithoutKeyKeeps, Zenon
  <2> HIDE DEF e, s, w, held
  <2>5. ASSUME NEW j \in 1..Len(s)
        PROVE  s[j].used <= clock /\ s[j].used # e.used
    <3>1. s[j] \in Entry
      BY <2>4, ElementOfSeq
    <3> QED BY <2>2, <2>3, <2>4, <3>1 DEF Entry, Stamped
  <2>6. /\ entries' \in Seq(Entry)
        /\ Len(entries') = Len(s) + 1
        /\ \A j \in 1..Len(s) : entries'[j] = s[j]
        /\ entries'[Len(s) + 1] = e
        /\ Len(s) \in Nat
    BY <2>1, <2>3, <2>4, AppendProperties, LenProperties
  <2>7. Faithful(entries')
    BY <2>1, <2>3, <2>4, <2>5, AppendKeeps
  <2>8. ASSUME NEW j \in 1..Len(entries')
        PROVE  entries'[j].used <= clock'
    <3>1. CASE j \in 1..Len(s)
      <4>1. s[j] \in Entry
        BY <2>4, <3>1, ElementOfSeq
      <4> QED BY <2>1, <2>2, <2>5, <2>6, <3>1, <4>1 DEF Entry
    <3>2. CASE j = Len(s) + 1
      BY <2>1, <2>2, <2>3, <2>6, <3>2
    <3> QED BY <2>6, <3>1, <3>2
  <2>9. total' \in Nat
    <3>1. CacheBytes(Len(held)) \in Nat
      BY <2>3, BytesAreNat, Zenon
    <3> QED BY <2>1, <2>4, <3>1
  <2>10. PrefixTypeOK'
    <3>1. w.prompt \in Prompts
      BY <2>3 DEF Entry
    <3>2. uses' \in Seq(Prompts)
      BY <2>1, <3>1, AppendProperties DEF PrefixInv, PrefixTypeOK
    <3> QED BY <1>1, <1>6, <2>1, <2>2, <2>6, <2>9, <3>2 DEF PrefixInv, PrefixTypeOK
  <2>11. EntriesFaithful' /\ Stamped(entries)'
    BY <2>7, <2>8 DEF EntriesFaithful, Faithful, Stamped
  <2> QED BY <1>6, <2>10, <2>11 DEF PrefixInv
<1> QED BY <1>7, <1>8

LEMMA PrefixStepInv == PrefixInv /\ [PrefixNext]_prefixVars => PrefixInv'
<1> SUFFICES ASSUME PrefixInv, [PrefixNext]_prefixVars PROVE PrefixInv'
  OBVIOUS
<1> QED
  BY MissInv, HitInv, SaveInv, AbortInv, EvictInv, EmptiedInv, RestInv DEF PrefixNext

(***************************************************************************)
(* The budgets.                                                            *)
(***************************************************************************)
(* The keys and stamps of distinct entries differ, so that the entries are *)
(* a set from which swap_remove takes one.                                 *)
LEMMA RangeRemoved ==
    ASSUME NEW s \in Seq(Entry), NEW i \in 1..Len(s), Faithful(s)
    PROVE  Range(SwapRemove(s, i)) = Range(s) \ {s[i]}
<1> DEFINE t == SwapRemove(s, i)
<1>1. /\ Len(s) \in Nat
      /\ t \in Seq(Entry)
      /\ Len(t) = Len(s) - 1
      /\ \A j \in 1..(Len(s) - 1) : t[j] = IF j = i THEN s[Len(s)] ELSE s[j]
  BY LenProperties, SwapRemoveIsSeq, Zenon
<1>2. Range(s) = {s[j] : j \in 1..Len(s)} /\ Range(t) = {t[j] : j \in 1..Len(t)}
  BY <1>1, RangeEquality, Zenon
<1> HIDE DEF t
<1>3. \A j, k \in 1..Len(s) : s[j] = s[k] => j = k
  BY Zenon DEF Faithful
<1>4. ASSUME NEW j \in 1..Len(t)
      PROVE  t[j] \in Range(s) \ {s[i]}
  <2>1. PICK k \in 1..Len(s) : k # i /\ t[j] = s[k]
    BY <1>1
  <2> QED BY <1>2, <1>3, <2>1
<1>5. ASSUME NEW j \in 1..Len(s), j # i
      PROVE  s[j] \in Range(t)
  <2>1. \E k \in 1..Len(t) : t[k] = s[j]
    <3>1. CASE j = Len(s)
      BY <1>1, <1>5, <3>1
    <3>2. CASE j # Len(s)
      BY <1>1, <1>5, <3>2
    <3> QED BY <3>1, <3>2
  <2> QED BY <1>2, <2>1
<1>6. Range(t) = Range(s) \ {s[i]}
  BY <1>2, <1>4, <1>5
<1> QED BY <1>6 DEF t

LEMMA RangeAppended ==
    ASSUME NEW S, NEW s \in Seq(S), NEW e \in S
    PROVE  Range(Append(s, e)) = Range(s) \cup {e}
<1>1. /\ Append(s, e) \in Seq(S) /\ Len(s) \in Nat
      /\ Len(Append(s, e)) = Len(s) + 1
      /\ \A j \in 1..Len(s) : Append(s, e)[j] = s[j]
      /\ Append(s, e)[Len(s) + 1] = e
  BY AppendProperties, LenProperties
<1>2. /\ Range(s) = {s[j] : j \in 1..Len(s)}
      /\ Range(Append(s, e)) = {Append(s, e)[j] : j \in 1..Len(Append(s, e))}
  BY <1>1, RangeEquality, Zenon
<1>3. \A j \in 1..(Len(s) + 1) : j \in 1..Len(s) \/ j = Len(s) + 1
  BY <1>1
<1>4. \A j \in 1..Len(s) : j \in 1..(Len(s) + 1)
  BY <1>1
<1>5. Len(s) + 1 \in 1..(Len(s) + 1)
  BY <1>1
<1> QED BY <1>1, <1>2, <1>3, <1>4, <1>5

(* An entry brings its own bytes.                                          *)
LEMMA BytesAdded ==
    ASSUME NEW E, NEW e \in Entry, e \notin E, IsFiniteSet(BytesIn(E))
    PROVE  /\ IsFiniteSet(BytesIn(E \cup {e}))
           /\ CacheBytes(Len(e.held)) \in Nat
           /\ Cardinality(BytesIn(E)) \in Nat
           /\ Cardinality(BytesIn(E \cup {e}))
                = Cardinality(BytesIn(E)) + CacheBytes(Len(e.held))
<1> DEFINE n == CacheBytes(Len(e.held))
           own == {e} \X (1..n)
<1>1. n \in Nat
  BY LenProperties, BytesAreNat DEF Entry
<1>2. IsFiniteSet(own) /\ Cardinality(own) = n
  <2> HIDE DEF n
  <2>1. IsFiniteSet({e}) /\ Cardinality({e}) = 1
    BY FS_Singleton
  <2>2. IsFiniteSet(1..n) /\ Cardinality(1..n) = n
    BY <1>1, FS_Interval
  <2>3. IsFiniteSet(own) /\ Cardinality(own) = Cardinality({e}) * Cardinality(1..n)
    BY <2>1, <2>2, FS_Product, Zenon
  <2> QED BY <1>1, <2>1, <2>2, <2>3
<1>3. BytesIn(E \cup {e}) = BytesIn(E) \cup own
  BY Zenon DEF BytesIn
<1>4. BytesIn(E) \cap own = {}
  BY DEF BytesIn
<1> HIDE DEF own, n
<1>5. Cardinality(BytesIn(E)) \in Nat /\ Cardinality({}) = 0
  BY FS_CardinalityType, FS_EmptySet
<1>6. /\ IsFiniteSet(BytesIn(E) \cup own)
      /\ Cardinality(BytesIn(E) \cup own) = Cardinality(BytesIn(E)) + n - 0
  BY <1>2, <1>4, <1>5, FS_Union
<1>7. Cardinality(BytesIn(E) \cup own) = Cardinality(BytesIn(E)) + n
  BY <1>1, <1>5, <1>6
<1> QED BY <1>1, <1>3, <1>5, <1>6, <1>7, Zenon DEF n

(* And takes them away.                                                    *)
LEMMA BytesRemoved ==
    ASSUME NEW E \in SUBSET Entry, NEW e \in E, IsFiniteSet(BytesIn(E))
    PROVE  /\ IsFiniteSet(BytesIn(E \ {e}))
           /\ CacheBytes(Len(e.held)) \in Nat
           /\ Cardinality(BytesIn(E \ {e})) \in Nat
           /\ Cardinality(BytesIn(E))
                = Cardinality(BytesIn(E \ {e})) + CacheBytes(Len(e.held))
<1>1. BytesIn(E \ {e}) \subseteq BytesIn(E)
  BY DEF BytesIn
<1>2. IsFiniteSet(BytesIn(E \ {e}))
  BY <1>1, FS_Subset
<1>3. (E \ {e}) \cup {e} = E
  OBVIOUS
<1> QED BY <1>2, <1>3, BytesAdded

(* What the byte total counts, also inside evict_to_budget, which only     *)
(* ends within the limits.                                                 *)
Counted ==
  /\ IsFiniteSet(BytesIn(Range(entries)))
  /\ total = Cardinality(BytesIn(Range(entries)))

WithinLimits == Len(entries) <= limit.entries /\ (limit.bytes > 0 => total <= limit.bytes)

BudgetInv == Counted /\ (stage = "rest" => WithinLimits)

LEMMA NoBytes == Len(<<>>) = 0 /\ BytesIn(Range(<<>>)) = {}
BY DEF Range, BytesIn

LEMMA NothingCounted ==
    ASSUME entries = <<>>, total = 0, PrefixTypeOK
    PROVE  Counted /\ WithinLimits
<1>1. Len(entries) = 0 /\ BytesIn(Range(entries)) = {}
  BY NoBytes
<1>2. limit \in [entries : Nat, bytes : Nat]
  BY PrefixAssumption DEF PrefixTypeOK
<1> QED BY <1>1, <1>2, FS_EmptySet DEF Counted, WithinLimits

LEMMA BudgetInit == PrefixInit => BudgetInv
BY PrefixInitInv, NothingCounted DEF PrefixInit, PrefixInv, BudgetInv

(* The entries are a set of records of Entry.                              *)
LEMMA EntriesOfPrefix ==
    ASSUME PrefixInv
    PROVE  /\ entries \in Seq(Entry) /\ Faithful(entries) /\ Stamped(entries)
           /\ Len(entries) \in Nat
           /\ Range(entries) \in SUBSET Entry
           /\ Range(entries) = {entries[i] : i \in 1..Len(entries)}
<1>1. entries \in Seq(Entry) /\ Faithful(entries) /\ Stamped(entries)
  BY DEF PrefixInv, PrefixTypeOK, EntriesFaithful, Faithful
<1> QED BY <1>1, LenProperties, RangeEquality, RangeOfSeq

(* swap_remove of an entry, with its bytes taken off the total, keeps the  *)
(* count: the subtraction does not saturate.                               *)
LEMMA CountRemoved ==
    ASSUME PrefixInv, Counted, NEW i \in 1..Len(entries)
    PROVE  /\ IsFiniteSet(BytesIn(Range(SwapRemove(entries, i))))
           /\ Less(total, CacheBytes(Len(entries[i].held)))
                = Cardinality(BytesIn(Range(SwapRemove(entries, i))))
<1> DEFINE E == Range(entries)
           e == entries[i]
<1>1. E \in SUBSET Entry /\ e \in E /\ Range(SwapRemove(entries, i)) = E \ {e}
  BY EntriesOfPrefix, RangeRemoved
<1>2. IsFiniteSet(BytesIn(E)) /\ total = Cardinality(BytesIn(E))
  BY DEF Counted
<1> HIDE DEF E, e
<1>3. /\ IsFiniteSet(BytesIn(E \ {e}))
      /\ CacheBytes(Len(e.held)) \in Nat
      /\ Cardinality(BytesIn(E \ {e})) \in Nat
      /\ total = Cardinality(BytesIn(E \ {e})) + CacheBytes(Len(e.held))
  BY <1>1, <1>2, BytesRemoved
<1>4. Less(total, CacheBytes(Len(e.held))) = Cardinality(BytesIn(E \ {e}))
  BY <1>3 DEF Less
<1> QED BY <1>1, <1>3, <1>4 DEF e

(* Also when insert takes the entry of the same key.                       *)
LEMMA WithoutKeyCounted ==
    ASSUME PrefixInv, Counted, NEW key
    PROVE  /\ IsFiniteSet(BytesIn(Range(WithoutKey(key))))
           /\ TotalWithout(key) = Cardinality(BytesIn(Range(WithoutKey(key))))
<1>1. CASE At(key) = {}
  <2>1. WithoutKey(key) = entries /\ BytesOf(key) = 0 /\ total \in Nat
    BY <1>1 DEF WithoutKey, BytesOf, PrefixInv, PrefixTypeOK
  <2>2. TotalWithout(key) = total
    BY <2>1 DEF TotalWithout, Less
  <2> QED BY <2>1, <2>2 DEF Counted
<1>2. CASE At(key) # {}
  <2>1. PositionOf(key) \in 1..Len(entries)
    BY <1>2, PositionIsAt DEF At
  <2>2. /\ WithoutKey(key) = SwapRemove(entries, PositionOf(key))
        /\ TotalWithout(key) = Less(total, CacheBytes(Len(entries[PositionOf(key)].held)))
    BY <1>2 DEF WithoutKey, TotalWithout, BytesOf
  <2> QED BY <2>1, <2>2, CountRemoved
<1> QED BY <1>1, <1>2

LEMMA EvictBudget ==
    ASSUME PrefixInv, BudgetInv, Evict
    PROVE  BudgetInv'
<1>1. PICK i \in 1..Len(entries) :
         /\ entries' = SwapRemove(entries, i)
         /\ total' = Less(total, CacheBytes(Len(entries[i].held)))
  BY Zenon DEF Evict
<1>2. Counted'
  BY <1>1, CountRemoved DEF BudgetInv, Counted
<1>3. stage' = "evict"
  BY DEF Evict
<1> QED BY <1>2, <1>3 DEF BudgetInv

LEMMA EvictEndBudget ==
    ASSUME PrefixInv, BudgetInv, EvictEnd
    PROVE  BudgetInv'
<1>1. UNCHANGED <<entries, total, limit>> /\ Counted
  BY DEF EvictEnd, BudgetInv
<1>2. WithinLimits
  <2>1. CASE entries = <<>>
    <3>1. BytesIn(Range(entries)) = {}
      BY <2>1 DEF Range, BytesIn
    <3>2. total = 0
      BY <1>1, <3>1, FS_EmptySet DEF Counted
    <3> QED BY <2>1, <3>2, NothingCounted DEF PrefixInv
  <2>2. CASE ~OverBudget
    <3>1. limit \in [entries : Nat, bytes : Nat] /\ total \in Nat /\ Len(entries) \in Nat
      BY PrefixAssumption, EntriesOfPrefix DEF PrefixInv, PrefixTypeOK
    <3> QED BY <2>2, <3>1 DEF OverBudget, WithinLimits
  <2> QED BY <2>1, <2>2 DEF EvictEnd
<1> QED BY <1>1, <1>2 DEF BudgetInv, Counted, WithinLimits

(* A hit puts a refreshed entry of as many bytes in the place of the old.  *)
LEMMA HitReplaces ==
    ASSUME PrefixInv, NEW r \in Req, NEW p \in Prompts, NEW c \in Configs, Hit(r, p, c)
    PROVE  \E old \in Range(entries), new \in Entry :
              /\ new.tokens = old.tokens /\ new.held = old.held /\ new.used = clock + 1
              /\ new \notin Range(entries)
              /\ Range(entries') = (Range(entries) \ {old}) \cup {new}
              /\ \A e \in Range(entries) \ {old} : e.tokens # old.tokens
              /\ Len(entries') = Len(entries)
              /\ uses' = Append(uses, old.tokens) /\ clock' = clock + 1
              /\ UNCHANGED <<total, limit, stage>>
<1>1. PICK i \in 1..Len(entries) :
         entries' = Refreshed(i) /\ uses' = Append(uses, entries[i].tokens)
  BY Zenon DEF Hit
<1>2. /\ clock < MaxClock /\ clock \in Nat /\ MaxClock \in Nat
      /\ clock' = clock + 1 /\ UNCHANGED <<total, limit, stage>>
  BY PrefixAssumption DEF Hit, PrefixInv, PrefixTypeOK
<1> DEFINE E == Range(entries)
           old == entries[i]
           new == [entries[i] EXCEPT !.used = clock + 1]
<1>3. /\ entries \in Seq(Entry) /\ Len(entries) \in Nat
      /\ E \in SUBSET Entry /\ E = {entries[j] : j \in 1..Len(entries)}
      /\ old \in Entry /\ old \in E
  BY EntriesOfPrefix, ElementOfSeq
<1>4. new \in Entry /\ new.tokens = old.tokens /\ new.held = old.held /\ new.used = clock + 1
  <2>1. old \in Entry
    BY <1>3
  <2> QED BY <1>2, <2>1 DEF Entry
<1>5. entries' = [entries EXCEPT ![i] = new]
  BY <1>1 DEF Refreshed, Stamp
<1> HIDE DEF new
<1>6. /\ entries' \in Seq(Entry)
      /\ Len(entries') = Len(entries)
      /\ \A j \in 1..Len(entries) : entries'[j] = IF j = i THEN new ELSE entries[j]
  BY <1>3, <1>4, <1>5, ExceptSeq
<1>7. new \notin E
  <2>1. ASSUME NEW j \in 1..Len(entries)
        PROVE  entries[j] # new
    <3>1. entries[j] \in Entry
      BY <1>3, ElementOfSeq
    <3>2. entries[j].used \in Nat /\ entries[j].used <= clock
      BY <3>1, EntriesOfPrefix DEF Entry, Stamped
    <3> QED BY <1>2, <1>4, <3>2
  <2> QED BY <1>3, <2>1
<1>8. /\ \A j \in 1..Len(entries) : entries[j] = old => j = i
      /\ \A j \in 1..Len(entries) : entries[j].tokens = old.tokens => j = i
  BY EntriesOfPrefix, Zenon DEF Faithful
<1>9. Range(entries') = (E \ {old}) \cup {new}
  <2>1. Range(entries') = {entries'[j] : j \in 1..Len(entries')}
    BY <1>6, RangeEquality
  <2> HIDE DEF old
  <2>2. \A j \in 1..Len(entries) : entries'[j] \in (E \ {old}) \cup {new}
    BY <1>3, <1>6, <1>8
  <2>3. \A j \in 1..Len(entries) : j # i => entries[j] \in Range(entries')
    BY <1>6, <2>1
  <2>4. new \in Range(entries')
    BY <1>6, <2>1
  <2>5. \A x \in E \ {old} : x \in Range(entries')
    BY <1>3, <2>3 DEF old
  <2> QED BY <1>6, <2>1, <2>2, <2>4, <2>5
<1>10. \A e \in E \ {old} : e.tokens # old.tokens
  BY <1>3, <1>8, Zenon
<1>11. uses' = Append(uses, old.tokens)
  BY <1>1
<1> HIDE DEF old
<1> QED BY <1>2, <1>3, <1>4, <1>6, <1>7, <1>9, <1>10, <1>11

LEMMA HitBudget ==
    ASSUME PrefixInv, BudgetInv, NEW r \in Req, NEW p \in Prompts, NEW c \in Configs,
           Hit(r, p, c)
    PROVE  BudgetInv'
<1> DEFINE E == Range(entries)
<1>1. PICK old \in E, new \in Entry :
         /\ new.held = old.held
         /\ new \notin E
         /\ Range(entries') = (E \ {old}) \cup {new}
         /\ Len(entries') = Len(entries)
         /\ UNCHANGED <<total, limit, stage>>
  BY HitReplaces, Zenon
<1>2. E \in SUBSET Entry /\ IsFiniteSet(BytesIn(E)) /\ total = Cardinality(BytesIn(E))
  BY EntriesOfPrefix DEF BudgetInv, Counted
<1> HIDE DEF E
<1>3. /\ IsFiniteSet(BytesIn(E \ {old}))
      /\ Cardinality(BytesIn(E)) = Cardinality(BytesIn(E \ {old})) + CacheBytes(Len(old.held))
  BY <1>2, BytesRemoved
<1>4. /\ IsFiniteSet(BytesIn((E \ {old}) \cup {new}))
      /\ Cardinality(BytesIn((E \ {old}) \cup {new}))
           = Cardinality(BytesIn(E \ {old})) + CacheBytes(Len(new.held))
  BY <1>1, <1>3, BytesAdded
<1>5. Counted'
  BY <1>1, <1>2, <1>3, <1>4 DEF Counted
<1> QED BY <1>1, <1>5 DEF BudgetInv, WithinLimits

(* insert takes an entry of the same key off the total before it adds its  *)
(* own, and leaves the rest to evict_to_budget.                            *)
LEMMA SaveReplaces ==
    ASSUME PrefixInv, NEW r \in Req, NEW again \in 0..Len(work[r].prompt),
           Save(r, again), entries' \in Seq(Entry)
    PROVE  \/ UNCHANGED <<entries, total, clock, uses, stage, limit>>
           \/ \E e \in Entry :
                /\ e.used = clock + 1
                /\ e \notin Range(WithoutKey(e.tokens))
                /\ \A x \in Range(WithoutKey(e.tokens)) : x.tokens # e.tokens
                /\ Range(entries') = Range(WithoutKey(e.tokens)) \cup {e}
                /\ total' = TotalWithout(e.tokens) + CacheBytes(Len(e.held))
                /\ uses' = Append(uses, e.tokens) /\ clock' = clock + 1
                /\ stage' = "evict"
<1> DEFINE w == work[r]
           held == Prefilled(w, again)
<1>1. CASE ~Savable(w.prompt, held)
  BY <1>1 DEF Save
<1>2. CASE Savable(w.prompt, held)
  <2> DEFINE e == [tokens |-> w.prompt, held |-> held, config |-> w.config, used |-> Stamp]
             s == WithoutKey(e.tokens)
  <2>1. /\ entries' = Append(s, e)
        /\ total' = TotalWithout(e.tokens) + CacheBytes(Len(e.held))
        /\ uses' = Append(uses, e.tokens) /\ clock' = clock + 1
        /\ stage' = "evict"
    BY <1>2 DEF Save
  <2>2. /\ s \in Seq(Entry)
        /\ \A j \in 1..Len(s) : s[j].tokens # e.tokens
    BY WithoutKeyKeeps, Zenon
  <2>3. e.used = clock + 1
    BY DEF Stamp
  <2> HIDE DEF e, s, w, held
  <2>4. e \in Entry
    <3>1. Len(s) \in Nat
      BY <2>2, LenProperties
    <3>2. Len(entries') = Len(s) + 1 /\ entries'[Len(s) + 1] = e
      BY <2>1, <2>2, <3>1
    <3> QED BY <3>1, <3>2, ElementOfSeq
  <2>5. /\ Range(entries') = Range(s) \cup {e}
        /\ \A x \in Range(s) : x.tokens # e.tokens
        /\ e \notin Range(s)
    <3>1. Range(s) = {s[j] : j \in 1..Len(s)}
      BY <2>2, RangeEquality
    <3> QED BY <2>1, <2>2, <2>4, <3>1, RangeAppended
  <2> QED BY <2>1, <2>3, <2>4, <2>5, Zenon DEF s
<1> QED BY <1>1, <1>2

LEMMA SaveBudget ==
    ASSUME PrefixInv, BudgetInv, NEW r \in Req, NEW again \in 0..Len(work[r].prompt),
           Save(r, again), PrefixInv'
    PROVE  BudgetInv'
<1>1. entries' \in Seq(Entry)
  BY DEF PrefixInv, PrefixTypeOK
<1>2. CASE UNCHANGED <<entries, total, stage, limit>>
  BY <1>2 DEF BudgetInv, Counted, WithinLimits
<1>3. CASE \E e \in Entry :
             /\ e \notin Range(WithoutKey(e.tokens))
             /\ Range(entries') = Range(WithoutKey(e.tokens)) \cup {e}
             /\ total' = TotalWithout(e.tokens) + CacheBytes(Len(e.held))
             /\ stage' = "evict"
  <2> PICK e \in Entry :
         /\ e \notin Range(WithoutKey(e.tokens))
         /\ Range(entries') = Range(WithoutKey(e.tokens)) \cup {e}
         /\ total' = TotalWithout(e.tokens) + CacheBytes(Len(e.held))
         /\ stage' = "evict"
    BY <1>3
  <2> DEFINE E == Range(WithoutKey(e.tokens))
  <2>1. IsFiniteSet(BytesIn(E)) /\ TotalWithout(e.tokens) = Cardinality(BytesIn(E))
    BY WithoutKeyCounted DEF BudgetInv
  <2>2. /\ IsFiniteSet(BytesIn(E \cup {e}))
        /\ Cardinality(BytesIn(E \cup {e})) = Cardinality(BytesIn(E)) + CacheBytes(Len(e.held))
    BY <2>1, BytesAdded
  <2> QED BY <2>1, <2>2 DEF BudgetInv, Counted
<1> QED BY <1>1, <1>2, <1>3, SaveReplaces

LEMMA OtherBudget ==
    ASSUME PrefixInv, BudgetInv, PrefixInv',
           \/ \E r \in Req, p \in Prompts, c \in Configs : Miss(r, p, c)
           \/ \E r \in Req : Abort(r)
           \/ Clear
           \/ SetLimits
           \/ UNCHANGED prefixVars
    PROVE  BudgetInv'
<1>1. CASE Clear \/ SetLimits
  <2>1. entries' = <<>> /\ total' = 0
    BY <1>1 DEF Clear, SetLimits
  <2>2. Len(entries') = 0 /\ BytesIn(Range(entries')) = {}
    BY <2>1, NoBytes
  <2>3. limit' \in [entries : Nat, bytes : Nat]
    BY PrefixAssumption DEF PrefixInv, PrefixTypeOK
  <2>4. Counted'
    BY <2>1, <2>2, FS_EmptySet, Zenon DEF Counted
  <2>5. WithinLimits'
    BY <2>1, <2>2, <2>3 DEF WithinLimits
  <2> QED BY <2>4, <2>5 DEF BudgetInv
<1>2. CASE ~(Clear \/ SetLimits)
  <2>1. UNCHANGED <<entries, total, limit, stage>>
    BY <1>2 DEF Miss, Abort, prefixVars
  <2> QED BY <2>1 DEF BudgetInv, Counted, WithinLimits
<1> QED BY <1>1, <1>2

LEMMA BudgetStep == PrefixInv /\ PrefixInv' /\ BudgetInv /\ [PrefixNext]_prefixVars => BudgetInv'
BY EvictBudget, EvictEndBudget, HitBudget, SaveBudget, OtherBudget DEF PrefixNext


(***************************************************************************)
(* The order of uses.                                                      *)
(***************************************************************************)
IsLastUse(log, key, k) ==
  /\ k \in 1..Len(log)
  /\ log[k] = key
  /\ \A m \in (k + 1)..Len(log) : log[m] # key

(* The stamp of an entry is the place of the last use of its key in the    *)
(* history, so that the least stamp is the use longest ago.                *)
Logged ==
  /\ Len(uses) = clock
  /\ \A e \in Range(entries) : IsLastUse(uses, e.tokens, e.used)

LEMMA LastUseIs ==
    ASSUME NEW key, NEW k, uses \in Seq(Prompts), IsLastUse(uses, key, k)
    PROVE  LastUse(key) = k
<1>1. Len(uses) \in Nat
  BY LenProperties
<1>2. ASSUME NEW m \in 1..Len(uses), uses[m] = key,
             \A n \in (m + 1)..Len(uses) : uses[n] # key
      PROVE  m = k
  <2>1. ~(k < m)
    BY <1>1, <1>2 DEF IsLastUse
  <2>2. ~(m < k)
    BY <1>1, <1>2 DEF IsLastUse
  <2> QED BY <1>1, <2>1, <2>2 DEF IsLastUse
<1> QED BY <1>2 DEF LastUse, IsLastUse

(* A use of another key leaves the last use of a key where it was, and one *)
(* of the key itself comes last.                                           *)
LEMMA LastUseAppended ==
    ASSUME NEW log \in Seq(Prompts), NEW key \in Prompts, NEW other \in Prompts
    PROVE  /\ Len(Append(log, other)) = Len(log) + 1
           /\ IsLastUse(Append(log, key), key, Len(log) + 1)
           /\ \A k : IsLastUse(log, key, k) /\ other # key
                       => IsLastUse(Append(log, other), key, k)
<1>1. Len(log) \in Nat
  BY LenProperties
<1>2. \A x \in Prompts :
        /\ Len(Append(log, x)) = Len(log) + 1
        /\ \A j \in 1..Len(log) : Append(log, x)[j] = log[j]
        /\ Append(log, x)[Len(log) + 1] = x
  BY AppendProperties
<1>3. IsLastUse(Append(log, key), key, Len(log) + 1)
  BY <1>1, <1>2 DEF IsLastUse
<1>4. ASSUME NEW k, IsLastUse(log, key, k), other # key
      PROVE  IsLastUse(Append(log, other), key, k)
  <2>1. PICK t : t = Append(log, other)
    OBVIOUS
  <2>2. /\ Len(t) = Len(log) + 1
        /\ \A j \in 1..Len(log) : t[j] = log[j]
        /\ t[Len(log) + 1] = other
    BY <1>2, <2>1, Zenon
  <2>3. IsLastUse(t, key, k)
    BY <1>1, <1>4, <2>2 DEF IsLastUse
  <2> QED BY <2>1, <2>3
<1> QED BY <1>2, <1>3, <1>4

LEMMA LoggedInit == PrefixInit => Logged
BY NoBytes DEF PrefixInit, Logged, Range

LEMMA LoggedRest ==
    ASSUME Logged, Range(entries') \subseteq Range(entries), UNCHANGED <<clock, uses>>
    PROVE  Logged'
BY DEF Logged

LEMMA HitLogged ==
    ASSUME PrefixInv, Logged, NEW r \in Req, NEW p \in Prompts, NEW c \in Configs,
           Hit(r, p, c)
    PROVE  Logged'
<1> DEFINE E == Range(entries)
<1>1. PICK old \in E, new \in Entry :
         /\ new.tokens = old.tokens /\ new.used = clock + 1
         /\ Range(entries') = (E \ {old}) \cup {new}
         /\ \A e \in E \ {old} : e.tokens # old.tokens
         /\ uses' = Append(uses, old.tokens) /\ clock' = clock + 1
  BY HitReplaces, Zenon
<1>2. uses \in Seq(Prompts) /\ \A e \in E : e.tokens \in Prompts
  BY EntriesOfPrefix DEF PrefixInv, PrefixTypeOK, Entry
<1> HIDE DEF E
<1>3. Len(uses') = clock'
  BY <1>1, <1>2, LastUseAppended DEF Logged
<1>4. IsLastUse(uses', new.tokens, new.used)
  BY <1>1, <1>2, LastUseAppended DEF Logged
<1>5. ASSUME NEW e \in E \ {old}
      PROVE  IsLastUse(uses', e.tokens, e.used)
  BY <1>1, <1>2, LastUseAppended DEF Logged, E
<1> QED BY <1>1, <1>3, <1>4, <1>5 DEF Logged

LEMMA WithoutKeyWithin ==
    ASSUME PrefixInv, NEW key
    PROVE  Range(WithoutKey(key)) \subseteq Range(entries)
<1>1. CASE At(key) = {}
  BY <1>1 DEF WithoutKey
<1>2. CASE At(key) # {}
  <2>1. PositionOf(key) \in 1..Len(entries)
    BY <1>2, PositionIsAt DEF At
  <2> QED BY <1>2, <2>1, EntriesOfPrefix, RangeRemoved DEF WithoutKey
<1> QED BY <1>1, <1>2

LEMMA SaveLogged ==
    ASSUME PrefixInv, Logged, NEW r \in Req, NEW again \in 0..Len(work[r].prompt),
           Save(r, again), PrefixInv'
    PROVE  Logged'
<1>1. entries' \in Seq(Entry)
  BY DEF PrefixInv, PrefixTypeOK
<1>2. CASE UNCHANGED <<entries, clock, uses>>
  BY <1>2 DEF Logged
<1>3. CASE \E e \in Entry :
             /\ e.used = clock + 1
             /\ \A x \in Range(WithoutKey(e.tokens)) : x.tokens # e.tokens
             /\ Range(entries') = Range(WithoutKey(e.tokens)) \cup {e}
             /\ uses' = Append(uses, e.tokens) /\ clock' = clock + 1
  <2>1. PICK e \in Entry :
           /\ e.used = clock + 1
           /\ \A x \in Range(WithoutKey(e.tokens)) : x.tokens # e.tokens
           /\ Range(entries') = Range(WithoutKey(e.tokens)) \cup {e}
           /\ uses' = Append(uses, e.tokens) /\ clock' = clock + 1
    BY <1>3
  <2> DEFINE E == Range(WithoutKey(e.tokens))
  <2>2. /\ uses \in Seq(Prompts) /\ e.tokens \in Prompts
        /\ E \subseteq Range(entries)
        /\ \A x \in Range(entries) : x.tokens \in Prompts
    BY EntriesOfPrefix, WithoutKeyWithin DEF PrefixInv, PrefixTypeOK, Entry
  <2>3. Len(uses') = clock' /\ IsLastUse(uses', e.tokens, e.used)
    BY <2>1, <2>2, LastUseAppended DEF Logged
  <2>4. ASSUME NEW x \in E
        PROVE  IsLastUse(uses', x.tokens, x.used)
    BY <2>1, <2>2, LastUseAppended DEF Logged
  <2> QED BY <2>1, <2>3, <2>4 DEF Logged
<1> QED BY <1>1, <1>2, <1>3, SaveReplaces

LEMMA LoggedStep == PrefixInv /\ PrefixInv' /\ Logged /\ [PrefixNext]_prefixVars => Logged'
<1> SUFFICES ASSUME PrefixInv, PrefixInv', Logged, [PrefixNext]_prefixVars
             PROVE  Logged'
  OBVIOUS
<1>1. CASE \E r \in Req, p \in Prompts, c \in Configs : Hit(r, p, c)
  BY <1>1, HitLogged
<1>2. CASE \E r \in Req : \E again \in 0..Len(work[r].prompt) : Save(r, again)
  BY <1>2, SaveLogged
<1>3. CASE Evict
  <2>1. PICK i \in 1..Len(entries) : entries' = SwapRemove(entries, i)
    BY <1>3, Zenon DEF Evict
  <2>2. Range(entries') \subseteq Range(entries)
    BY <2>1, EntriesOfPrefix, RangeRemoved
  <2> QED BY <1>3, <2>2, LoggedRest DEF Evict
<1>4. CASE Clear
  <2>1. Range(entries') = {}
    BY <1>4 DEF Clear, Range
  <2> QED BY <1>4, <2>1, LoggedRest DEF Clear
<1>5. CASE SetLimits
  <2>1. Range(entries') = {} /\ Len(uses') = clock'
    BY <1>5, NoBytes DEF SetLimits, Range
  <2> QED BY <2>1 DEF Logged
<1>6. CASE \/ \E r \in Req, p \in Prompts, c \in Configs : Miss(r, p, c)
           \/ \E r \in Req : Abort(r)
           \/ EvictEnd
           \/ UNCHANGED prefixVars
  <2>1. UNCHANGED <<entries, clock, uses>>
    BY <1>6 DEF Miss, Abort, EvictEnd, prefixVars
  <2> QED BY <2>1, LoggedRest
<1> QED BY <1>1, <1>2, <1>3, <1>4, <1>5, <1>6 DEF PrefixNext

(* EvictsLeastRecent, of a step.                                           *)
LeastRecentGoes ==
  stage = "evict" /\ entries' # entries =>
    \E old \in Range(entries) :
       /\ Range(entries') = Range(entries) \ {old}
       /\ \A e \in Range(entries') : LastUse(old.tokens) < LastUse(e.tokens)

LEMMA EvictLeastRecent ==
    ASSUME PrefixInv, Logged, Evict
    PROVE  LeastRecentGoes
<1>1. PICK i \in 1..Len(entries) : IsOldest(i) /\ entries' = SwapRemove(entries, i)
  BY Zenon DEF Evict
<1>2. /\ entries[i] \in Range(entries)
      /\ Range(entries') = Range(entries) \ {entries[i]}
  BY <1>1, EntriesOfPrefix, RangeRemoved
<1>3. \A e \in Range(entries) : LastUse(e.tokens) = e.used
  BY LastUseIs DEF PrefixInv, PrefixTypeOK, Logged
<1>4. ASSUME NEW e \in Range(entries) \ {entries[i]}
      PROVE  entries[i].used < e.used
  <2>1. PICK j \in 1..Len(entries) : e = entries[j] /\ j # i
    BY EntriesOfPrefix
  <2>2. entries[j].used # entries[i].used
    BY <2>1, EntriesOfPrefix, Zenon DEF Faithful
  <2> QED BY <1>1, <2>1, <2>2 DEF IsOldest
<1> QED BY <1>2, <1>3, <1>4 DEF LeastRecentGoes

LEMMA StepLeastRecent ==
    ASSUME PrefixInv, Logged, [PrefixNext]_prefixVars
    PROVE  LeastRecentGoes
<1>1. CASE Evict
  BY <1>1, EvictLeastRecent
<1>2. CASE ~Evict
  <2>1. stage # "evict" \/ entries' = entries
    BY <1>2, Zenon DEF PrefixNext, Miss, Hit, Save, Abort, EvictEnd, Clear, SetLimits, prefixVars
  <2> QED BY <2>1 DEF LeastRecentGoes
<1> QED BY <1>1, <1>2

(***************************************************************************)
(* The theorems.                                                           *)
(***************************************************************************)
THEOREM PrefixInvariance == PrefixSpec => []PrefixInv
BY PrefixInitInv, PrefixStepInv, PTL DEF PrefixSpec

(* The cache and its requests have their types; no byte total is negative. *)
THEOREM PrefixTypeCorrect == PrefixSpec => []PrefixTypeOK
<1>1. PrefixInv => PrefixTypeOK
  BY DEF PrefixInv
<1> QED BY PrefixInvariance, <1>1, PTL

(* What a request restores is a strict prefix of its own prompt.           *)
THEOREM PrefixRestores == PrefixSpec => []RestoredIsPrefix
<1>1. PrefixInv => RestoredIsPrefix
  BY DEF PrefixInv
<1> QED BY PrefixInvariance, <1>1, PTL

(* Outside the mutex the entries are within both budgets, and the byte     *)
(* total is the bytes they hold.                                           *)
THEOREM PrefixBudgets == PrefixSpec => []BudgetsHold
<1>1. PrefixInv /\ BudgetInv => BudgetsHold
  BY DEF BudgetInv, Counted, WithinLimits, BudgetsHold
<1>2. PrefixSpec => []BudgetInv
  BY BudgetInit, BudgetStep, PrefixInvariance, PTL DEF PrefixSpec
<1> QED BY PrefixInvariance, <1>1, <1>2, PTL

(* evict_to_budget takes the entry whose last use is longest ago, and no   *)
(* other.                                                                  *)
THEOREM PrefixEvictsLeastRecent == PrefixSpec => EvictsLeastRecent
<1>1. PrefixSpec => []Logged
  BY LoggedInit, LoggedStep, PrefixInvariance, PTL DEF PrefixSpec
<1>2. PrefixInv /\ Logged /\ [PrefixNext]_prefixVars => [LeastRecentGoes]_prefixVars
  BY StepLeastRecent
<1>3. PrefixSpec => [][LeastRecentGoes]_prefixVars
  BY PrefixInvariance, <1>1, <1>2, PTL DEF PrefixSpec
<1> QED BY <1>3, PTL DEF LeastRecentGoes, EvictsLeastRecent

(* Every entry holds the state of exactly its key.                         *)
THEOREM PrefixFaithful == PrefixSpec => []EntriesFaithful
<1>1. PrefixInv => EntriesFaithful
  BY DEF PrefixInv
<1> QED BY PrefixInvariance, <1>1, PTL
==============================================================================
