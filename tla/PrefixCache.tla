------------------------------ MODULE PrefixCache ------------------------------
(***************************************************************************)
(* The cross-request KV prefix cache of pmetal-serve (prefix_cache.rs) and *)
(* the requests that use it: a request restores the longest cached prefix  *)
(* of its prompt, prefills the rest some time later, and offers the cache  *)
(* of its whole prompt to the next ones (enqueue and                       *)
(* save_prefix_if_possible in continuous_pump.rs, run_async_decode in      *)
(* engine.rs).  The mutex around the cache makes every operation atomic;   *)
(* the loop of evict_to_budget runs one iteration per step while `stage'   *)
(* keeps the mutex.  A KV cache is the sequence of tokens fed into it.     *)
(***************************************************************************)
EXTENDS Integers, Sequences, FiniteSets, SequencesExt

CONSTANTS
    Req,          \* names of the requests under way
    Prompts,      \* prompts they may have
    Configs,      \* KVCacheConfig values in use
    Limits,       \* pairs [entries, bytes] for set_prefix_cache_limits
    MaxClock,     \* bound on the uses of the cache counted by `clock'
    Step          \* tokens by which the buffers of a KV cache grow

ASSUME PrefixAssumption ==
    /\ Prompts \subseteq Seq(Nat) \ {<<>>}
    /\ Configs # {}
    /\ Limits \subseteq [entries : Nat, bytes : Nat]
    /\ Limits # {}
    /\ MaxClock \in Nat
    /\ Step \in Nat \ {0}

VARIABLES
    entries,  \* Seq([tokens, held, config, used])
    total,    \* current_bytes
    clock,    \* the counter behind Entry.last_used
    limit,    \* [entries, bytes]: max_entries and max_bytes
    stage,    \* "rest", or "evict" inside evict_to_budget
    work,     \* [Req -> [prompt, cache, config]]: requests being prefilled
    uses      \* history: the keys inserted or hit since the cache was made

prefixVars == <<entries, total, clock, limit, stage, work, uses>>

Idle == [prompt |-> <<>>, cache |-> <<>>, config |-> CHOOSE c \in Configs : TRUE]

PrefixInit ==
    /\ entries = <<>>
    /\ total = 0
    /\ clock = 0
    /\ limit \in Limits
    /\ stage = "rest"
    /\ work = [r \in Req |-> Idle]
    /\ uses = <<>>

\* memory_usage of a cache of n tokens, one byte each, in whole buffers.
CacheBytes(n) == Step * ((n + Step - 1) \div Step)

\* saturating_sub.
Less(a, b) == IF b <= a THEN a - b ELSE 0

\* A tick that returns the value it had before.
StampBefore == clock

\* The stamp of the next use.
Stamp == clock + 1

(***************************************************************************)
(* find_longest_prefix.                                                    *)
(***************************************************************************)
\* A match that may cover every token of the prompt.
MatchesWhole(prompt) ==
    {i \in 1..Len(entries) : IsPrefix(entries[i].tokens, prompt)}

Matches(prompt) ==
    {i \in 1..Len(entries) : IsStrictPrefix(entries[i].tokens, prompt)}

\* The scan keeps the first of the longest matches.
IsBest(i, prompt) ==
    /\ i \in Matches(prompt)
    /\ \A j \in Matches(prompt) :
          \/ Len(entries[j].tokens) < Len(entries[i].tokens)
          \/ Len(entries[j].tokens) = Len(entries[i].tokens) /\ i <= j

\* A hit that does not refresh the entry.
RefreshedNot(i) == entries

Refreshed(i) == [entries EXCEPT ![i].used = Stamp]

Begin(r, prompt, cache, config) ==
    work' = [work EXCEPT ![r] = [prompt |-> prompt, cache |-> cache, config |-> config]]

Miss(r, prompt, config) ==
    /\ stage = "rest"
    /\ work[r] = Idle
    /\ Matches(prompt) = {}
    /\ Begin(r, prompt, <<>>, config)
    /\ UNCHANGED <<entries, total, clock, limit, stage, uses>>

Hit(r, prompt, config) ==
    /\ stage = "rest"
    /\ work[r] = Idle
    /\ clock < MaxClock
    /\ \E i \in 1..Len(entries) :
          /\ IsBest(i, prompt)
          /\ entries' = Refreshed(i)
          /\ uses' = Append(uses, entries[i].tokens)
          /\ \/ /\ entries[i].config = config
                /\ Begin(r, prompt, entries[i].held, config)
             \* The pump ignores the mismatch, the single path gives up.
             \/ /\ entries[i].config # config
                /\ Begin(r, prompt, <<>>, config) \/ work' = work
    /\ clock' = clock + 1
    /\ UNCHANGED <<total, limit, stage>>

(***************************************************************************)
(* insert, at the end of the prefill.                                      *)
(***************************************************************************)
\* The prompt's own length is taken on trust.
SavableAny(prompt, held) == prompt # <<>>

Savable(prompt, held) == prompt # <<>> /\ Len(held) = Len(prompt)

At(key) == {i \in 1..Len(entries) : entries[i].tokens = key}

\* Vec::swap_remove.
SwapRemove(s, i) == [j \in 1..(Len(s) - 1) |-> IF j = i THEN s[Len(s)] ELSE s[j]]

\* The position of the entry to replace.
PositionOf(key) == CHOOSE i \in At(key) : \A j \in At(key) : i <= j

WithoutKey(key) ==
    IF At(key) = {} THEN entries ELSE SwapRemove(entries, PositionOf(key))

BytesOf(key) ==
    IF At(key) = {} THEN 0 ELSE CacheBytes(Len(entries[PositionOf(key)].held))

TotalWithout(key) == Less(total, BytesOf(key))

(* A chunk whose forward failed half-way is fed again by the pump: then    *)
(* the cache holds the first `again' tokens of the suffix twice.           *)
Prefilled(w, again) ==
    LET suffix == SubSeq(w.prompt, Len(w.cache) + 1, Len(w.prompt))
    IN  w.cache \o SubSeq(suffix, 1, again) \o suffix

Save(r, again) ==
    LET w    == work[r]
        held == Prefilled(w, again)
    IN  /\ stage = "rest"
        /\ w # Idle
        /\ again <= Len(w.prompt) - Len(w.cache)
        /\ work' = [work EXCEPT ![r] = Idle]
        /\ IF Savable(w.prompt, held)
             THEN /\ clock < MaxClock
                  /\ entries' = Append(WithoutKey(w.prompt),
                        [tokens |-> w.prompt, held |-> held,
                         config |-> w.config, used |-> Stamp])
                  /\ total' = TotalWithout(w.prompt) + CacheBytes(Len(held))
                  /\ clock' = clock + 1
                  /\ uses' = Append(uses, w.prompt)
                  /\ stage' = "evict"
             ELSE UNCHANGED <<entries, total, clock, uses, stage>>
        /\ UNCHANGED limit

\* The request ends before its prefill does.
Abort(r) ==
    /\ stage = "rest"
    /\ work[r] # Idle
    /\ work' = [work EXCEPT ![r] = Idle]
    /\ UNCHANGED <<entries, total, clock, limit, stage, uses>>

(***************************************************************************)
(* evict_to_budget.                                                        *)
(***************************************************************************)
\* Only the number of entries counts.
OverBudgetEntries == Len(entries) > limit.entries

OverBudget ==
    \/ Len(entries) > limit.entries
    \/ limit.bytes > 0 /\ total > limit.bytes

IsOldest(i) ==
    \A j \in 1..Len(entries) :
        \/ entries[i].used < entries[j].used
        \/ entries[i].used = entries[j].used /\ i <= j

Evict ==
    /\ stage = "evict"
    /\ OverBudget
    /\ \E i \in 1..Len(entries) :
          /\ IsOldest(i)
          /\ entries' = SwapRemove(entries, i)
          /\ total' = Less(total, CacheBytes(Len(entries[i].held)))
    /\ UNCHANGED <<clock, limit, stage, work, uses>>

EvictEnd ==
    /\ stage = "evict"
    /\ ~OverBudget \/ entries = <<>>
    /\ stage' = "rest"
    /\ UNCHANGED <<entries, total, clock, limit, work, uses>>

Clear ==
    /\ stage = "rest"
    /\ entries' = <<>>
    /\ total' = 0
    /\ UNCHANGED <<clock, limit, stage, work, uses>>

\* A cache made anew, its clock too, while requests hold forks of the old one.
SetLimits ==
    /\ stage = "rest"
    /\ limit' \in Limits
    /\ entries' = <<>>
    /\ total' = 0
    /\ clock' = 0
    /\ uses' = <<>>
    /\ UNCHANGED <<stage, work>>

PrefixNext ==
    \/ \E r \in Req, p \in Prompts, c \in Configs : Miss(r, p, c) \/ Hit(r, p, c)
    \/ \E r \in Req : \E again \in 0..Len(work[r].prompt) : Save(r, again)
    \/ \E r \in Req : Abort(r)
    \/ Evict
    \/ EvictEnd
    \/ Clear
    \/ SetLimits

PrefixSpec == PrefixInit /\ [][PrefixNext]_prefixVars

(***************************************************************************)
(* Properties.                                                             *)
(***************************************************************************)
Entry == [tokens : Prompts, held : Seq(Nat), config : Configs, used : 1..MaxClock]

(* The type invariant of the cache and of the requests that use it.        *)
PrefixTypeOK ==
    /\ entries \in Seq(Entry)
    /\ total \in Nat
    /\ clock \in 0..MaxClock
    /\ limit \in Limits
    /\ stage \in {"rest", "evict"}
    /\ work \in [Req -> [prompt : Prompts \cup {<<>>}, cache : Seq(Nat), config : Configs]]
    /\ uses \in Seq(Prompts)

(* A request never computes on another conversation's state: what it has   *)
(* restored is a strict prefix of its own prompt, so that a token is left  *)
(* to prefill, also after a retried chunk, an eviction of the entry it     *)
(* came from, or a cleared cache.                                          *)
RestoredIsPrefix ==
    \A r \in Req : work[r] # Idle => IsStrictPrefix(work[r].cache, work[r].prompt)

(* Every entry holds the KV state of exactly its key, once per key, and no *)
(* two uses have the same stamp, so the least recent one is determined.    *)
EntriesFaithful ==
    /\ \A i \in 1..Len(entries) : entries[i].held = entries[i].tokens
    /\ \A i, j \in 1..Len(entries) :
          entries[i].tokens = entries[j].tokens \/ entries[i].used = entries[j].used => i = j

\* The last use of key there was.
LastUse(key) ==
    CHOOSE k \in 1..Len(uses) :
        /\ uses[k] = key
        /\ \A m \in (k + 1)..Len(uses) : uses[m] # key

\* The bytes held by the entries of E, each a pair of its entry and a number.
BytesIn(E) == UNION {{e} \X (1..CacheBytes(Len(e.held))) : e \in E}

(* Outside the mutex both budgets hold, and max_entries = 0 disables the   *)
(* cache; the byte total counts exactly the entries there are, through     *)
(* replacement, eviction and clearing.                                     *)
BudgetsHold ==
    stage = "rest" =>
        /\ Len(entries) <= limit.entries
        /\ limit.bytes > 0 => total <= limit.bytes
        /\ total = Cardinality(BytesIn(Range(entries)))

(* Eviction is LRU: of the keys cached, the one whose last insert or hit   *)
(* is longest ago goes first, whatever order swap_remove left them in, and *)
(* the entries of all the others stay as they were.                        *)
EvictsLeastRecent ==
    [][stage = "evict" /\ entries' # entries =>
         \E old \in Range(entries) :
             /\ Range(entries') = Range(entries) \ {old}
             /\ \A e \in Range(entries') : LastUse(old.tokens) < LastUse(e.tokens)
      ]_prefixVars

==============================================================================
