----------------------------- MODULE RiotClient -----------------------------
(***************************************************************************)
(* The client of Riot's API (riot/riot.service.ts): every read goes        *)
(* through a cache that forgets after a while, then through two token      *)
(* buckets, then over the wire with up to RIOT_MAX_RETRIES new tries while *)
(* Riot answers 429.  Time is a Tick: a bucket, a cache entry and a waiting *)
(* call only know how long ago they were touched, so time has no bound.    *)
(* A token is counted in Window-ths of itself, so that the refill of one   *)
(* tick, MaxTokens / Window, is a whole number.                            *)
(***************************************************************************)
EXTENDS Integers, Sequences, FiniteSets, SequencesExt

CONSTANTS Callers,      \* the calls under way at once
          Buckets,      \* perSecondBucket and perTwoMinBucket
          MaxTokens,    \* their capacity ...
          Window,       \* ... and the ticks in which it is refilled
          Keys,         \* the reads that are cached
          FreshKeys,    \* the reads that never are: the icon of an account
          Ttl,          \* how long an answer is kept
          MaxEntries,   \* the size of the cache
          RIOT_MAX_RETRIES,
          MaxRetryAfter

VARIABLES tokens,       \* bucket -> its tokens, in Window-ths
          sinceRefill,  \* bucket -> ticks since lastRefill, at most Window
          cache,        \* the entries, oldest first: what is read, and how long it lives
          call,         \* caller -> the call it waits for
          granted       \* bucket -> the ages of the tokens given in the last Window ticks

vars == <<tokens, sinceRefill, cache, call, granted>>

NoCall == [stage |-> "none", key |-> "", holds |-> {}, attempt |-> 0,
           wait |-> [b \in Buckets |-> 0], retryIn |-> 0]

Init == /\ tokens = [b \in Buckets |-> MaxTokens[b] * Window[b]]
        /\ sinceRefill = [b \in Buckets |-> 0]
        /\ cache = <<>>
        /\ call = [c \in Callers |-> NoCall]
        /\ granted = [b \in Buckets |-> <<>>]
-----------------------------------------------------------------------------
(* The buckets.                                                            *)

Least(a, b) == IF a < b THEN a ELSE b

\* Mutant: a bucket whose lastRefill stays where it was counts the same time twice.
RefilledTwice(b) == Window[b]

\* The time that is still to be refilled once acquire has refilled.
Refilled(b) == 0

filled(b) == Least(MaxTokens[b] * Window[b], tokens[b] + sinceRefill[b] * MaxTokens[b])

gives(b) == filled(b) >= Window[b]

\* waitMs: until one whole token is back.
waitFor(b) == (Window[b] - filled(b) + MaxTokens[b] - 1) \div MaxTokens[b]

\* The call c asks the buckets bs for a token each; those that have none say
\* how long to wait.  rest is what the call keeps of the rest of its state.
acquire(c, bs, rest) ==
  /\ tokens' = [b \in Buckets |-> IF b \notin bs THEN tokens[b]
                                  ELSE IF gives(b) THEN filled(b) - Window[b] ELSE filled(b)]
  /\ sinceRefill' = [b \in Buckets |-> IF b \in bs THEN Refilled(b) ELSE sinceRefill[b]]
  /\ granted' = [b \in Buckets |-> IF b \in bs /\ gives(b) THEN Append(granted[b], 0)
                                   ELSE granted[b]]
  /\ call' = [call EXCEPT ![c] =
       [rest EXCEPT !.holds = @ \cup {b \in bs : gives(b)},
                    !.wait = [b \in Buckets |-> IF b \in bs /\ ~gives(b) THEN waitFor(b)
                                                ELSE rest.wait[b]]]]
-----------------------------------------------------------------------------
(* The cache: a hit answers at once, an entry that has expired is dropped  *)
(* by the read that finds it, a full cache drops its oldest entry.         *)

Holds(key) == \E i \in DOMAIN cache : cache[i].key = key
Live(key) == \E i \in DOMAIN cache : cache[i].key = key /\ cache[i].left > 0

cacheGet(key) == SelectSeq(cache, LAMBDA e : e.key # key \/ e.left > 0)

cacheSet(key) ==
  LET entry == [key |-> key, left |-> Ttl] IN
  IF Holds(key)
  THEN [i \in DOMAIN cache |-> IF cache[i].key = key THEN entry ELSE cache[i]]
  ELSE Append(IF Len(cache) >= MaxEntries THEN Tail(cache) ELSE cache, entry)
-----------------------------------------------------------------------------
(* The calls.                                                              *)

\* A read asks both buckets for a token.
riotGet(c, key) ==
  /\ call[c].stage = "none"
  /\ acquire(c, Buckets, [NoCall EXCEPT !.stage = "tokens", !.key = key])

\* The cache does not answer.
CachedRead(c) == \E key \in Keys : /\ ~Live(key)
                                  /\ cache' = cacheGet(key)
                                  /\ riotGet(c, key)

\* The icon of an account is never answered by the cache, so that a change of it
\* is seen (verifyIcon).
FreshRead(c) == UNCHANGED cache /\ \E key \in FreshKeys : riotGet(c, key)

\* The timers of a call that found no token end, and it looks again.
Retake(c) ==
  LET due == {b \in Buckets \ call[c].holds : call[c].wait[b] = 0} IN
  /\ call[c].stage = "tokens" /\ due # {}
  /\ acquire(c, due, call[c])
  /\ UNCHANGED cache

Send(c) ==
  /\ call[c].stage = "tokens" /\ call[c].holds = Buckets
  /\ call' = [call EXCEPT ![c].stage = "sent"]
  /\ UNCHANGED <<tokens, sinceRefill, cache, granted>>

\* Riot answers: the data is kept and returned.
AnswerData(c) ==
  /\ call[c].stage = "sent"
  /\ cache' = IF call[c].key \in Keys THEN cacheSet(call[c].key) ELSE cache
  /\ call' = [call EXCEPT ![c] = NoCall]
  /\ UNCHANGED <<tokens, sinceRefill, granted>>

\* Riot answers 429: the same request is sent again after Retry-After, with no
\* new token, unless it was sent RIOT_MAX_RETRIES times more already.
AnswerBusy(c) ==
  /\ call[c].stage = "sent"
  /\ IF call[c].attempt = RIOT_MAX_RETRIES
     THEN call' = [call EXCEPT ![c] = NoCall]
     ELSE \E n \in 1 .. MaxRetryAfter :
            call' = [call EXCEPT ![c].stage = "backoff", ![c].attempt = @ + 1,
                                 ![c].retryIn = n]
  /\ UNCHANGED <<tokens, sinceRefill, cache, granted>>

Resend(c) ==
  /\ call[c].stage = "backoff" /\ call[c].retryIn = 0
  /\ call' = [call EXCEPT ![c].stage = "sent"]
  /\ UNCHANGED <<tokens, sinceRefill, cache, granted>>

\* Any other failure: the caller gets an error, an empty list or nothing, and
\* the cache is left alone, so the next read asks again.
AnswerError(c) ==
  /\ call[c].stage = "sent"
  /\ call' = [call EXCEPT ![c] = NoCall]
  /\ UNCHANGED <<tokens, sinceRefill, cache, granted>>

Before(n) == IF n = 0 THEN 0 ELSE n - 1

\* Of the tokens given one after the other, those given in the last window ticks.
Recent(ages, window) ==
  SubSeq(ages, 1 + Cardinality({i \in DOMAIN ages : ages[i] >= window}), Len(ages))

Tick ==
  /\ sinceRefill' = [b \in Buckets |-> Least(Window[b], sinceRefill[b] + 1)]
  /\ cache' = [i \in DOMAIN cache |-> [cache[i] EXCEPT !.left = Before(@)]]
  /\ call' = [c \in Callers |-> [call[c] EXCEPT !.retryIn = Before(@),
                !.wait = [b \in Buckets |-> Before(call[c].wait[b])]]]
  /\ granted' = [b \in Buckets |->
       Recent([i \in DOMAIN granted[b] |-> granted[b][i] + 1], Window[b])]
  /\ UNCHANGED tokens

Step(c) == \/ CachedRead(c) \/ FreshRead(c) \/ Retake(c) \/ Send(c) \/ Resend(c)
           \/ AnswerData(c) \/ AnswerBusy(c) \/ AnswerError(c)

Next == Tick \/ \E c \in Callers : Step(c)
-----------------------------------------------------------------------------
(* Properties.                                                             *)

Given(b) == Len(granted[b])

\* What the two buckets keep: in no stretch of Window ticks do they let more than their
\* capacity and one refill through, however many calls queue for a token.
BurstsAreBounded ==
  \A b \in Buckets :
    Given(b) <= MaxTokens[b] + (MaxTokens[b] * (Window[b] - 1)) \div Window[b]

\* "18 req / 1 s", "90 req / 2 min": no more than its capacity passes a bucket in its window.
TheLimitIsHeld == \A b \in Buckets : Given(b) <= MaxTokens[b]
=============================================================================
