-------------------------------- MODULE Chat --------------------------------
(***************************************************************************)
(* The calls to the language models: which provider a feature gets from    *)
(* the settings, the retries, the cooldown all calls share, what a model   *)
(* refuses in the body and is remembered, the fallback to another house,   *)
(* and the cache the analyses of opponents and of profiles keep            *)
(* (ai/chat.client.ts, ai-settings.service.ts, ai-provider.registry.ts and *)
(* ai.service.ts).  A prompt and an answer are nothing but asked and       *)
(* answered; an answer is readable or not.  The answers of a provider are  *)
(* external: each post may end in any of them.  A wait is a state that is  *)
(* left in its own time.  Providers are numbers, one model each.           *)
(***************************************************************************)
EXTENDS Naturals, FiniteSets

CONSTANTS Callers, Features, UNSUPPORTED_PARAMS, MAX_RETRIES, MaxCalls

VARIABLES settings,  \* analysisEnabled, the keys that are set, the fallback chosen
          refuses,   \* what the model of each provider does not take (external)
          quirks,    \* what it is known not to take
          blocked,   \* a cooldown runs
          call,      \* the call each caller is in
          cache,     \* what each analysis keeps
          calls      \* how many calls were made

vars == <<settings, refuses, quirks, blocked, call, cache, calls>>

Primary == 1
Reserve == 2
Providers == {Primary, Reserve}
\* The wire of the reserve is Gemini's, whose body leaves nothing to learn.
OpenAi == {Primary}

NoCall == [at |-> "idle", feature |-> "none", provider |-> 0, fallback |-> 0, attempt |-> 0,
           body |-> {}, refused |-> {}, why |-> "none"]

-----------------------------------------------------------------------------
(* The settings.                                                           *)

Resolve(p) == p \in settings.keys
Analysis == [provider |-> IF settings.enabled /\ Resolve(Primary) THEN Primary ELSE 0,
             fallback |-> IF /\ settings.enabled /\ Resolve(Primary)
                             /\ settings.fallback # Primary /\ Resolve(settings.fallback)
                          THEN settings.fallback ELSE 0]

Init == /\ settings \in [enabled : BOOLEAN, keys : SUBSET Providers, fallback : {0} \cup Providers]
        /\ refuses \in [OpenAi -> SUBSET UNSUPPORTED_PARAMS]
        /\ quirks = [p \in OpenAi |-> {}] /\ blocked = FALSE
        /\ call = [c \in Callers |-> NoCall]
        /\ cache = [f \in Features |-> "none"] /\ calls = 0

-----------------------------------------------------------------------------
(* The features that ask.                                                  *)

At(c, at) == call' = [call EXCEPT ![c].at = at]
Ask(c, f) ==
  /\ call[c] = NoCall /\ calls < MaxCalls /\ calls' = calls + 1
  /\ Analysis.provider # 0
  /\ call' = [call EXCEPT ![c] = [NoCall EXCEPT !.at = "cooldown", !.feature = f,
                                  !.provider = Analysis.provider, !.fallback = Analysis.fallback]]
  /\ UNCHANGED <<settings, refuses, quirks, blocked, cache>>

\* A forced analysis looks past the cache; a cached one asks nothing.
AnalyzeOpponents(c) == "analysis" \in Features /\ Ask(c, "analysis")
AnalyzePlayerProfile(c) == /\ "profile" \in Features /\ cache["profile"] = "none"
                           /\ Ask(c, "profile")
GenerateMatchRecap(c) == "recap" \in Features /\ Ask(c, "recap")

-----------------------------------------------------------------------------
(* One provider.                                                           *)

\* There is no cooldown, or the rest of it is waited for once ...
WaitForCooldown(c) == /\ call[c].at = "cooldown"
                      /\ At(c, IF blocked THEN "waiting" ELSE "ready")
                      /\ UNCHANGED <<settings, refuses, quirks, blocked, cache, calls>>

\* ... though somebody has met another one since.
WaitEnds(c) == /\ call[c].at = "waiting" /\ At(c, "ready")
               /\ UNCHANGED <<settings, refuses, quirks, blocked, cache, calls>>

CooldownEnds == /\ blocked /\ blocked' = FALSE
                /\ UNCHANGED <<settings, refuses, quirks, call, cache, calls>>

\* The body leaves out what the model is known to refuse.
Body(p) == IF p \in OpenAi THEN UNSUPPORTED_PARAMS \ quirks[p] ELSE {}
Post(c) == /\ call[c].at = "ready"
           /\ call' = [call EXCEPT ![c].at = "posted", ![c].body = Body(call[c].provider)]
           /\ UNCHANGED <<settings, refuses, quirks, blocked, cache, calls>>

Rejected(c) == IF call[c].provider \in OpenAi
               THEN call[c].body \cap refuses[call[c].provider] ELSE {}

\* Mutant: there is no other house.
NoFallback(k) == [k EXCEPT !.at = "failed"]

\* The provider throws for good: on to the other house, if there is one.
Fallback(k) == IF k.fallback = 0 \/ k.fallback = k.provider
               THEN [k EXCEPT !.at = "failed"]
               ELSE [k EXCEPT !.at = "cooldown", !.provider = k.fallback, !.attempt = 0,
                              !.refused = @ \cup {k.provider}]
Throw(c, why) == call' = [call EXCEPT ![c] = Fallback([@ EXCEPT !.why = why, !.body = {}])]

\* Of two parameters the provider names one.
Learn(c) == \E param \in Rejected(c) :
  /\ call[c].at = "posted"
  /\ LET p == call[c].provider IN
     IF param \in quirks[p]
     THEN Throw(c, "parameter") /\ UNCHANGED quirks
     ELSE /\ quirks' = [quirks EXCEPT ![p] = @ \cup {param}]
          /\ At(c, "ready")
  /\ UNCHANGED <<settings, refuses, blocked, cache, calls>>

Answered(c) == /\ call[c].at = "posted" /\ Rejected(c) = {}
               /\ At(c, "answered")
               /\ UNCHANGED <<settings, refuses, quirks, blocked, cache, calls>>

\* Mutant: the attempts are not counted.
RetryForEver(k) == [k EXCEPT !.at = "backoff", !.body = {}]

\* 408, 429, 5xx or a timeout: again after a while, a 429 for everybody.
Retry(k) == [k EXCEPT !.at = "backoff", !.body = {}, !.attempt = @ + 1]
Transient(c) == \E tooMany \in BOOLEAN :
  /\ call[c].at = "posted" /\ Rejected(c) = {}
  /\ IF call[c].attempt = MAX_RETRIES
     THEN Throw(c, "transient") /\ UNCHANGED blocked
     ELSE /\ call' = [call EXCEPT ![c] = Retry(@)]
          /\ blocked' = (blocked \/ tooMany)
  /\ UNCHANGED <<settings, refuses, quirks, cache, calls>>

\* Any other refusal, or a 429 that asks for more than a minute.
Refused(c) == /\ call[c].at = "posted" /\ Rejected(c) = {}
              /\ Throw(c, "refused")
              /\ UNCHANGED <<settings, refuses, quirks, blocked, cache, calls>>

BackoffEnds(c) == /\ call[c].at = "backoff" /\ At(c, "cooldown")
                  /\ UNCHANGED <<settings, refuses, quirks, blocked, cache, calls>>

-----------------------------------------------------------------------------
(* What the feature makes of it.  The analysis keeps what a model wrote    *)
(* for long and its own numbers for short; an unreadable answer it does    *)
(* not keep at all.  The profile keeps whatever it returns to an answer.   *)

Kept(c, readable) ==
  LET f == call[c].feature IN
  CASE f = "recap" -> cache
    [] call[c].at = "failed" -> [cache EXCEPT ![f] = "short"]
    [] f = "analysis" /\ ~readable -> cache
    [] OTHER -> [cache EXCEPT ![f] = "long"]

Return(c) == \E readable \in BOOLEAN :
  /\ call[c].at \in {"answered", "failed"}
  /\ cache' = Kept(c, readable)
  /\ call' = [call EXCEPT ![c] = NoCall]
  /\ UNCHANGED <<settings, refuses, quirks, blocked, calls>>

Expire == \E f \in Features :
  /\ cache[f] # "none" /\ cache' = [cache EXCEPT ![f] = "none"]
  /\ UNCHANGED <<settings, refuses, quirks, blocked, call, calls>>

-----------------------------------------------------------------------------
Outcome(c) == Learn(c) \/ Answered(c) \/ Transient(c) \/ Refused(c)
Step(c) == \/ WaitForCooldown(c) \/ WaitEnds(c) \/ Post(c) \/ Outcome(c)
           \/ BackoffEnds(c) \/ Return(c)

Next == \/ CooldownEnds \/ Expire
        \/ \E c \in Callers : \/ AnalyzeOpponents(c) \/ AnalyzePlayerProfile(c)
                              \/ GenerateMatchRecap(c) \/ Step(c)

\* Posts end, timers run out and answers are handled.
Fairness == \A c \in Callers : WF_vars(Step(c))
Spec == Init /\ [][Next]_vars /\ Fairness

\* A call fails only after the other house has been asked too: whatever the
\* first provider answered and however often, with a reserve chosen nobody hears
\* of a failure the reserve has not confirmed ("Provedor de outra empresa para
\* tentar quando o primeiro falha de vez").
TheReserveIsAsked ==
  \A c \in Callers : (call[c].at = "failed" /\ call[c].fallback \notin {0, Primary})
                     => call[c].provider = Reserve /\ Primary \in call[c].refused

\* Every call ends: retries, what is learnt about the body, cooldowns other
\* calls set and the fallback never keep a caller going round
\* (MCJourneys, AwaitedIsDone).
Busy(c) == call[c].at # "idle"
=============================================================================
