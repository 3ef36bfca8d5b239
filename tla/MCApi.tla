-------------------------------- MODULE MCApi --------------------------------
(* What a request to the API meets, in parts that share nothing: a behaviour  *)
(* is one of a single part.                                                   *)
(*   redis    three requests to the Redis limiter, with a limit of one         *)
(*   gateway  three handlers in two processes, with a quota                   *)
(*   submit   the submissions of MCCrawlSubmit                                *)
EXTENDS MCCrawlSubmit, RateLimit, PublicApi

CONSTANTS a1, a2, a3, s1, s2

MCServerOf == (a1 :> s1) @@ (a2 :> s1) @@ (a3 :> s2)

VARIABLE part   \* the part that is in use

apiRunVars == <<part, subVars, limitVars, apiVars>>

ApiRunInit == part \in {"redis", "gateway", "submit"} /\ SubmitInit /\ LimitInit /\ ApiInit

ApiRunNext ==
  \/ part = "redis" /\ LimitNext /\ UNCHANGED <<part, subVars, apiVars>>
  \/ part = "gateway" /\ ApiNext /\ UNCHANGED <<part, subVars, limitVars>>
  \/ part = "submit" /\ SubmitNext /\ UNCHANGED <<part, limitVars, apiVars>>

ApiRunSpec == ApiRunInit /\ [][ApiRunNext]_apiRunVars
=============================================================================
