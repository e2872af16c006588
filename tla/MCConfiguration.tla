-------------------------- MODULE MCConfiguration --------------------------
(* Two of the secrets and the provider; two processes that start or check. *)
EXTENDS Configuration, TLC

CONSTANTS p1, p2, i1, i2, i3

MCFields == {"SECRET_KEY", "CLOUDFLARE_API_TOKEN", "DNS_PROVIDER"}
Said(secret, token, provider) ==
  [f \in MCFields |-> CASE f = "SECRET_KEY" -> secret
                        [] f = "CLOUDFLARE_API_TOKEN" -> token
                        [] f = "DNS_PROVIDER" -> provider]
\* What init writes is there: a new key, and a token still to be filled in.
MCGenerated == Said("own", "placeholder", "own")
\* Nothing; all that is needed; a token and a misspelt provider; what init writes.
MCContents ==
  {Said("unset", "unset", "unset"), Said("own", "own", "unset"), Said("unset", "own", "refused"), MCGenerated}
\* Two runs of init for the user, one for the system.
MCTarget == [i \in Inits |-> IF i = i3 THEN "system" ELSE "user"]
\* The processes are alike, and so are the two runs of init with one target.
MCSymmetry == Permutations(Procs) \cup Permutations({i1, i2})
=============================================================================
