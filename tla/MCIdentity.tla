----------------------------- MODULE MCIdentity -----------------------------
(* Instances of Identity for TLC.                                          *)
EXTENDS Identity, TLC

CONSTANTS
    x,  \* a subject that is listed as a service and that OIDC knows as well
    c   \* a person Cloudflare Access knows

Unmapped == [s \in {x, c} |-> None]

\* Cloudflare Access with a service; the same with the service mapped to a
\* person; OIDC with the person mapped to the subject that was the service.
Deployments ==
    {[mode |-> "cloudflare_access", admins |-> {}, services |-> {x},
      viewer |-> Unmapped],
     [mode |-> "cloudflare_access", admins |-> {}, services |-> {x},
      viewer |-> [Unmapped EXCEPT ![x] = c]],
     [mode |-> "oidc", admins |-> {x}, services |-> {},
      viewer |-> [Unmapped EXCEPT ![c] = x]]}

Symmetry == Permutations(Reqs) \cup Permutations(Cookies)
=============================================================================
