------------------------- MODULE MCPromisorRemote --------------------------
(* Two ordinary remotes, one name beginning with '/', two objects.        *)
EXTENDS PromisorRemote

E(nm, k) == [name |-> nm, key |-> k]

\* Configurations that exercise each branch of promisor_remote_config: no
\* remote, a remote named twice, a filter before "promisor = true", a
\* "promisor = false", a '/' name, and two remotes in either order.
MCConfigs == { << >>,
               <<E("a", "promisor"), E("b", "promisor")>>,
               <<E("b", "filter"), E("a", "promisor")>>,
               <<E("a", "promisor"), E("a", "filter")>>,
               <<E("b", "nopromisor"), E("/s", "promisor")>> }

\* Remote "a" serves o1, "b" serves both, "/s" would serve o2.
MCHas(r) == CASE r = "a" -> {"o1"}
              [] r = "b" -> {"o1", "o2"}
              [] OTHER   -> {"o2"}
=============================================================================
