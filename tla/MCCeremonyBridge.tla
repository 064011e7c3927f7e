-------------------------- MODULE MCCeremonyBridge --------------------------
EXTENDS CeremonyBridge, TLC

CONSTANTS p1, p2, p3, c1, c2

\* Every effect is proposed once.
OnceEach == (p1 :> {c1}) @@ (p2 :> {c2})

\* The first effect may be proposed again.
Again == (p1 :> {c1}) @@ (p2 :> {c2}) @@ (p3 :> {c1})
\* Skills, requests and proposals of the same effects are interchangeable.
Symmetry == Permutations(Skills) \cup Permutations(Requests)
              \cup {f \in Permutations(Proposals) : \A p \in Proposals : EffectsOf[f[p]] = EffectsOf[p]}
=============================================================================
