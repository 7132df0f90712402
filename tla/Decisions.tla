----------------------------- MODULE Decisions -----------------------------
(***************************************************************************)
(* The two algorithms of internal/iam that decide a request: AllowsAction  *)
(* evaluates the policies, and wildcard says which names a pattern of a    *)
(* policy stands for.  They share no state.                                *)
(***************************************************************************)
EXTENDS PolicyDecision

CONSTANTS Letters, MaxPattern, MaxName

VARIABLES pattern, name, si, pi, star, ss, match

Wild == INSTANCE Wildcard WITH result <- match

ASSUME WildcardAssumption == Wild!BoundAssumption

-----------------------------------------------------------------------------
\* wildcard decides like the definition of globbing.
MatchIsGlob == Wild!MatchIsGlob
=============================================================================
