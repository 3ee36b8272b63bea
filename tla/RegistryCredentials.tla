------------------------ MODULE RegistryCredentials ------------------------
(***************************************************************************)
(* Registry implements Credentials: the statements of concurrent requests, *)
(* which fail and are abandoned half-way, seen from outside.               *)
(***************************************************************************)
EXTENDS Registry

\* Registrations that have executed their SELECT and not their UPDATE.
Shown ==
  {[tid |-> job[w].tid, shown |-> job[w].mediated] :
     w \in {x \in Worker : job[x].op = "update"}}

\* Answers whose pair is in the table and that have not been sent.
OnTheirWay ==
  {AnswerOf(job[w]) : w \in {x \in Worker : job[x].op \in {"insertOwner", "reply"}}}

Promise ==
  INSTANCE Credentials WITH String <- 1..MaxRandom, None <- 0, current <- token,
                            exchanges <- Shown, pending <- OnTheirWay

\* However the statements of provisionings, registrations and refreshes interleave,
\* and wherever they fail, each takes effect in one instant: the pair that is
\* answered is the one that the row got, with strings of its own, and the row is
\* the one whose token was shown.
ImplementsCredentials == Promise!Spec

\* And so no string of one row ever opens another.
OneRowPerString == Promise!OneRowPerString
=============================================================================
