---------------------------- MODULE ValueProofs ----------------------------
(***************************************************************************)
(* wakuwaku-proof: predicates, And and Or, and the proofs made by checking *)
(* or by a law of boolean_algebra.rs, which rechecks nothing.              *)
(*                                                                         *)
(* A proposition is <<"atom", a>>, <<"and", P, Q>> or <<"or", P, Q>>.      *)
(* Evidence of an atom is what its check returned, for the subject it saw. *)
(* Evidence of a disjunction says what is known of each side: Or::Left has *)
(* a left and no right, Or::Both has both.                                 *)
(***************************************************************************)
EXTENDS Naturals, Sequences

CONSTANTS
  Atoms,     \* predicates that are not combined of others
  Subjects,
  MaxDepth,  \* bound: nesting of propositions
  MaxLaws    \* bound: steps from a checked proof

ASSUME ProofAssumption == MaxDepth \in Nat \ {0} /\ MaxLaws \in Nat

VARIABLES
  world,   \* what the check of an atom says of a subject
  proof,   \* a Proven, or NoProof
  other,   \* another one, of an atom
  answer,  \* of a check that failed: its proposition, subject and error
  steps    \* laws applied

proofVars == <<world, proof, other, answer, steps>>

NoProof == <<>>

Atomic(a) == <<"atom", a>>
And(P, Q) == <<"and", P, Q>>
Or(P, Q) == <<"or", P, Q>>

Holding(a, s) == <<"held", a, s>>
BothOf(e, f) == <<"and", e, f>>
\* What is known of the sides, each a set with one evidence or none.
Sides(ls, rs) == <<"or", ls, rs>>
Left(e) == Sides({e}, {})
SomeSide(ls, rs) == IF ls \cup rs = {} THEN {} ELSE {Sides(ls, rs)}
The(es) == CHOOSE e \in es : TRUE
FirstOf(es, fs) == IF es # {} THEN es ELSE fs

Pairs(es, fs) == {BothOf(e, f) : e \in es, f \in fs}
Firsts(es) == {e[2] : e \in es}
Seconds(es) == {e[3] : e \in es}

\* The propositions in which at most n are nested in one another.
Propositions[n \in 0 .. MaxDepth] ==
  IF n = 0 THEN {}
  ELSE {Atomic(a) : a \in Atoms}
       \cup {And(P, Q) : P, Q \in Propositions[n - 1]}
       \cup {Or(P, Q) : P, Q \in Propositions[n - 1]}
Proposition == Propositions[MaxDepth]
Operand == Propositions[MaxDepth - 1]

-----------------------------------------------------------------------------
\* Predicate::check.  The operands do not see each other, so that both check
\* orders give the same result: of And the first failure, of Or the failure of
\* the first operand if both fail.
Found(e) == [evidence |-> {e}, error |-> "no"]
Failed(error) == [evidence |-> {}, error |-> error]

CheckAtom(a, says, s) ==
  IF says[a] = "holds" THEN Found(Holding(a, s))
  ELSE Failed(IF says[a] = "denied" THEN "Deny" ELSE "IoError")
CheckAnd(a, b) ==
  IF a.error # "no" THEN a ELSE IF b.error # "no" THEN b
  ELSE Found(BothOf(The(a.evidence), The(b.evidence)))
CheckOr(a, b) ==
  IF a.error # "no" /\ b.error # "no" THEN a
  ELSE Found(Sides(a.evidence, b.evidence))

Results(says, s) ==
  LET result[P \in Proposition] ==
        IF P[1] = "atom" THEN CheckAtom(P[2], says, s)
        ELSE IF P[1] = "and" THEN CheckAnd(result[P[2]], result[P[3]])
        ELSE CheckOr(result[P[2]], result[P[3]])
  IN  result

Check(P, s) == Results(world[s], s)[P]

Proven(P, s, e) == [subject |-> s, of |-> P, evidence |-> e]

\* prove, and PureVerifier::prove for an atom that needs no I/O.
Prove(P, s) ==
  /\ proof = NoProof /\ answer = NoProof
  /\ LET result == Check(P, s)
     IN /\ answer' = IF result.error = "no" THEN NoProof ELSE <<P, s, result.error>>
        /\ proof' = IF result.error = "no" THEN Proven(P, s, The(result.evidence)) ELSE NoProof
  /\ UNCHANGED <<world, other, steps>>

ProveOther(a, s) ==
  /\ proof # NoProof /\ proof.of \in Operand /\ other = NoProof /\ steps = 0
  /\ world[s][a] = "holds"
  /\ other' = Proven(Atomic(a), s, Holding(a, s))
  /\ UNCHANGED <<world, proof, answer, steps>>

-----------------------------------------------------------------------------
\* The laws: what follows from evidence e of P, as pairs of a proposition and
\* its evidence.  B is any proposition where the law leaves it to the caller.

Commute(P, e) ==
  IF P[1] = "and" THEN {<<And(P[3], P[2]), BothOf(e[3], e[2])>>}
  ELSE IF P[1] = "or" THEN {<<Or(P[3], P[2]), Sides(e[3], e[2])>>} ELSE {}

AssociateAnd(P, e) ==
  IF P[1] # "and" THEN {} ELSE
  (IF P[2][1] # "and" THEN {} ELSE
     {<<And(P[2][2], And(P[2][3], P[3])), BothOf(e[2][2], BothOf(e[2][3], e[3]))>>})
  \cup
  (IF P[3][1] # "and" THEN {} ELSE
     {<<And(And(P[2], P[3][2]), P[3][3]), BothOf(BothOf(e[2], e[3][2]), e[3][3])>>})

\* The known sides of the inner disjunction, none if it is not known itself.
InnerLeft(es) == UNION Firsts(es)
InnerRight(es) == UNION Seconds(es)

AssociateOr(P, e) ==
  IF P[1] # "or" THEN {} ELSE
  (IF P[2][1] # "or" THEN {} ELSE
     {<<Or(P[2][2], Or(P[2][3], P[3])),
        Sides(InnerLeft(e[2]), SomeSide(InnerRight(e[2]), e[3]))>>})
  \cup
  (IF P[3][1] # "or" THEN {} ELSE
     {<<Or(Or(P[2], P[3][2]), P[3][3]),
        Sides(SomeSide(e[2], InnerLeft(e[3])), InnerRight(e[3]))>>})

Idempotence(P, e) ==
  {<<And(P, P), BothOf(e, e)>>, <<Or(P, P), Left(e)>>}
  \cup (IF P[1] = "and" /\ P[2] = P[3] THEN {<<P[2], e[2]>>} ELSE {})
  \cup (IF P[1] = "or" /\ P[2] = P[3] THEN {<<P[2], The(FirstOf(e[2], e[3]))>>} ELSE {})

Absorb(P, e, B) ==
  {<<And(P, Or(P, B)), BothOf(e, Left(e))>>, <<Or(P, And(P, B)), Left(e)>>}
  \cup (IF P[1] = "and" /\ P[3][1] = "or" /\ P[3][2] = P[2] THEN {<<P[2], e[2]>>} ELSE {})
  \cup (IF P[1] = "or" /\ P[3][1] = "and" /\ P[3][2] = P[2]
        THEN {<<P[2], The(FirstOf(e[2], Firsts(e[3])))>>} ELSE {})

\* A /\ (B \/ C) keeps A /\ B only, when both B and C are known.
DistributeAnd(P, e) ==
  IF P[1] # "and" \/ P[3][1] # "or" THEN {} ELSE
    {<<Or(And(P[2], P[3][2]), And(P[2], P[3][3])),
       IF e[3][2] # {} THEN Sides(Pairs({e[2]}, e[3][2]), {})
       ELSE Sides({}, Pairs({e[2]}, e[3][3]))>>}

CollectAnd(P, e) ==
  IF P[1] # "or" \/ P[2][1] # "and" \/ P[3][1] # "and" THEN {}
  ELSE IF P[2][2] # P[3][2] THEN {}
  ELSE {<<And(P[2][2], Or(P[2][3], P[3][3])),
          BothOf(The(FirstOf(Firsts(e[2]), Firsts(e[3]))), Sides(Seconds(e[2]), Seconds(e[3])))>>}

DistributeOr(P, e) ==
  IF P[1] # "or" \/ P[3][1] # "and" THEN {} ELSE
    {<<And(Or(P[2], P[3][2]), Or(P[2], P[3][3])),
       BothOf(Sides(e[2], Firsts(e[3])), Sides(e[2], Seconds(e[3])))>>}

CollectOr(P, e) ==
  IF P[1] # "and" \/ P[2][1] # "or" \/ P[3][1] # "or" THEN {}
  ELSE IF P[2][2] # P[3][2] THEN {}
  ELSE {<<Or(P[2][2], And(P[2][3], P[3][3])),
          Sides(FirstOf(e[2][2], e[3][2]), Pairs(e[2][3], e[3][3]))>>}

\* into_a and into_b, from_a and from_b.
Weaken(P, e, B) ==
  {<<Or(P, B), Sides({e}, {})>>, <<Or(B, P), Sides({}, {e})>>}
  \cup (IF P[1] = "and" THEN {<<P[2], e[2]>>, <<P[3], e[3]>>} ELSE {})

Derivable(P, e) ==
  Commute(P, e) \cup AssociateAnd(P, e) \cup AssociateOr(P, e) \cup Idempotence(P, e)
  \cup DistributeAnd(P, e) \cup CollectAnd(P, e) \cup DistributeOr(P, e) \cup CollectOr(P, e)
  \cup UNION {Absorb(P, e, B) \cup Weaken(P, e, B) : B \in Operand}

Derive ==
  /\ proof # NoProof /\ steps < MaxLaws
  /\ \E derived \in Derivable(proof.of, proof.evidence) :
       /\ derived[1] \in Proposition
       /\ proof' = Proven(derived[1], proof.subject, derived[2])
  /\ steps' = steps + 1
  /\ UNCHANGED <<world, other, answer>>

FromAnyBoth ==  \* Mutant: the subjects are not compared.
  /\ proof # NoProof /\ other # NoProof
  /\ And(proof.of, other.of) \in Proposition
  /\ proof' = Proven(And(proof.of, other.of), proof.subject,
                     BothOf(proof.evidence, other.evidence))
  /\ other' = NoProof
  /\ UNCHANGED <<world, answer, steps>>

\* from_both: both proofs are handed back if the subjects differ.  Eq of the
\* subjects is taken to tell apart whatever the predicates do.
FromBoth ==
  /\ proof # NoProof /\ other # NoProof
  /\ proof.subject = other.subject /\ And(proof.of, other.of) \in Proposition
  /\ proof' = Proven(And(proof.of, other.of), proof.subject,
                     BothOf(proof.evidence, other.evidence))
  /\ other' = NoProof
  /\ UNCHANGED <<world, answer, steps>>

-----------------------------------------------------------------------------
Verdicts == {"holds", "denied", "unknown"}

\* Bound: the subjects differ as far as they can.  One may be anything, and of
\* any other exactly that holds which does not hold of it.
ProofInit ==
  /\ \E first \in Subjects, says \in [Atoms -> Verdicts] :
       world = [s \in Subjects |-> IF s = first THEN says ELSE
                 [a \in Atoms |-> IF says[a] = "holds" THEN "denied" ELSE "holds"]]
  /\ proof = NoProof /\ other = NoProof
  /\ answer = NoProof
  /\ steps = 0

ProofNext ==
  \/ \E P \in Proposition, s \in Subjects : Prove(P, s)
  \/ \E a \in Atoms, s \in Subjects : ProveOther(a, s)
  \/ Derive \/ FromBoth

ProofSpec == ProofInit /\ [][ProofNext]_proofVars

\* All that shows a proposition of s, where says is what its atoms say: every
\* atom that it rests on was found to hold, of s itself.
AtMostOne(es) == {{}} \cup {{e} : e \in es}
ShowAtom(a, says, s) == IF says[a] = "holds" THEN {Holding(a, s)} ELSE {}
ShowOr(es, fs) ==
  {Sides(ls, rs) : ls \in AtMostOne(es), rs \in AtMostOne(fs)} \ {Sides({}, {})}

Evidence(says, s) ==
  LET shown[P \in Proposition] ==
        IF P[1] = "atom" THEN ShowAtom(P[2], says, s)
        ELSE IF P[1] = "and" THEN Pairs(shown[P[2]], shown[P[3]])
        ELSE ShowOr(shown[P[2]], shown[P[3]])
  IN  shown

Supports(e, P, s) == e \in Evidence(world[s], s)[P]

\* P is true of s by what the atoms say.
Truths(says) ==
  LET true[P \in Proposition] ==
        IF P[1] = "atom" THEN says[P[2]] = "holds"
        ELSE IF P[1] = "and" THEN true[P[2]] /\ true[P[3]]
        ELSE true[P[2]] \/ true[P[3]]
  IN  true

IsTrue(P, s) == Truths(world[s])[P]

\* lib.rs:171-182 and 502-507: a proof, checked, combined or derived by any
\* sequence of laws, carries evidence of its own proposition, of all of it, and
\* found of its own subject; and a check fails only for what is not true, so
\* that an operand's error is never reported for a disjunction that holds.
EvidenceSupports ==
  /\ proof # NoProof => Supports(proof.evidence, proof.of, proof.subject)
  /\ answer # NoProof => ~ IsTrue(answer[1], answer[2])
=============================================================================
