---------------------------- MODULE ApkProtocol ----------------------------
(***************************************************************************)
(* A proof of an aggregate key, from the setup to the verifier's verdict   *)
(* (bw6/src/prover.rs, verifier.rs, transcript.rs, as test_helpers.rs      *)
(* composes them).  The prover takes a step per round of the protocol; in  *)
(* between a challenge is drawn from the transcript so far.  A challenge   *)
(* is a random function of the transcript: drawn when a transcript is      *)
(* first asked, and the same whenever it is asked again, as the verifier   *)
(* does.                                                                   *)
(***************************************************************************)
EXTENDS ApkSchemes

CONSTANTS
  Statements,   \* what is to be proved: keys and bits
  BitmaskChallenges, ConstraintChallenges, EvaluationPoints,
                \* the values a challenge may have
  DrawsInARow,  \* the values that draws in a row may have, by the first of them
  NoValue

\* A bitmask is a slice of bools.
ASSUME StatementsAssumption == \A s \in Statements : s.bits \in Seq(BOOLEAN)

ASSUME PointsAssumption ==
  \* A point of the domain is as unlikely as a challenge that is zero.
  /\ \A z \in EvaluationPoints : \A n \in {4, 8, 16, 32} : Pow(z, n) # 1
  /\ 0 \notin BitmaskChallenges \cup ConstraintChallenges

VARIABLES
  step,           \* the next step, or how it ended
  scheme,
  keyset,
  max_degree,     \* of the setup
  bitmask,
  transcript,     \* the prover's
  drawn,          \* the challenges drawn so far, each with its transcript
  registers,      \* of the prover's protocol
  challenges,     \* as the prover knows them
  public_input,
  proof

protocolVars == <<step, scheme, keyset, max_degree, bitmask, transcript, drawn, registers,
                  challenges, public_input, proof>>

setting == <<scheme, keyset, max_degree, bitmask>>

-----------------------------------------------------------------------------
\* Transcripts.
append(t, label, message) == Append(t, <<label, message>>)

set_protocol_params(t, n, vk) == append(append(t, "domain", n), "vk", vk)

set_keyset_commitment(t, comm) == append(t, "keyset_commitment", comm)

append_public_input(t, input) == append(t, "public_input", input)

append_register_commitments(t, comms) == append(t, "register_commitments", comms)

\* Variant for mutation: the second round leaves no trace.
append_no_2nd_round(t, comms) == t

append_2nd_round_register_commitments(t, comms) ==
  append(t, "2nd_round_register_commitments", comms)

append_quotient_commitment(t, comm) == append(t, "quotient", comm)

append_evaluations(t, evals, q_zeta, r_zeta_omega) ==
  append(append(append(t, "register_evaluations", evals),
                "quotient_evaluation", q_zeta),
         "shifted_linearization_evaluation", r_zeta_omega)

\* A challenge leaves its label in the transcript.
asked(t, label) == append(t, label, NoValue)

Challenge(t, label, value) == [transcript |-> t, label |-> label, value |-> value]

\* The values the challenge may have; one, once it is drawn.
Answers(t, label, values) ==
  LET before == {d \in drawn : d.transcript = t /\ d.label = label}
  IN  IF before = {} THEN values ELSE {d.value : d \in before}

\* get_kzg_aggregation_challenges draws n times, each time with the label.  No
\* message comes in between and none afterwards, so all are drawn with the first
\* one; who draws fewer of them gets the same ones up to there.
aggregation_challenges(first, n) == SubSeq(DrawsInARow[first], 1, n)

AggregationChallenges == DOMAIN DrawsInARow

-----------------------------------------------------------------------------
\* Prover::new and Verifier::new: the transcript both begin with.
preprocessed_transcript(n, comm) ==
  set_keyset_commitment(set_protocol_params(<< >>, n, max_degree), comm)

ProtocolInit ==
  /\ step = "commit"
  /\ scheme \in Schemes
  /\ \E s \in Statements :
       /\ keyset = new_keyset(s.pks)
       /\ bitmask = from_bits(s.bits)
       /\ max_degree = generate_for_keyset(Len(s.pks))
  /\ transcript = << >> /\ drawn = {}
  /\ registers = NoValue /\ public_input = NoValue /\ proof = NoValue
  /\ challenges = [r |-> NoValue, phi |-> NoValue, zeta |-> NoValue]

ProtocolPanic ==
  /\ step' = "panicked"
  /\ UNCHANGED <<setting, transcript, drawn, registers, challenges, public_input, proof>>

\* What prove asserts first; the identity has no affine form.
ProveAsserts == bitmask_size(bitmask) = number_of_keys(keyset) /\ count_ones(bitmask) > 0

\* 1. The basic registers.
CommitRegisters ==
  LET apk == aggregate(keyset, to_bits(bitmask))
      input == new_public_input(scheme, apk, bitmask)
      regs == init_registers(scheme, keyset, bitmask)
      comms == polynomials_to_commit1(scheme, regs)
      start == preprocessed_transcript(keyset.domain, commit_keyset(keyset))
  IN  /\ step = "commit"
      /\ IF ~(CommitAsserts(keyset, max_degree) /\ ProveAsserts)
         THEN ProtocolPanic
         ELSE IF ~Committable(comms, max_degree)
         THEN ProtocolPanic
         ELSE /\ registers' = regs
              /\ public_input' = input
              /\ proof' = [register_commitments |-> comms]
              /\ transcript' =
                   append_register_commitments(append_public_input(start, input), comms)
              /\ step' = "aggregate_bitmask"
              /\ UNCHANGED <<setting, drawn, challenges>>

\* 2. The challenge r, and the registers that depend on it.
CommitSecondRound ==
  LET label == "bitmask_aggregation" IN
  /\ step = "aggregate_bitmask"
  /\ IF scheme = "packed" /\ ~PackingAsserts(keyset.domain)
     THEN ProtocolPanic
     ELSE \E r \in Answers(transcript, label, BitmaskChallenges) :
            LET regs == registers_of_round2(scheme, registers, bitmask, r)
                comms == polynomials_to_commit2(scheme, regs)
            IN  IF ~Committable(comms, max_degree)
                THEN ProtocolPanic
                ELSE /\ drawn' = drawn \cup {Challenge(transcript, label, r)}
                     /\ registers' = regs
                     /\ challenges' = [challenges EXCEPT !.r = r]
                     /\ proof' = [register_commitments |-> proof.register_commitments,
                                  additional_commitments |-> comms]
                     /\ transcript' =
                          append_2nd_round_register_commitments(asked(transcript, label), comms)
                     /\ step' = "quotient"
                     /\ UNCHANGED <<setting, public_input>>

\* 3. The challenge phi, and the quotient of the aggregated constraints.
CommitQuotient ==
  LET label == "constraints_aggregation" IN
  /\ step = "quotient"
  /\ \E phi \in Answers(transcript, label, ConstraintChallenges) :
       LET divided == compute_quotient_polynomial(scheme, registers, phi)
           q_poly == divided[1]
       IN  IF divided[2] # << >> \/ ~Committable(<<q_poly>>, max_degree)
           THEN ProtocolPanic
           ELSE /\ drawn' = drawn \cup {Challenge(transcript, label, phi)}
                /\ challenges' = [challenges EXCEPT !.phi = phi]
                /\ proof' = [register_commitments |-> proof.register_commitments,
                             additional_commitments |-> proof.additional_commitments,
                             q_comm |-> q_poly]
                /\ transcript' = append_quotient_commitment(asked(transcript, label), q_poly)
                /\ step' = "evaluate"
                /\ UNCHANGED <<setting, registers, public_input>>

\* 4. The evaluation point zeta, and all the evaluations.
EvaluateRegisters ==
  LET label == "evaluation_point" IN
  /\ step = "evaluate"
  /\ \E zeta \in Answers(transcript, label, EvaluationPoints) :
       LET evals == evaluate_register_polynomials(scheme, registers, zeta)
           q_zeta == Evaluate(proof.q_comm, zeta)
           r_poly == linearization_polynomial(scheme, registers, evals, challenges.phi, zeta)
           r_zeta_omega == Evaluate(r_poly, zeta * GroupGen[keyset.domain])
       IN  /\ drawn' = drawn \cup {Challenge(transcript, label, zeta)}
           /\ challenges' = [challenges EXCEPT !.zeta = zeta]
           /\ proof' = [register_commitments |-> proof.register_commitments,
                        additional_commitments |-> proof.additional_commitments,
                        q_comm |-> proof.q_comm,
                        register_evaluations |-> evals,
                        q_zeta |-> q_zeta,
                        r_zeta_omega |-> r_zeta_omega]
           /\ transcript' =
                append_evaluations(asked(transcript, label),
                                   evaluations_as_vec(scheme, evals), q_zeta, r_zeta_omega)
           /\ step' = "open"
           /\ UNCHANGED <<setting, registers, public_input>>

\* 5. The challenges nus, and the openings at zeta and at zeta omega.
OpenPolynomials ==
  LET label == "kzg_aggregation"
      polys == polynomials_to_open(scheme, registers) \o <<proof.q_comm>>
      zeta == challenges.zeta
      r_poly == linearization_polynomial(
                  scheme, registers, proof.register_evaluations, challenges.phi, zeta)
  IN
  /\ step = "open"
  /\ \E nu \in Answers(transcript, label, AggregationChallenges) :
       LET w_poly == LinearCombination(aggregation_challenges(nu, Len(polys)), polys)
       IN  /\ drawn' = drawn \cup {Challenge(transcript, label, nu)}
           /\ proof' = [register_commitments |-> proof.register_commitments,
                        additional_commitments |-> proof.additional_commitments,
                        q_comm |-> proof.q_comm,
                        register_evaluations |-> proof.register_evaluations,
                        q_zeta |-> proof.q_zeta,
                        r_zeta_omega |-> proof.r_zeta_omega,
                        w_at_zeta_proof |-> DivideByRoot(w_poly, zeta),
                        r_at_zeta_omega_proof |->
                          DivideByRoot(r_poly, (zeta * GroupGen[keyset.domain]) % P)]
           /\ step' = "verify"
           /\ UNCHANGED <<setting, transcript, registers, challenges, public_input>>

-----------------------------------------------------------------------------
\* c - y = w (X - x): the opening of commitment c at x to the value y.
OpeningVerifies(c, x, y, w) ==
  LinearCombination(<<1, P - 1, x>>, <<c, mul_by_x(w), w>>) = Trim(<<y>>)

\* restore_challenges: the transcripts at which the verifier asks for r, phi,
\* zeta and nus.
restored_r ==
  LET start == preprocessed_transcript(keyset.domain, commit_keyset(keyset))
  IN  append_register_commitments(
        append_public_input(start, public_input), proof.register_commitments)

restored_phi ==
  append_2nd_round_register_commitments(
    asked(restored_r, "bitmask_aggregation"), proof.additional_commitments)

restored_zeta ==
  append_quotient_commitment(asked(restored_phi, "constraints_aggregation"), proof.q_comm)

restored_nu ==
  append_evaluations(asked(restored_zeta, "evaluation_point"),
                     evaluations_as_vec(scheme, proof.register_evaluations),
                     proof.q_zeta, proof.r_zeta_omega)

\* The simple scheme evaluates the public bitmask itself.
evaluations_with_bitmask(zeta) ==
  LET evals == proof.register_evaluations
  IN  IF scheme # "simple" THEN evals
      ELSE [keyset |-> evals.keyset,
            bitmask |-> barycentric_eval_binary_at(
                          zeta, to_bits(public_input.bitmask), keyset.domain),
            partial_sums |-> evals.partial_sums]

\* The openings batched at zeta, and that of the linearization.
validate_evaluations(evals, phi, nu, at_zeta, zeta) ==
  LET r_comm == restore_commitment_to_linearization(
                  scheme, evals, phi, at_zeta.zeta_minus_omega_inv,
                  proof.register_commitments, proof.additional_commitments)
      commitments == commit_keyset(keyset).pks_comm \o proof.register_commitments
                     \o proof.additional_commitments \o <<proof.q_comm>>
      values == evaluations_as_vec(scheme, proof.register_evaluations) \o <<proof.q_zeta>>
      nus == aggregation_challenges(nu, POLYS_OPENED_AT_ZETA[scheme])
      w_at_zeta == Sum([k \in 1 .. Len(nus) |-> nus[k] * values[k]])
  IN  /\ Len(commitments) = Len(nus) /\ Len(values) = Len(nus)
      /\ OpeningVerifies(LinearCombination(nus, commitments), zeta, w_at_zeta,
                         proof.w_at_zeta_proof)
      /\ OpeningVerifies(r_comm, at_zeta.zeta_omega, proof.r_zeta_omega,
                         proof.r_at_zeta_omega_proof)

VerifyAsserts(at_zeta) ==
  /\ scheme = "counting" => public_input.count > 0
  /\ scheme = "packed" =>
       /\ PackingAsserts(keyset.domain)
       /\ chunk_end_fraction(at_zeta.zeta_omega, keyset.domain)
            = chunk_end_polynomial(at_zeta.zeta_omega, keyset.domain)

\* verify_simple, verify_packed and verify_counting
Verify ==
  /\ step = "verify"
  /\ \E r \in Answers(restored_r, "bitmask_aggregation", BitmaskChallenges),
        phi \in Answers(restored_phi, "constraints_aggregation", ConstraintChallenges),
        zeta \in Answers(restored_zeta, "evaluation_point", EvaluationPoints),
        nu \in Answers(restored_nu, "kzg_aggregation", AggregationChallenges) :
       LET at_zeta == lagrange_evaluations(zeta, keyset.domain)
           evals == evaluations_with_bitmask(zeta)
           w == horner_field(
                  evaluate_constraints(scheme, evals, public_input, at_zeta, r, keyset.domain), phi)
       IN  IF ~(VerifyAsserts(at_zeta) /\ validate_evaluations(evals, phi, nu, at_zeta, zeta))
           THEN ProtocolPanic
           ELSE /\ step' =
                     IF (proof.r_zeta_omega + w) % P
                          = (proof.q_zeta * at_zeta.vanishing_polynomial) % P
                     THEN "accepted" ELSE "rejected"
                /\ UNCHANGED <<setting, transcript, drawn, registers, challenges,
                               public_input, proof>>

ProtocolNext ==
  \/ CommitRegisters \/ CommitSecondRound \/ CommitQuotient
  \/ EvaluateRegisters \/ OpenPolynomials \/ Verify

ProtocolSpec == ProtocolInit /\ [][ProtocolNext]_protocolVars

-----------------------------------------------------------------------------
Bits == to_bits(bitmask)

\* Whatever bits are set, and whatever the challenges, an honest proof is
\* never rejected, and the process only panics for no bit at all, for a
\* bitmask of another length than the keyset, and, in the packed scheme, for
\* a domain that is not made of whole chunks.  The prover's constraint
\* polynomials and the verifier's values, the order of polynomials,
\* commitments and values (verifier.rs:143 to 154), and the transcripts of
\* both sides have to agree for that.
HonestProofAccepted ==
  /\ step # "rejected"
  /\ step = "panicked" =>
       \/ \A k \in 1 .. Len(Bits) : ~Bits[k]
       \/ Len(Bits) # Len(keyset.pks)
       \/ scheme = "packed" /\ keyset.domain % bits_in_bitmask_chunk # 0

\* The verifier's transcript, put together from the proof, has an answer to
\* each question, and it is the challenge the prover went on with
\* (verifier.rs:185 to 202).
ChallengesAgree ==
  step = "verify" =>
    /\ Answers(restored_r, "bitmask_aggregation", BitmaskChallenges) = {challenges.r}
    /\ Answers(restored_phi, "constraints_aggregation", ConstraintChallenges) = {challenges.phi}
    /\ Answers(restored_zeta, "evaluation_point", EvaluationPoints) = {challenges.zeta}
    /\ \E d \in drawn :
         Answers(restored_nu, "kzg_aggregation", AggregationChallenges) = {d.value}

\* Every challenge is drawn after all that it has to bind: r after the
\* statement and the first registers, phi after all of them, zeta after the
\* quotient, nus after all the values (verifier.rs:191 to 200); and it is the
\* same on both sides.
Binds(label) ==
  LET always == {"domain", "vk", "keyset_commitment", "public_input", "register_commitments"}
  IN  CASE label = "bitmask_aggregation" -> always
        [] label = "constraints_aggregation" -> always \cup {"2nd_round_register_commitments"}
        [] label = "evaluation_point" ->
             always \cup {"2nd_round_register_commitments", "quotient"}
        [] label = "kzg_aggregation" ->
             always \cup {"2nd_round_register_commitments", "quotient", "register_evaluations",
                          "quotient_evaluation", "shifted_linearization_evaluation"}

Said(t) == {t[k][1] : k \in DOMAIN t}

ChallengesBind ==
  /\ \A d \in drawn : Binds(d.label) \subseteq Said(d.transcript)
  /\ step = "accepted" =>
       {d.transcript : d \in drawn} = {restored_r, restored_phi, restored_zeta, restored_nu}
  /\ ChallengesAgree

\* The setup for a keyset is large enough for its commitment and for every
\* polynomial the prover commits to or opens; the largest is the quotient
\* of a constraint of degree 4n - 3 (setup.rs:30), whatever the challenges.
SrsSuffices ==
  /\ CommitAsserts(keyset, max_degree)
  /\ step = "quotient" =>
       \A phi \in ConstraintChallenges :
         Committable(<<compute_quotient_polynomial(scheme, registers, phi)[1]>>, max_degree)
  /\ step = "verify" =>
       Committable(proof.register_commitments \o proof.additional_commitments
                   \o <<proof.q_comm, proof.w_at_zeta_proof, proof.r_at_zeta_omega_proof>>,
                   max_degree)

\* The verifier's chunks of the limbs aggregate to the inner product of the
\* prover's bits and mask (bitmask_packing.rs:202).
ChunksAggregate ==
  step = "quotient" /\ scheme = "packed" =>
    registers.bitmask_packing.bitmask_chunks_aggregated
      = aggregated_bitmask(challenges.r, bitmask, keyset.domain)

\* The shortcuts give the values of the polynomials they stand for: the
\* barycentric formulas and the basis polynomials outside of the domain
\* (utils.rs:16 to 92), the amplification over the cosets of the domain
\* (domains.rs:117 to 150), and the chunks of a bitmask.
EvaluationsAgree ==
  /\ ChunksAggregate
  /\ step = "aggregate_bitmask" =>
    LET n == keyset.domain
        bits == bitmask_register(n, bitmask)
        counts == build_partial_counts_register(bits)
        at(evals, zeta) == Evaluate(Interpolate(evals), zeta)
    IN  /\ \A zeta \in EvaluationPoints :
             LET at_zeta == lagrange_evaluations(zeta, n) IN
             /\ barycentric_eval_binary_at(zeta, to_bits(bitmask), n) = at(bits, zeta)
             /\ barycentric_eval_at(zeta, counts, n) = at(counts, zeta)
             /\ at_zeta.l_first = at(li(0, n), zeta) /\ at_zeta.l_last = at(li(n - 1, n), zeta)
        /\ \A evals \in {bits, counts} :
             /\ amplify_x2(evals, n) = EvaluateOver(Interpolate(evals), 2 * n)
             /\ amplify_x4(evals, n) = amplify(evals, n)

\* The limbs keep the bits, with as many ones, the padding adding none
\* (bitmask.rs:33 and 62).
BitmaskFaithful ==
  /\ Len(Bits) = bitmask_size(bitmask)
  /\ from_bits(Bits) = bitmask
  /\ count_ones(bitmask) = Cardinality({k \in 1 .. Len(Bits) : Bits[k]})
=============================================================================
