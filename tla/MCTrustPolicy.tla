---------------------------- MODULE MCTrustPolicy ----------------------------
(* Instances of TrustPolicy for TLC: a policy, one that replaces its signer, *)
(* one under another policyId, and one that lists a key twice.               *)
EXTENDS TrustPolicy, TLC

MCIdentity == {"jenkins"}

Text(policyId, signers, builders) ==
  [schema |-> "v1.1", policyId |-> policyId, signers |-> signers, firstKey |-> "k2",
   builders |-> builders, sources |-> <<"repo">>, buildTypes |-> {"build"}, level |-> 3,
   maxAge |-> 1, maxSkew |-> 0, vexIssuers |-> [i \in {"vex"} |-> "k9"],
   rules |-> [op \in {"assert_environment"} |-> [roles |-> {"security"}, hours |-> 24]],
   criticalExceptions |-> TRUE, independentApprover |-> TRUE]

MCDocument ==
  "both"    :> Text("tpsr", "jenkins" :> "k2", <<"jenkins">>) @@
  "reduced" :> Text("tpsr", "vendor" :> "k1", <<"jenkins", "vendor">>) @@
  "renamed" :> Text("other", "jenkins" :> "k2", <<"jenkins">>) @@
  "twice"   :> Text("tpsr", "vendor" :> "k1" @@ "jenkins" :> "k1", <<"jenkins">>)

MCSigned ==
  "now"    :> [key |-> "k2", signer |-> "none", signedAt |-> 0, genuine |-> TRUE] @@
  "before" :> [key |-> "k2", signer |-> "jenkins", signedAt |-> 1, genuine |-> TRUE]

Claims(finished) ==
  [envelope |-> "dsse", predicate |-> "v1", started |-> 1, finished |-> finished,
   publicKey |-> "none", key |-> "k2", builder |-> "jenkins", buildType |-> "build",
   source |-> "repo", subject |-> "artifact", expected |-> "artifact"]

\* Operators edit the file in this order, leaving some out; it never goes back.
Edition == <<"both", "twice", "reduced", "renamed">>

MCNext ==
  \/ \E a \in Admin : Administers(a)
  \/ \E c \in Client : Uses(c)
  \/ \E i, j \in DOMAIN Edition : i < j /\ file = Edition[i] /\ EditFile(Edition[j])
  \/ Restart \/ Tick

MCInit == Init /\ file = Edition[1]

MCSpec == MCInit /\ [][MCNext]_vars

MCSymmetry == Permutations(Admin)

MCAttested == "built" :> Claims(1)
=============================================================================
