------------------------ MODULE MCProviderDispatch -------------------------
(* Small instances of the provider registry for TLC. *)
EXTENDS ProviderDispatch, TLC

\* A metered provider first and a keyless one behind it.
MCChain == <<"metered", "keyless">>

\* The metered one answers in every way; the keyless one behind it has the data or has not.
MCAnswers ==
  [p \in {"metered", "keyless"} |->
     {"ok", "no_data"} \cup IF p = "metered" THEN {"broken", "failed", "refused", "rate_limited"} ELSE {}]

\* Dispatches are interchangeable.
RegistrySymmetry == Permutations(Requests)

=============================================================================
