---------------------------- MODULE MC_TxEngine -----------------------------
(* Two accounts, one of them of genesis, whose balance is within one transfer of the limit. *)
EXTENDS TxEngine

MCAddresses == {"a", "b"}
MCGenesisAccounts == <<"a">>

T(f, t, m, n) == [from |-> f, to |-> t, amount |-> m, nonce |-> n, signed |-> TRUE]

MCTxs ==
  {T("a", "b", 1, 0), T("a", "b", 2, 1), T("b", "a", 1, 0), T("a", "a", 1, 0),
   [T("a", "b", 1, 0) EXCEPT !.signed = FALSE]}
=============================================================================
