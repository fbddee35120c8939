----------------------------- MODULE MCAccounts -----------------------------
(* Two wallets, requests that race for them, and a clock that outlives     *)
(* every nonce and every session.                                          *)
EXTENDS Accounts

MCWallets == {"w1", "w2"}
MCSignIns == {"t1", "t2"}
MCCalls   == {"c1", "c2"}
=============================================================================
