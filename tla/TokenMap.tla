------------------------------ MODULE TokenMap ------------------------------
(***************************************************************************)
(* What the vault promises: a value, once it has a token, keeps it for     *)
(* ever, and no token ever stands for two values.                          *)
(***************************************************************************)
VARIABLE tokenOf   \* the tokens minted so far, by value

Init == tokenOf = <<>>

Mint(v, t) ==
    /\ v \notin DOMAIN tokenOf
    /\ \A w \in DOMAIN tokenOf : tokenOf[w] # t
    /\ tokenOf' = [w \in DOMAIN tokenOf \cup {v} |-> IF w = v THEN t ELSE tokenOf[w]]

\* A new value gets a token no other value has.
Next == \E v \in DOMAIN tokenOf' \ DOMAIN tokenOf : Mint(v, tokenOf'[v])

Spec == Init /\ [][Next]_tokenOf
=============================================================================
