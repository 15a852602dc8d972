------------------------------ MODULE MCShares ------------------------------
(* A share for one view with a passphrase that expires, and one without    *)
(* limit or passphrase that does not within the bound of the clock.        *)
EXTENDS Shares

CONSTANTS limited, open

MCExpiresAt == [s \in Share |-> IF s = limited THEN 1 ELSE 2]
MCMaxViews == [s \in Share |-> IF s = limited THEN 1 ELSE 0]
=============================================================================
