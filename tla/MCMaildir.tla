----------------------------- MODULE MCMaildir -----------------------------
(* Small instances of Maildir. *)
EXTENDS Maildir, TLC

CONSTANTS m1, m2

(* One message that was read and trashed elsewhere, one not yet seen. *)
Folder == { [msg |-> m1, dir |-> "cur", flags |-> {"S", "T"}],
            [msg |-> m2, dir |-> "new", flags |-> {}] }

(* The trashed one only; the other is delivered at some point. *)
HalfFolder == { [msg |-> m1, dir |-> "cur", flags |-> {"S", "T"}] }

Symmetry == Permutations(Clients)
=============================================================================
