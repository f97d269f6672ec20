----------------------------- MODULE BlobPointer -----------------------------
(***************************************************************************)
(* What the readers of a blob are promised while its bytes are moved       *)
(* between regions, locked and re-keyed: its row always points at a copy   *)
(* its envelope opens, and moves in one step, to a copy that is there      *)
(* already. A copy goes only when the row has left it for good, a lock     *)
(* switches to a retained copy, and a blob in the WORM bucket is moved no  *)
(* more. BlobRelocation.tla implements this.                               *)
(***************************************************************************)
EXTENDS Naturals

VARIABLES
  row,       \* the blob's row: tier, region and key of its bytes, dek and ver
  copies,    \* <<tier, region, key>> of the copies in S3
  retained   \* those under object-lock retention

pvars == <<row, copies, retained>>

Points(r) == <<r.tier, r.region, r.key>>
Opens(r)  == Points(r) \in copies /\ r.dek = r.key

PInit == Opens(row)

Copy ==
  row' = row /\ Points(row) \in copies' /\ retained \subseteq retained'

\* A newer copy, under the key of its region.
Migrate == row.tier = "hot" /\ row'.key > row.key /\ row'.ver = 0

Lock == row' = [row EXCEPT !.tier = "worm"] /\ Points(row') \in retained

Rewrap ==
  /\ row' = [row EXCEPT !.ver = row'.ver]
  /\ row.ver # 0 /\ row'.ver > row.ver

Switch ==
  (Migrate \/ Lock \/ Rewrap) /\ Opens(row') /\ UNCHANGED <<copies, retained>>

PSpec == PInit /\ [][Copy \/ Switch]_pvars
=============================================================================
