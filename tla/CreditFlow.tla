------------------------------ MODULE CreditFlow ------------------------------
(***************************************************************************)
(* What the credit bridge promises about the parcels of credits that one   *)
(* account sends: a parcel leaves the home chain when the account holds    *)
(* it, arrives away at most once and only while it is gone from home, and  *)
(* does not come home again once it has arrived.  Two things are outside   *)
(* the promise and visible in it: the home chain may take back a block     *)
(* that was final, after which the account may be overdrawn, and credits   *)
(* may be made away without any parcel.                                    *)
(***************************************************************************)
EXTENDS Integers

CONSTANTS Parcels, Size

VARIABLES
  home,      \* credits of the account at home
  gone,      \* parcels that have left
  come,      \* parcels that have arrived
  made,      \* mints away that belong to no parcel
  shaken     \* a final block has been taken back

flowVars == <<home, gone, come, made, shaken>>

Init == home = 0 /\ gone = {} /\ come = {} /\ made = 0 /\ shaken = FALSE

Work == home' \in Int /\ UNCHANGED <<gone, come, made, shaken>>
Depart(p) ==
  /\ p \notin gone /\ (home >= Size[p] \/ shaken)
  /\ gone' = gone \cup {p} /\ home' = home - Size[p] /\ UNCHANGED <<come, made, shaken>>
Arrive(p) ==
  /\ p \in gone \ come
  /\ come' = come \cup {p} /\ UNCHANGED <<home, gone, made, shaken>>
Make == made' = made + 1 /\ UNCHANGED <<home, gone, come, shaken>>

TakeBack == shaken' = TRUE /\ home' \in Int /\ UNCHANGED <<gone, come, made>>
Return(p) ==
  /\ p \in gone \ come
  /\ gone' = gone \ {p} /\ home' = home + Size[p] /\ shaken' = TRUE /\ UNCHANGED <<come, made>>

Next == Work \/ Make \/ TakeBack \/ \E p \in Parcels : Depart(p) \/ Arrive(p) \/ Return(p)

Spec == Init /\ [][Next]_flowVars
=============================================================================
