----------------------------- MODULE MCListings -----------------------------
(***************************************************************************)
(* One list of each shape: rows sorted by a value in both directions, rows *)
(* listed on several dates, three parts, one entry for several rows, and a *)
(* position shifted by one.                                                *)
(***************************************************************************)
EXTENDS Listings

MCLists == {"operations by value", "latest operations", "pending dates", "resolutions", "titles",
            "envelope categories", "users"}
MCInitialRows == {t \in UNION {[S -> Row] : S \in {Ids, Ids \ {2}}} : \A i \in DOMAIN t : t[i].shown}
=============================================================================
