------------------------------ MODULE MCListing ------------------------------
(***************************************************************************)
(* A small instance of Listing.  Limits are 1 by default and 2 at most     *)
(* instead of 10 and 100, ints have five bits: page 9 with two rows a page *)
(* starts beyond the largest int.                                          *)
(***************************************************************************)
EXTENDS Listing, TLC

Ask(table, page, limit, order) ==
    [table |-> table, page |-> page, limit |-> limit, order |-> order,
     valid |-> TRUE, foreign |-> FALSE]

MCQueries ==
    {Ask("tasks", 1, 2, "latest"), Ask("tasks", 0, 3, "earliest"), Ask("tasks", -1, 0, "lastUpdated"),
     Ask("tasks", 8, 2, "latest"), Ask("teams", 9, 2, "earliest"),
     Ask("users", 1, 1, "latest"), Ask("teams", 1, 1, "earliest"),
     [Ask("tasks", 1, 1, "latest") EXCEPT !.foreign = TRUE],
     [Ask("users", 1, 1, "latest") EXCEPT !.foreign = TRUE],
     [Ask("teams", 1, 1, "latest") EXCEPT !.valid = FALSE]}

RowSymmetry == Permutations(Rows)
=============================================================================
