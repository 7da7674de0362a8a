--------------------------- MODULE MC_Storefront ---------------------------
(***************************************************************************)
(* Small instances of the storefront's tabs for TLC.                       *)
(***************************************************************************)
EXTENDS Storefront, TLC

CONSTANTS t1, t2, j1, j2

Closed == [t \in Tab |-> "confirmed"]
Nothing == [pages |-> Closed, asked |-> 0, jobs |-> {}, kinds |-> {}, faults |-> 0]

\* The shop in one tab, and in two; the form, used in every way by two handlers; two
\* tabs with a form; a form and a tab that has returned; such a tab alone; the shop and a
\* form.
MCLoads == {
    [Nothing EXCEPT !.pages[t1] = "shop", !.asked = 3, !.faults = 2],
    [Nothing EXCEPT !.pages[t1] = "shop", !.pages[t2] = "shop", !.asked = 3],
    [Nothing EXCEPT !.pages[t1] = "shop", !.pages[t2] = "shop", !.asked = 2, !.faults = 1],
    [Nothing EXCEPT !.pages[t1] = "form", !.jobs = {j1, j2}, !.kinds = {"stripe", "cod"}, !.faults = 1],
    [Nothing EXCEPT !.pages[t1] = "form", !.jobs = {j1}, !.kinds = {"stripe", "cod", "quote"}, !.faults = 2],
    [Nothing EXCEPT !.pages[t1] = "form", !.pages[t2] = "form", !.jobs = {j1}, !.kinds = {"cod"}, !.faults = 1],
    [Nothing EXCEPT !.pages[t1] = "form", !.pages[t2] = "return", !.jobs = {j1}, !.kinds = {"cod"}, !.faults = 1],
    [Nothing EXCEPT !.pages[t1] = "return", !.faults = 2],
    [Nothing EXCEPT !.pages[t1] = "shop", !.pages[t2] = "form", !.asked = 2, !.jobs = {j1, j2}, !.kinds = {"cod"}]}
=============================================================================
