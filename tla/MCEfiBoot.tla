------------------------------ MODULE MCEfiBoot ------------------------------
(* EfiBoot with pages of four bytes and four memory maps: a usable region  *)
(* at address 0; one behind a region of a single page; a first region that *)
(* is too small for the back buffer; and no region of two pages.           *)
EXTENDS EfiBoot

MCMap(types, sizes) ==
  [i \in DOMAIN sizes |->
     [conventional |-> types[i],
      start |-> IF i = 1 THEN 0 ELSE IF i = 2 THEN 4 * sizes[1] ELSE 4 * (sizes[1] + sizes[2]),
      pages |-> sizes[i]]]

MCMaps == {MCMap(<<TRUE, FALSE>>, <<4, 1>>),
           MCMap(<<TRUE, FALSE, TRUE>>, <<1, 2, 6>>),
           MCMap(<<FALSE, TRUE, TRUE>>, <<1, 2, 7>>),
           MCMap(<<FALSE, TRUE>>, <<1, 1>>)}
=============================================================================
