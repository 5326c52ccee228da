------------------------------ MODULE MCBrowsing ------------------------------
(* Values for the model checker: a minor and those around her age, days on *)
(* both sides of an anniversary and of a 29th of February, pages of one    *)
(* and of two.                                                             *)
EXTENDS Browsing, TLC

D(y, m, d) == [year |-> y, month |-> m, day |-> d]

(* 18 on two consecutive days of a leap year but for the 29th between them.*)
MCBirths == {D(2006, 2, 28), D(2006, 3, 1), null}

MCDocument ==
  {[user |-> u, text |-> {}, city |-> null, country |-> null, gender |-> null, birthDate |-> b,
    interests |-> {}, isActive |-> TRUE] : u \in User, b \in MCBirths}

MCFilters(min, max, size) ==
  [gender |-> null, city |-> null, country |-> null, interests |-> {}, minAge |-> min,
   maxAge |-> max, from |-> null, size |-> size]

MCRequest ==
  {[words |-> {}, filters |-> f] :
     f \in {MCFilters(18, null, 1), MCFilters(null, 18, 2), MCFilters(18, 19, null),
            MCFilters(0, null, 2)}}

MCDay == {D(2024, 2, 28), D(2024, 2, 29), D(2025, 2, 28)}

MCSymmetry == Permutations(User)
=============================================================================
