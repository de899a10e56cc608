---------------------------- MODULE MCFrameCoding ----------------------------
(* Blocks of four samples of three bits, and shorter last ones: channels    *)
(* that are cheapest on their own, as left, right or mid with the side,     *)
(* constant, of even numbers only, quiet and then loud, at the ends of the  *)
(* range.                                                                   *)
EXTENDS FrameCoding

MCBlocks ==
    {<<<<0, 0, 0, 0>>, <<-4, 3, -4, 3>>>>,
     <<<<1, 2, 3, 3>>, <<0, 1, 2, 2>>>>,
     <<<<1, 3, 1, 3>>, <<0, 2, 0, 2>>>>,
     <<<<1, 3, 1, -1>>, <<-1, 1, -1, -3>>>>,
     <<<<0, 0, 3, -4>>, <<-4, -4, -2, 0>>>>,
     <<<<3>>, <<-4>>>>,
     <<<<2, 0>>, <<3, 3>>>>}

MCCoefficients == {-2, 3}

MCHeaders ==
    {[blocksize |-> n, rate |-> r, channels |-> 2, assignment |-> a, bps |-> b,
      variable |-> FALSE, number |-> m] :
        n \in {1, 192, 1152, 256, 257, 65529}, r \in {44100, 8000, 65528, 655350, 655355},
        a \in {"independent", "mid"}, b \in {3, 24}, m \in {127, 2048, 2147483647}}

Plain == [midSide |-> FALSE, loose |-> FALSE, exhaustive |-> FALSE, lpcOrder |-> 0,
          minOrder |-> 0, maxOrder |-> 2, disabled |-> {}, frames |-> 1]

MCSettings ==
    {[Plain EXCEPT !.midSide = TRUE, !.minOrder = 1],
     [Plain EXCEPT !.midSide = TRUE, !.loose = TRUE, !.maxOrder = 1, !.frames = 3],
     [Plain EXCEPT !.disabled = {"verbatim", "constant"}, !.exhaustive = TRUE],
     [Plain EXCEPT !.disabled = {"verbatim", "fixed"}, !.lpcOrder = 1]}
=============================================================================
