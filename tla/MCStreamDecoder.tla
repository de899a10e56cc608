---------------------------- MODULE MCStreamDecoder ----------------------------
(* Files of a few frames of four samples, with frames long enough that the  *)
(* guesses of a seek, with the constants of the code, miss them.            *)
EXTENDS StreamDecoder, SequencesExt

Magic == [kind |-> "magic", at |-> 0, size |-> 4]

Information(total, frame, md5) ==
    [kind |-> "info", at |-> 4, size |-> 38, last |-> TRUE,
     info |-> [total |-> total, minBlock |-> 4, maxBlock |-> 4, minFrame |-> frame,
               maxFrame |-> frame, width |-> 16, md5 |-> md5]]

TableOf(points) ==
    [kind |-> "table", at |-> 42, size |-> 40, last |-> TRUE, points |-> points]

Point(sample, offset) == [sample |-> sample, offset |-> offset, frameSamples |-> 4]

(* Frames of these sizes from an offset on; the last one has "rest" samples. *)
Framed(offset, sizes, rest, damages) ==
    {[kind |-> "frame", size |-> sizes[i],
      at |-> offset + FoldLeft(LAMBDA n, x : n + x, 0, SubSeq(sizes, 1, i - 1)),
      counts |-> "frames", number |-> i - 1, start |-> 4 * (i - 1),
      samples |-> IF i = Len(sizes) THEN rest ELSE 4, width |-> 16,
      damage |-> damages[i],
      reads |-> IF damages[i] \in {"none", "crc"} THEN sizes[i] ELSE sizes[i] - 10] :
        i \in DOMAIN sizes}

Chance(at, damage, number, reads) ==
    [kind |-> "fake", at |-> at, size |-> 2, counts |-> "frames", number |-> number,
     start |-> 0, samples |-> 4, width |-> 16, damage |-> damage, reads |-> reads]

Whole(n) == [i \in 1..n |-> "none"]
Long == <<100, 30, 200, 20, 150, 90>>

Plain ==
    [client |-> "file", length |-> 42 + 590, blocksize |-> 4, signal |-> 22,
     items |-> {Magic, Information(22, 0, "right")}
               \cup Framed(42, Long, 2, Whole(6)) \cup {Chance(200, "header", 0, 6)}]

Tabled ==
    [client |-> "file", length |-> 82 + 590, blocksize |-> 4, signal |-> 22,
     items |-> {Magic, [Information(22, 60, "right") EXCEPT !.last = FALSE],
                TableOf(<<Point(4, 100), Point(16, 350), Point(99, 0)>>)}
               \cup Framed(82, Long, 2, Whole(6))]

(* Its table lies: one point is too far on and one is before its place, so *)
(* that the bounds they give miss what lies between.                       *)
Lying ==
    [Tabled EXCEPT !.items =
        {x \in @ : x.kind # "table"}
            \cup {TableOf(<<Point(8, 480), Point(12, 30), Point(20, 500)>>)}]

Damaged ==
    [client |-> "file", length |-> 42 + 400, blocksize |-> 4, signal |-> 20,
     items |-> {Magic, Information(20, 0, "right")}
               \cup Framed(42, <<100, 60, 100, 80, 60>>, 4,
                           <<"none", "lost", "crc", "none", "residual">>)
               \cup {Chance(160, "future", 0, 6)}]

Bare ==
    [client |-> "stream", length |-> 7 + 190, blocksize |-> 4, signal |-> 11,
     items |-> {[kind |-> "tag", at |-> 0, size |-> 7]}
               \cup Framed(8, <<100, 45, 44>>, 3, Whole(3))]

(* Numbered by samples, blocks of any size, cut off in the last frame.      *)
Varied ==
    [client |-> "pipe", length |-> 52 + 150, blocksize |-> 4, signal |-> 12,
     items |-> {Magic, [kind |-> "block", at |-> 4, size |-> 10, last |-> FALSE],
                [Information(0, 0, "none") EXCEPT !.at = 14, !.info.maxBlock = 6]}
               \cup {[x EXCEPT !.counts = "samples", !.number = x.start] :
                        x \in Framed(52, <<60, 60, 60>>, 4, Whole(3))}]

(* The same with frames that say they count frames, as one old encoder did. *)
Concession == [Varied EXCEPT !.items =
    {IF x.kind = "frame" THEN [x EXCEPT !.counts = "frames"] ELSE x : x \in @}]

(* Noise that looks like frames of a later format, more than a seek bears.  *)
Noisy ==
    [Plain EXCEPT !.items = @ \cup {Chance(p, "future", 1, 6) : p \in {190, 210, 240, 260}}
                               \cup {Chance(340, "crc", 2, 40)}]

(* As an encoder writes it that cannot go back to the header.               *)
Unsized ==
    [client |-> "file", length |-> 42 + 430, blocksize |-> 4, signal |-> 22,
     items |-> {Magic, Information(0, 0, "none")}
               \cup Framed(42, <<100, 30, 20, 20, 100, 160>>, 2, Whole(6))]

MCFiles == {Plain, Tabled, Lying, Damaged, Bare, Varied, Concession, Noisy, Unsized}
MCUnsized == {Unsized}

(* Their damage is kept to itself: what DamageIsLocal asks of a file holds  *)
(* of all of them.                                                          *)
ASSUME FilesUndisturbed == \A f \in MCFiles : Undisturbed(f)
=============================================================================
