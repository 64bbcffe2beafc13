------------------------------- MODULE MCUart -------------------------------
(***************************************************************************)
(* Files for the serial line: every sequence of up to four of a zero byte, *)
(* the byte that marks the end, a letter and a byte that is negative as a  *)
(* char, and the texts among them unescaped.                               *)
(***************************************************************************)
EXTENDS Uart

Files(bytes, n) == UNION {[1..k -> bytes] : k \in 0..n}

MCMessages == (Files({0, 1, 65, 255}, 4) \X {TRUE}) \cup (Files({1, 65, 255}, 3) \X {FALSE})
MCGivenBack == {0, 1, 65}
=============================================================================
