---------------------------- MODULE MCTrapMachine ----------------------------
(* Instances of TrapMachine for TLC. *)
EXTENDS TrapMachine

\* Pages by number.  A descriptor on page 1, alone or straddling into page 2;
\* buffers on page 2, on both pages, and on pages 2-3.
BufferPage == {2}
TwoPages == {1, 2}
ThreePages == {1, 2, 3}
DescriptorOn1 == {<<1>>}
DescriptorsMixed == {<<1>>, <<1, 2>>}
BuffersAcross == {<<2>>, <<1, 2>>}
BufferOn2 == {<<2>>}
BufferOn23 == {<<2, 3>>}
=============================================================================
