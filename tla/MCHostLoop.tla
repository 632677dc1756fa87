---------------------------- MODULE MCHostLoop ----------------------------
(* One page and one descriptor: what the commands do does not depend on where *)
(* requests lie.                                                              *)
EXTENDS HostLoop

OnePage == {1}
DescriptorOn1 == {<<1>>}
BufferOn1 == {<<1>>}
NoneOrOne == {None, 1}
=============================================================================
