-------------------------------- MODULE MCSd --------------------------------
EXTENDS SdBus

(* Bytes that look like a command, a start token, the end of a write.      *)
SomeData == {<<81, 254>>, <<253, 0>>}
FirstFile == [a \in 0 .. FileSize - 1 |-> 10 + a]
FourBytes == <<0, 54, 254, 81>>
=============================================================================
