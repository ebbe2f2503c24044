------------------------------ MODULE MCIsoTp ------------------------------
(* Small instances of IsoTp for TLC.  Frames carry two bytes instead of     *)
(* seven unless a configuration says otherwise.                             *)
EXTENDS IsoTp, TLC

Pad == <<"pad", 0, 0, 0>>

NoNoise == {}

\* Frames that carry no data: another identifier's, unknown and flow controls.
DatalessNoise ==
  {[pci |-> "Other"], [pci |-> "Unknown"],
   [pci |-> "FC", fs |-> "cts", bs |-> 1, stmin |-> 0],
   [pci |-> "FC", fs |-> "wait", bs |-> 0, stmin |-> 0]}

\* Frames of another identifier, and of every kind the parsers refuse.
Stray == <<"resp", 0, 0, 0>>
Strays ==
  {[pci |-> "Other"], [pci |-> "Unknown"],
   [pci |-> "SF", len |-> 0, data |-> <<Stray>>],
   [pci |-> "SF", len |-> 2, data |-> <<Stray>>],
   [pci |-> "FF", len |-> 0, data |-> <<Stray>>],
   [pci |-> "FF", len |-> 2, data |-> <<Stray>>],
   [pci |-> "FF", len |-> 3, data |-> << >>],
   [pci |-> "FF", len |-> 4, data |-> <<Stray>>],
   [pci |-> "CF", sn |-> 1, data |-> <<Stray>>],
   [pci |-> "CF", sn |-> 2, data |-> <<Stray, Stray>>],
   [pci |-> "FC", fs |-> "cts", bs |-> 1, stmin |-> 200],
   [pci |-> "FC", fs |-> "ovflw", bs |-> 0, stmin |-> 0],
   [pci |-> "FC", fs |-> "reserved", bs |-> 0, stmin |-> 0]}
=============================================================================
