-------------------------- MODULE MCCircuitBuilder --------------------------
(* Sessions of CircuitBuilder for TLC: one on copies, ranges and names, one *)
(* on decomposition, one on RAM and one on ROM.                             *)
EXTENDS CircuitBuilder

Session(ops, values, fixes, calls, rom, ram) ==
    [ops |-> ops, values |-> values, fixes |-> fixes, calls |-> calls, rom |-> rom, ram |-> ram]

MCSessions == {
    Session({"equal", "range", "fix"}, <<1, 1, 4>>, {1}, 4, 0, 0),
    Session({"equal", "name", "rename"}, <<1, 1, 1>>, {}, 4, 0, 0),
    Session({"equal", "range", "decompose"}, <<1, 4>>, {}, 3, 0, 0),
    Session({"equal", "init_ram", "write_ram", "read_ram"}, <<0, 1>>, {}, 4, 0, 2),
    Session({"equal", "set_rom", "set_rom_pair", "read_rom", "read_rom_pair"}, <<0, 1>>, {}, 3, 2, 0)}
=============================================================================
