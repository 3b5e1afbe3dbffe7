----------------------------- MODULE MCEnetLink -----------------------------
EXTENDS EnetLink

\* One connection, nothing sent, nobody leaves
Basic == [slots |-> {1}, opens |-> 1, accepts |-> 1, down |-> 0, up |-> 0,
          ahead |-> 9, sizes |-> {1}, controls |-> 1, attempts |-> 2,
          packets |-> 1, life |-> 0, calls |-> {}]

\* In turn: a farewell behind data, with several datagrams to a call; pings
\* and the slow-peer kick; messages both ways and a client that leaves; a
\* slot reused after a farewell, and after an abrupt one; fragments; two
\* slots; and enough messages for the sequence numbers to wrap
MCPlans ==
    { [Basic EXCEPT !.down = 1, !.packets = 2, !.calls = {"later"}],
      [Basic EXCEPT !.controls = 2, !.calls = {"kick"}],
      [Basic EXCEPT !.down = 1, !.up = 1, !.calls = {"quit"}],
      [Basic EXCEPT !.opens = 2, !.accepts = 2, !.down = 1, !.calls = {"later"}],
      [Basic EXCEPT !.opens = 2, !.accepts = 2, !.down = 1, !.calls = {"now"}],
      [Basic EXCEPT !.down = 2, !.sizes = {2}, !.calls = {"later"}],
      [Basic EXCEPT !.slots = {1, 2}, !.opens = 2, !.accepts = 2, !.down = 1,
                    !.attempts = 1, !.calls = {"quit"}],
      [Basic EXCEPT !.down = 14, !.ahead = 2, !.life = 7] }
=============================================================================
