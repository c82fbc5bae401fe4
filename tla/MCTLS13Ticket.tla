----------------------------- MODULE MCTLS13Ticket -----------------------------
EXTENDS TLS13Ticket

\* Extension blocks of a NewSessionTicket (type 0 is ticket_early_data_info,
\* type 1 one the client does not know): none; a limit of 2 or of 3; an
\* empty early_data_info; an unknown extension, alone and beside a limit;
\* the limit twice; a length that overruns the block.
MCExtBlocks ==
  {<<>>, <<0, 1, 2>>, <<0, 1, 3>>, <<0, 0>>, <<1, 0>>, <<1, 0, 0, 1, 2>>,
   <<0, 1, 2, 0, 1, 3>>, <<0, 2, 1>>}
=============================================================================
