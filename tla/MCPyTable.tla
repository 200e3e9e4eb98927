------------------------------ MODULE MCPyTable ------------------------------
EXTENDS PyTable

MCKey == 1..4
MCHandle == 1..8
MCCommands ==
  {{"get_first", "get_next_n", "get_by_handle", "usage_get"}, {"get_first"}, {}}
=============================================================================
