-------------------------- MODULE MCHomeAssistant --------------------------
(* A small house: a lamp in the kitchen, an air conditioner in the office,  *)
(* and a name that both answer to.                                          *)
EXTENDS HomeAssistantConnection

MCDevices == {"lamp", "climate"}
MCInstalled == {"lamp"}
MCNames == {"the lamp", "the climate", "all"}
MCCalled == [n \in MCNames |-> CASE n = "the lamp" -> {"lamp"}
                                 [] n = "the climate" -> {"climate"}
                                 [] n = "all" -> MCDevices]
MCAreaOf == [d \in MCDevices |-> IF d = "lamp" THEN "kitchen" ELSE "office"]
MCPropertyOf == [d \in MCDevices |-> IF d = "lamp" THEN "light" ELSE "climate"]
MCRequested == {<<"the lamp", "the climate">>, <<"the lamp", "all">>}
=============================================================================
