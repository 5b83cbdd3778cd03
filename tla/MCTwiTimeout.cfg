\* The bus is never slow by a tick, so aux_message too is queued only when it is done: what is found is the timeout's.
SPECIFICATION FairSpec
CONSTANTS
  adc = adc
  aux = aux
  rtc = rtc
  MainMessage <- MCMain
  TickMessage <- MCTick
  Checked = {adc, aux}
  Shape <- MCShape
  MaxCount = 2
  Null = Null
PROPERTIES
  AlwaysRunning
