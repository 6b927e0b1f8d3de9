---------------------------- MODULE MCDeviceErase ----------------------------
EXTENDS DeviceErase
Sysfs(name, usb, rotational, erase, stacked) ==
  [name |-> name, usb |-> usb, removable |-> FALSE, rotational |-> rotational, erase |-> erase,
   stacked |-> stacked]
MCDevices ==
  {Sysfs("sd", FALSE, "1", "unavailable", FALSE), Sysfs("sd", FALSE, "1", "unavailable", TRUE),
   Sysfs("sd", FALSE, "0", "enhanced", FALSE), Sysfs("sd", TRUE, "1", "unavailable", FALSE),
   Sysfs("nvme", FALSE, "0", "crypto", FALSE), Sysfs("nvme", FALSE, "0", "sanitize", TRUE)}
=============================================================================
